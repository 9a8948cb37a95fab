------------------------ MODULE DetectorHistoryProofs ------------------------
(***************************************************************************)
(* Proofs about what the detectors find, against everything that was heard *)
(* of the aircraft: no landing is missed, and none is made up.             *)
(***************************************************************************)
EXTENDS DetectorEngineProofs

(* What one sample does, part by part.                                     *)
ArrivalNow(s)  == ArrivalCheck(RingAfter(samples, s), FlagsBefore(samples, flags, s).arrival)
HoldingNow(s)  == HoldingCheck(RingAfter(samples, s), FlagsBefore(samples, flags, s).hold)
GoAroundNow(s) == GoAroundCheck(RingAfter(samples, s), FlagsBefore(samples, flags, s).goAround)
LostNow(s)     == IF GapBefore(samples, s) THEN TimeoutEvents(samples, flags) ELSE {}
FoundNow(s)    == ArrivalNow(s).found \cup HoldingNow(s).found \cup GoAroundNow(s).found

(* The ring that the sample is appended to.                                *)
RingBefore(s)  == IF GapBefore(samples, s) THEN {} ELSE samples

LEMMA SampleParts ==
  ASSUME TypeInv, NEW s \in Sample, ApplySample(s)
  PROVE  /\ s.ts \in Nat /\ newestTs \in Nat /\ contact \in Nat
         /\ newestTs' \in Nat /\ newestTs <= newestTs' /\ s.ts <= newestTs'
         /\ newestTs' \in {newestTs, s.ts}
         /\ contact' = IF GapBefore(samples, s) THEN contact + 1 ELSE contact
         /\ contact <= contact' /\ contact' \in Nat
         /\ FlagsBefore(samples, flags, s) = IF GapBefore(samples, s) THEN NoFlags ELSE flags
         /\ heard' = IF contact' = contact /\ s.ts \in TsOf(samples) THEN heard
                     ELSE heard \cup {[contact |-> contact', sample |-> s]}
<1>1. s.ts \in Nat /\ newestTs \in Nat /\ contact \in Nat
  BY DEF Sample, TypeInv, TypeOK
<1>2. newestTs' = (IF s.ts > newestTs THEN s.ts ELSE newestTs)
  BY DEF ApplySample
<1>3. contact' = IF GapBefore(samples, s) THEN contact + 1 ELSE contact
  BY DEF ApplySample
<1>4. heard' = IF contact' = contact /\ s.ts \in TsOf(samples) THEN heard
               ELSE heard \cup {[contact |-> contact', sample |-> s]}
  BY DEF ApplySample
<1>5. FlagsBefore(samples, flags, s) = IF GapBefore(samples, s) THEN NoFlags ELSE flags
  BY DEF FlagsBefore
<1> HIDE DEF GapBefore
<1>6. newestTs' \in Nat /\ newestTs <= newestTs' /\ s.ts <= newestTs' /\ newestTs' \in {newestTs, s.ts}
  BY <1>1, <1>2
<1>7. contact <= contact' /\ contact' \in Nat
  BY <1>1, <1>3
<1>8. QED
  BY <1>1, <1>3, <1>4, <1>5, <1>6, <1>7

LEMMA SampleRing ==
  ASSUME TypeInv, NEW s \in Sample, ApplySample(s)
  PROVE  /\ samples' = RingAfter(samples, s) /\ RingAfter(samples, s) = RingWith(RingBefore(s), s)
         /\ Ring(RingBefore(s), newestTs') /\ Ring(samples', newestTs') /\ samples' # {}
         /\ FlagsBefore(samples, flags, s) \in Flags
         /\ FlagsBefore(samples, flags, s).arrival \in Marks
         /\ FlagsBefore(samples, flags, s).goAround \in Marks
<1>1. newestTs' \in Nat /\ newestTs <= newestTs' /\ s.ts <= newestTs'
  BY SampleParts
<1>2. Ring(samples, newestTs') /\ Ring(RingAfter(samples, s), newestTs') /\ RingAfter(samples, s) # {}
      /\ FlagsBefore(samples, flags, s) \in Flags
  BY <1>1, StateBeforeSample
<1>3. samples' = RingAfter(samples, s)
  BY DEF ApplySample, Iterate
<1>4. Ring({}, newestTs')
  BY <1>1, EmptyRing
<1>5. QED
  BY <1>2, <1>3, <1>4 DEF RingBefore, RingAfter, Flags, Marks

LEMMA SampleFinds ==
  ASSUME TypeInv, NEW s \in Sample, ApplySample(s)
  PROVE  /\ ArrivalNow(s) \in [found : SUBSET Event, marks : Marks]
         /\ HoldingNow(s) \in [found : SUBSET Event, hold : Hold]
         /\ GoAroundNow(s) \in [found : SUBSET Event, marks : Marks]
         /\ LostNow(s) \in SUBSET Event /\ FoundNow(s) \in SUBSET Event
         /\ flags' = [arrival |-> ArrivalNow(s).marks, goAround |-> GoAroundNow(s).marks,
                      hold |-> HoldingNow(s).hold]
         /\ Emit(About(contact, LostNow(s)) \cup About(contact', FoundNow(s)))
         /\ Found' = Found \cup About(contact, LostNow(s)) \cup About(contact', FoundNow(s))
<1>1. newestTs' \in Nat
  BY SampleParts
<1>2. /\ samples' = RingAfter(samples, s) /\ Ring(samples', newestTs') /\ samples' # {}
      /\ FlagsBefore(samples, flags, s) \in Flags
      /\ FlagsBefore(samples, flags, s).arrival \in Marks
      /\ FlagsBefore(samples, flags, s).goAround \in Marks
  BY SampleRing
<1>3. ArrivalNow(s) \in [found : SUBSET Event, marks : Marks]
  BY <1>1, <1>2, ArrivalTypes DEF ArrivalNow
<1>4. HoldingNow(s) \in [found : SUBSET Event, hold : Hold]
  BY <1>1, <1>2, HoldingTypes DEF HoldingNow, Flags
<1>5. GoAroundNow(s) \in [found : SUBSET Event, marks : Marks]
  BY <1>1, <1>2, GoAroundTypes DEF GoAroundNow
<1>6. LostNow(s) \in SUBSET Event
  BY TimeoutEventsType DEF GapBefore, LostNow
<1>7. /\ flags' = [arrival |-> ArrivalNow(s).marks, goAround |-> GoAroundNow(s).marks,
                   hold |-> HoldingNow(s).hold]
      /\ Emit(About(contact, LostNow(s)) \cup About(contact', FoundNow(s)))
  BY DEF ApplySample, Iterate, ArrivalNow, HoldingNow, GoAroundNow, LostNow, FoundNow
<1>8. Found' = Found \cup About(contact, LostNow(s)) \cup About(contact', FoundNow(s))
  BY <1>7 DEF Emit, Found
<1>9. FoundNow(s) \in SUBSET Event
  BY <1>3, <1>4, <1>5 DEF FoundNow
<1>10. QED
  BY <1>3, <1>4, <1>5, <1>6, <1>7, <1>8, <1>9

LEMMA TimeoutParts ==
  ASSUME TypeInv, Timeout
  PROVE  /\ samples # {} /\ samples' = {} /\ flags' = NoFlags /\ contact' = contact + 1
         /\ contact \in Nat
         /\ UNCHANGED <<newestTs, heard, dropped, emitted>>
         /\ TimeoutEvents(samples, flags) \in SUBSET Event
         /\ Found' = Found \cup About(contact, TimeoutEvents(samples, flags))
<1>1. samples # {} /\ samples' = {} /\ flags' = NoFlags /\ contact' = contact + 1
  BY DEF Timeout
<1>2. contact \in Nat /\ UNCHANGED <<newestTs, heard, dropped, emitted>>
  BY DEF Timeout, TypeInv, TypeOK
<1>3. TimeoutEvents(samples, flags) \in SUBSET Event
  BY <1>1, TimeoutEventsType
<1>4. Found' = Found \cup About(contact, TimeoutEvents(samples, flags))
  BY DEF Timeout, Found
<1>5. QED
  BY <1>1, <1>2, <1>3, <1>4

(* Every step is a sample, a timeout, or leaves everything but the call.   *)
NothingHeard ==
    /\ UNCHANGED <<samples, flags, newestTs, contact, heard, events, dropped>>
    /\ emitted' \in {emitted, {}}

LEMMA StepKinds ==
  ASSUME [Next]_vars
  PROVE  (\E s \in Sample : s \in Incoming /\ ApplySample(s)) \/ Timeout \/ NothingHeard
<1>1. CASE \E s \in Incoming : ApplySample(s)
  BY <1>1, IncomingType
<1>2. CASE (\E s \in Incoming : RaiseOnSample(s)) \/ Return \/ NothingToDo \/ UNCHANGED vars
  BY <1>2 DEF RaiseOnSample, Return, NothingToDo, NothingHeard, vars, engineVars, historyVars
<1>3. QED
  BY <1>1, <1>2 DEF Next

(* Found only grows.                                                       *)
LEMMA FoundGrows ==
  ASSUME TypeInv, [Next]_vars
  PROVE  Found \subseteq Found' /\ heard \subseteq heard'
<1>1. CASE \E s \in Sample : ApplySample(s)
  <2>1. PICK s \in Sample : ApplySample(s)
    BY <1>1
  <2>2. QED
    BY <2>1, SampleParts, SampleFinds
<1>2. CASE Timeout
  BY <1>2, TimeoutParts
<1>3. CASE NothingHeard
  BY <1>3 DEF NothingHeard, Found
<1>4. QED
  BY <1>1, <1>2, <1>3, StepKinds

-----------------------------------------------------------------------------
(* The ring and what was heard.  Nothing of the current contact was heard  *)
(* later than the ring's newest sample, and the ring's samples were heard. *)
HeardInv ==
    /\ \A h \in heard : h.contact <= contact /\ h.sample.ts <= newestTs
    /\ \A r \in samples : [contact |-> contact, sample |-> r] \in heard
    /\ \A h \in heard : h.contact = contact =>
          /\ samples # {} /\ h.sample.ts <= Newest(samples).ts
          /\ h.sample.ts = Newest(samples).ts => h.sample = Newest(samples)

LEMMA SampleKeepsHeard ==
  ASSUME TypeInv, HeardInv, NEW s \in Sample, ApplySample(s)
  PROVE  HeardInv'
<1> DEFINE R == RingBefore(s)
           Q == samples'
<1>1. /\ s.ts \in Nat /\ newestTs \in Nat /\ contact \in Nat /\ contact' \in Nat
      /\ newestTs' \in Nat /\ newestTs <= newestTs' /\ s.ts <= newestTs' /\ contact <= contact'
      /\ heard' = IF contact' = contact /\ s.ts \in TsOf(samples) THEN heard
                  ELSE heard \cup {[contact |-> contact', sample |-> s]}
  BY SampleParts
<1>2. Q = RingWith(R, s) /\ Ring(R, newestTs') /\ Ring(Q, newestTs') /\ Q # {}
  BY SampleRing
<1>3. /\ Newest(Q) \in Q /\ Newest(Q) \in Sample
      /\ R # {} => Newest(R) \in R /\ \A r \in R : r.ts <= Newest(R).ts
  BY <1>1, <1>2, PartOfRing
<1>4. heard \subseteq [contact : Nat, sample : Sample]
  BY DEF TypeInv, TypeOK
<1>5. /\ \A h \in heard : h.contact = contact' =>
            R # {} /\ h.sample.ts <= Newest(R).ts /\ (h.sample.ts = Newest(R).ts => h.sample = Newest(R))
      /\ \A r \in R : [contact |-> contact', sample |-> r] \in heard
      /\ heard' = IF s.ts \in TsOf(R) THEN heard ELSE heard \cup {[contact |-> contact', sample |-> s]}
  <2>1. CASE GapBefore(samples, s)
    <3>1. contact' = contact + 1 /\ R = {}
      BY <2>1, SampleParts DEF RingBefore
    <3>2. \A h \in heard : h.contact # contact'
      BY <1>1, <1>4, <3>1 DEF HeardInv
    <3>3. s.ts \notin TsOf({})
      BY DEF TsOf
    <3>4. QED
      BY <1>1, <3>1, <3>2, <3>3
  <2>2. CASE ~GapBefore(samples, s)
    <3>1. contact' = contact /\ R = samples
      BY <2>2, SampleParts DEF RingBefore
    <3>2. QED
      BY <1>1, <3>1 DEF HeardInv
  <2>3. QED
    BY <2>1, <2>2
<1>6. /\ \A r \in R \cup {s} : r.ts <= Newest(Q).ts /\ r.ts \in Nat
      /\ Q \subseteq R \cup {s} /\ \A r, q \in R : r.ts = q.ts => r = q
  <2>1. \A r \in R \cup {s} : r.ts <= Newest(Q).ts
    BY <1>1, <1>2, RingWithKeepsNewest
  <2>2. Q \subseteq R \cup {s}
    BY <1>1, <1>2, RingWithKeepsRing
  <2>3. \A r \in R \cup {s} : r.ts \in Nat
    BY <1>1, <1>2 DEF Ring, Sample
  <2>4. QED
    BY <1>2, <2>1, <2>2, <2>3 DEF Ring
<1>7. s.ts \in TsOf(R) => Q = R
  BY <1>2 DEF RingWith
<1>8. s.ts \notin TsOf(R) => \A r \in R : r.ts # s.ts
  BY DEF TsOf
<1> HIDE DEF R, Q
<1>9. \A h \in heard' : h.contact <= contact' /\ h.sample.ts <= newestTs'
  <2>1. \A h \in heard : h.contact \in Nat /\ h.sample.ts \in Nat
    BY <1>4 DEF Sample
  <2>2. \A h \in heard : h.contact <= contact' /\ h.sample.ts <= newestTs'
    BY <1>1, <2>1 DEF HeardInv
  <2>3. QED
    BY <1>1, <2>2
<1>10. \A r \in Q : [contact |-> contact', sample |-> r] \in heard'
  BY <1>5, <1>6, <1>7
<1>11. ASSUME NEW h \in heard', h.contact = contact'
       PROVE  h.sample.ts <= Newest(Q).ts /\ (h.sample.ts = Newest(Q).ts => h.sample = Newest(Q))
  <2>1. CASE s.ts \in TsOf(R)
    BY <1>5, <1>7, <1>11, <2>1
  <2>2. CASE s.ts \notin TsOf(R) /\ h \in heard
    <3>1. R # {} /\ Newest(R) \in R /\ h.sample.ts <= Newest(R).ts
      BY <1>3, <1>5, <1>11, <2>2
    <3>2. h.sample.ts \in Nat /\ Newest(R).ts \in Nat /\ Newest(R).ts <= Newest(Q).ts
      BY <1>4, <1>6, <2>2, <3>1 DEF Sample
    <3>3. Newest(Q).ts \in Nat
      BY <1>3 DEF Sample
    <3>4. h.sample.ts <= Newest(Q).ts
      BY <3>1, <3>2, <3>3
    <3>5. ASSUME h.sample.ts = Newest(Q).ts
          PROVE  h.sample = Newest(Q)
      <4>1. h.sample.ts = Newest(R).ts /\ Newest(R).ts = Newest(Q).ts
        BY <3>1, <3>2, <3>3, <3>5
      <4>2. Newest(Q) \in R
        BY <1>3, <1>6, <1>8, <2>2, <3>1, <4>1
      <4>3. Newest(Q) = Newest(R)
        BY <1>6, <3>1, <4>1, <4>2
      <4>4. QED
        BY <1>5, <1>11, <2>2, <4>1, <4>3
    <3>6. QED
      BY <3>4, <3>5
  <2>3. CASE s.ts \notin TsOf(R) /\ h.sample = s
    BY <1>3, <1>6, <1>8, <2>3
  <2>4. h \in heard \/ h.sample = s
    BY <1>5
  <2>5. QED
    BY <2>1, <2>2, <2>3, <2>4
<1>12. QED
  BY <1>2, <1>9, <1>10, <1>11 DEF HeardInv, Q

LEMMA HeardStep ==
  ASSUME TypeInv, HeardInv, [Next]_vars
  PROVE  HeardInv'
<1>1. CASE \E s \in Sample : ApplySample(s)
  BY <1>1, SampleKeepsHeard
<1>2. CASE Timeout
  <2>1. /\ samples' = {} /\ contact' = contact + 1 /\ contact \in Nat
        /\ UNCHANGED <<newestTs, heard>>
    BY <1>2, TimeoutParts
  <2>2. \A h \in heard : h.contact \in Nat
    BY DEF TypeInv, TypeOK
  <2>3. QED
    BY <2>1, <2>2 DEF HeardInv
<1>3. CASE NothingHeard
  BY <1>3 DEF NothingHeard, HeardInv
<1>4. QED
  BY <1>1, <1>2, <1>3, StepKinds

LEMMA HeardAlways == Spec => [](TypeInv /\ HeardInv)
<1>1. Init => HeardInv
  BY DEF Init, HeardInv
<1>2. Spec => []TypeInv
  BY EngineTypes, PTL DEF TypeInv
<1>3. QED
  BY <1>1, <1>2, HeardStep, PTL DEF Spec

-----------------------------------------------------------------------------
(* The marks of the arrival detector, read backwards: behind each there is *)
(* an arrival that was found, no later than the ring's newest sample.      *)
ArrivalOf(F, airport, ts) ==
    \E a \in F : IsArrival(a) /\ a.event.airport = airport /\ a.event.event_ts = ts

Backed(marks, F, b) ==
    \A airport \in Airports : marks[airport] # Null =>
        marks[airport] <= b /\ ArrivalOf(F, airport, marks[airport])

Arrived(F, airport, ts) ==
    \E a \in F : /\ IsArrival(a) /\ a.event.airport = airport
                 /\ a.event.event_ts <= ts /\ ts < a.event.event_ts + ArrivalDedupeS

LEMMA ConfirmReports ==
  ASSUME NEW R, NEW b \in Nat, Ring(R, b), R # {}, NEW marks \in Marks, NEW how, NEW fallback
  PROVE  LET c       == Confirm(R, marks, how, fallback)
             airport == NearestAirport(Newest(R).pos)
             now     == Newest(R).ts
         IN  /\ now \in Nat /\ airport \in Airports
             /\ \/ Deduped(marks, airport, now) /\ c.marks = marks
                \/ /\ c.marks = [marks EXCEPT ![airport] = now]
                   /\ \E f \in c.found : f.event_type = "arrival" /\ f.airport = airport
                                         /\ f.event_ts = now
<1>1. Newest(R) \in Sample
  BY PartOfRing
<1>2. Newest(R).ts \in Nat /\ NearestAirport(Newest(R).pos) \in Airports
  BY <1>1, NearestAirportIsOne DEF Sample
<1>3. QED
  BY <1>2 DEF Confirm, ArrivalAt

LEMMA ConfirmArrives ==
  ASSUME NEW R, NEW b \in Nat, Ring(R, b), R # {}, NEW marks \in Marks, NEW how, NEW fallback,
         NEW F, Backed(marks, F, Newest(R).ts), NEW G, F \subseteq G, NEW c,
         About(c, Confirm(R, marks, how, fallback).found) \subseteq G
  PROVE  /\ Arrived(G, NearestAirport(Newest(R).pos), Newest(R).ts)
         /\ Backed(Confirm(R, marks, how, fallback).marks, G, Newest(R).ts)
<1> DEFINE found   == Confirm(R, marks, how, fallback).found
           left    == Confirm(R, marks, how, fallback).marks
           airport == NearestAirport(Newest(R).pos)
           now     == Newest(R).ts
<1>1. /\ now \in Nat /\ airport \in Airports /\ ArrivalDedupeS \in Nat /\ ArrivalDedupeS > 0
      /\ \/ Deduped(marks, airport, now) /\ left = marks
         \/ /\ left = [marks EXCEPT ![airport] = now]
            /\ \E f \in found : f.event_type = "arrival" /\ f.airport = airport /\ f.event_ts = now
  BY ConfirmReports, ArrivalAssumption
<1>2. \A f \in found : [contact |-> c, event |-> f] \in G
  BY DEF About
<1> HIDE DEF found, left, airport, now
<1>3. Backed(marks, G, now)
  BY DEF Backed, ArrivalOf, now
<1>4. CASE Deduped(marks, airport, now) /\ left = marks
  <2>1. marks[airport] # Null /\ now - marks[airport] < ArrivalDedupeS /\ marks[airport] \in Nat
    BY <1>1, <1>4 DEF Deduped, Marks
  <2>2. marks[airport] <= now /\ ArrivalOf(G, airport, marks[airport])
    BY <1>1, <1>3, <2>1 DEF Backed
  <2>3. marks[airport] <= now /\ now < marks[airport] + ArrivalDedupeS
    BY <1>1, <2>1, <2>2
  <2>4. QED
    BY <1>3, <1>4, <2>2, <2>3 DEF Arrived, ArrivalOf, left, airport, now
<1>5. ASSUME left = [marks EXCEPT ![airport] = now],
             NEW f \in found, f.event_type = "arrival", f.airport = airport, f.event_ts = now
      PROVE  Arrived(G, airport, now) /\ Backed(left, G, now)
  <2> DEFINE a == [contact |-> c, event |-> f]
  <2>1. a \in G /\ IsArrival(a) /\ a.event.airport = airport /\ a.event.event_ts = now
    BY <1>2, <1>5 DEF IsArrival
  <2> HIDE DEF a
  <2>2. Arrived(G, airport, now)
    BY <1>1, <2>1 DEF Arrived
  <2>3. ArrivalOf(G, airport, now) /\ now <= now
    BY <1>1, <2>1 DEF ArrivalOf
  <2>4. \A p \in Airports : left[p] = IF p = airport THEN now ELSE marks[p]
    BY <1>1, <1>5 DEF Marks
  <2>5. QED
    BY <1>3, <2>2, <2>3, <2>4 DEF Backed
<1>6. QED
  BY <1>1, <1>4, <1>5 DEF found, left, airport, now

LEMMA CheckBacks ==
  ASSUME NEW R, NEW b \in Nat, Ring(R, b), R # {}, NEW marks \in Marks,
         NEW F, Backed(marks, F, Newest(R).ts), NEW G, F \subseteq G, NEW c,
         About(c, ArrivalCheck(R, marks).found) \subseteq G
  PROVE  /\ Backed(ArrivalCheck(R, marks).marks, G, Newest(R).ts)
         /\ TouchedDown(R) /\ AirportDist(Newest(R).pos) < ConfirmGroundDistKm =>
               Arrived(G, NearestAirport(Newest(R).pos), Newest(R).ts)
<1>1. CASE TouchedDown(R) /\ AirportDist(Newest(R).pos) < ConfirmGroundDistKm
  <2>1. ArrivalCheck(R, marks) = Confirm(R, marks, "on_ground", Newest({s \in R : ~s.onGround}))
    BY <1>1 DEF ArrivalCheck
  <2>2. QED
    BY <2>1, ConfirmArrives
<1>2. CASE ~(TouchedDown(R) /\ AirportDist(Newest(R).pos) < ConfirmGroundDistKm)
  <2>1. ArrivalCheck(R, marks).marks = marks
    BY <1>2 DEF ArrivalCheck
  <2>2. QED
    BY <1>2, <2>1 DEF Backed, ArrivalOf
<1>3. QED
  BY <1>1, <1>2

LEMMA TimeoutArrives ==
  ASSUME NEW R, NEW b \in Nat, Ring(R, b), NEW marks \in Marks, LostOnFinal(R),
         NEW F, Backed(marks, F, Newest(R).ts), NEW G, F \subseteq G, NEW c,
         About(c, ArrivalOnTimeout(R, marks)) \subseteq G
  PROVE  Arrived(G, NearestAirport(Newest(R).pos), Newest(R).ts)
<1>1. R # {} /\ ArrivalOnTimeout(R, marks) = Confirm(R, marks, "coverage_loss", Newest(R)).found
  BY DEF LostOnFinal, ArrivalOnTimeout
<1>2. QED
  BY <1>1, ConfirmArrives

BackedInv == samples # {} => Backed(flags.arrival, Found, Newest(samples).ts)
NoMarks   == samples = {} => flags.arrival = NoArrivals

LEMMA SampleKeepsBacked ==
  ASSUME TypeInv, BackedInv, NoMarks, NEW s \in Sample, ApplySample(s)
  PROVE  /\ BackedInv' /\ NoMarks'
         /\ TouchedDown(samples') /\ AirportDist(Newest(samples').pos) < ConfirmGroundDistKm =>
               Arrived(Found', NearestAirport(Newest(samples').pos), Newest(samples').ts)
<1> DEFINE marks == FlagsBefore(samples, flags, s).arrival
           Q     == samples'
<1>1. /\ newestTs' \in Nat /\ Q = RingAfter(samples, s) /\ Ring(Q, newestTs') /\ Q # {}
      /\ marks \in Marks /\ s.ts <= newestTs' /\ s.ts \in Nat /\ newestTs <= newestTs' /\ newestTs \in Nat
      /\ Q = RingWith(RingBefore(s), s) /\ Ring(RingBefore(s), newestTs')
  BY SampleParts, SampleRing
<1>2. /\ Found \subseteq Found' /\ flags'.arrival = ArrivalCheck(Q, marks).marks
      /\ About(contact', ArrivalCheck(Q, marks).found) \subseteq Found'
  <2>1. About(contact', ArrivalNow(s).found) \subseteq About(contact', FoundNow(s))
    BY DEF About, FoundNow
  <2>2. ArrivalNow(s) = ArrivalCheck(Q, marks)
    BY <1>1 DEF ArrivalNow
  <2>3. flags'.arrival = ArrivalNow(s).marks
    BY DEF ApplySample, Iterate, ArrivalNow
  <2>4. Found \subseteq Found' /\ About(contact', FoundNow(s)) \subseteq Found'
    BY SampleFinds
  <2> HIDE DEF marks, Q
  <2>5. QED
    BY <2>1, <2>2, <2>3, <2>4
<1>3. Backed(marks, Found, Newest(Q).ts)
  <2>1. CASE GapBefore(samples, s) \/ samples = {}
    <3>1. marks = NoArrivals
      BY <2>1 DEF FlagsBefore, NoFlags, NoMarks
    <3>2. QED
      BY <3>1 DEF Backed, NoArrivals
  <2>2. CASE ~GapBefore(samples, s) /\ samples # {}
    <3>1. marks = flags.arrival /\ RingBefore(s) = samples
      BY <2>2 DEF FlagsBefore, RingBefore
    <3>2. Newest(samples) \in samples /\ Newest(samples).ts \in Nat
      BY <2>2, PartOfRing, <1>1, <3>1 DEF Sample
    <3>3. Newest(samples).ts <= Newest(Q).ts
      BY <1>1, <3>1, <3>2, RingWithKeepsNewest
    <3>4. Newest(Q).ts \in Nat
      BY <1>1, PartOfRing DEF Sample
    <3>5. \A p \in Airports : marks[p] # Null => marks[p] \in Nat
      BY <1>1 DEF Marks
    <3>6. QED
      BY <2>2, <3>1, <3>2, <3>3, <3>4, <3>5 DEF BackedInv, Backed
  <2>3. QED
    BY <2>1, <2>2
<1> HIDE DEF marks
<1>4. QED
  BY <1>1, <1>2, <1>3, CheckBacks DEF BackedInv, NoMarks

LEMMA BackedStep ==
  ASSUME TypeInv, BackedInv, NoMarks, [Next]_vars
  PROVE  BackedInv' /\ NoMarks'
<1>1. CASE \E s \in Sample : ApplySample(s)
  BY <1>1, SampleKeepsBacked
<1>2. CASE Timeout
  BY <1>2, TimeoutParts DEF BackedInv, NoMarks, NoFlags
<1>3. CASE NothingHeard
  BY <1>3 DEF NothingHeard, BackedInv, NoMarks, Backed, ArrivalOf, Found
<1>4. QED
  BY <1>1, <1>2, <1>3, StepKinds

LEMMA BackedAlways == Spec => [](BackedInv /\ NoMarks)
<1>1. Init => BackedInv /\ NoMarks
  BY DEF Init, BackedInv, NoMarks, NoFlags
<1>2. Spec => []TypeInv
  BY EngineTypes, PTL DEF TypeInv
<1>3. QED
  BY <1>1, <1>2, BackedStep, PTL DEF Spec

LEMMA ArrivedGrows ==
  ASSUME NEW F, NEW G, F \subseteq G, NEW airport, NEW ts, Arrived(F, airport, ts)
  PROVE  Arrived(G, airport, ts)
BY DEF Arrived

LEMMA ArrivedIsArrivedBy ==
  \A airport, ts : ArrivedBy(airport, ts) <=> Arrived(Found, airport, ts)
BY DEF ArrivedBy, Arrived, Arrivals, IsArrival

-----------------------------------------------------------------------------
(* Short finals.                                                           *)
FinalsFound(H, c, F) ==
    \A h \in H :
        /\ h.contact < c
        /\ \A g \in H : g.contact = h.contact => g.sample.ts <= h.sample.ts
        /\ LostOnFinal({h.sample})
        => Arrived(F, NearestAirport(h.sample.pos), h.sample.ts)

(* A contact that ends on final is found by what is looked for when it     *)
(* ends: the timeout, or the gap reset.                                    *)
LEMMA LostContactIsFound ==
  ASSUME TypeInv, HeardInv, BackedInv, samples # {},
         NEW h \in heard, h.contact = contact,
         \A g \in heard : g.contact = h.contact => g.sample.ts <= h.sample.ts,
         LostOnFinal({h.sample}),
         NEW G, Found \subseteq G, About(contact, TimeoutEvents(samples, flags)) \subseteq G
  PROVE  Arrived(G, NearestAirport(h.sample.pos), h.sample.ts)
<1>1. newestTs \in Nat /\ Ring(samples, newestTs) /\ flags.arrival \in Marks
  BY DEF TypeInv, TypeOK, Flags, Marks
<1>2. Newest(samples) \in samples /\ Newest(samples).ts \in Nat /\ h.sample.ts \in Nat
  <2>1. Newest(samples) \in samples /\ Newest(samples) \in Sample
    BY <1>1, PartOfRing
  <2>2. h.sample \in Sample
    BY DEF TypeInv, TypeOK
  <2>3. QED
    BY <2>1, <2>2 DEF Sample
<1>3. h.sample = Newest(samples)
  <2>1. [contact |-> contact, sample |-> Newest(samples)] \in heard
    BY <1>2 DEF HeardInv
  <2>2. Newest(samples).ts <= h.sample.ts
    BY <2>1
  <2>3. h.sample.ts <= Newest(samples).ts
    BY DEF HeardInv
  <2>4. h.sample.ts = Newest(samples).ts
    BY <1>2, <2>2, <2>3
  <2>5. QED
    BY <2>4 DEF HeardInv
<1>4. LostOnFinal(samples)
  <2>1. Newest({h.sample}) = h.sample
    BY <1>2 DEF Newest
  <2> HIDE DEF Newest
  <2>2. QED
    BY <1>3, <2>1 DEF LostOnFinal
<1>5. About(contact, ArrivalOnTimeout(samples, flags.arrival)) \subseteq G
  BY DEF TimeoutEvents, About
<1>6. QED
  BY <1>1, <1>3, <1>4, <1>5, TimeoutArrives DEF BackedInv

LEMMA FinalsStep ==
  ASSUME TypeInv, HeardInv, BackedInv, FinalsFound(heard, contact, Found), [Next]_vars
  PROVE  FinalsFound(heard, contact, Found)'
<1>0. /\ Found \subseteq Found' /\ contact \in Nat
      /\ heard \subseteq [contact : Nat, sample : Sample]
  BY FoundGrows DEF TypeInv, TypeOK
<1>1. CASE \E s \in Sample : ApplySample(s)
  <2>1. PICK s \in Sample : ApplySample(s)
    BY <1>1
  <2>2. contact' = (IF GapBefore(samples, s) THEN contact + 1 ELSE contact) /\ contact' \in Nat
        /\ heard' = IF contact' = contact /\ s.ts \in TsOf(samples) THEN heard
                    ELSE heard \cup {[contact |-> contact', sample |-> s]}
    BY <2>1, SampleParts
  <2> SUFFICES ASSUME NEW h \in heard', h.contact < contact', LostOnFinal({h.sample}),
                      \A g \in heard' : g.contact = h.contact => g.sample.ts <= h.sample.ts
               PROVE  Arrived(Found', NearestAirport(h.sample.pos), h.sample.ts)
    BY DEF FinalsFound
  <2>3. h \in heard /\ heard \subseteq heard'
    BY <2>2
  <2>4. \A g \in heard : g.contact = h.contact => g.sample.ts <= h.sample.ts
    BY <2>3
  <2>5. CASE h.contact < contact
    BY <1>0, <2>3, <2>4, <2>5, ArrivedGrows DEF FinalsFound
  <2>6. CASE h.contact = contact
    <3>1. GapBefore(samples, s)
      BY <1>0, <2>2, <2>6
    <3>2. samples # {} /\ LostNow(s) = TimeoutEvents(samples, flags)
      BY <3>1 DEF GapBefore, LostNow
    <3>3. About(contact, LostNow(s)) \subseteq Found'
      BY <2>1, SampleFinds
    <3>4. QED
      BY <1>0, <2>3, <2>4, <2>6, <3>2, <3>3, LostContactIsFound
  <2>7. h.contact < contact \/ h.contact = contact
    BY <1>0, <2>2, <2>3 DEF HeardInv
  <2>8. QED
    BY <2>5, <2>6, <2>7
<1>2. CASE Timeout
  <2>1. /\ samples # {} /\ contact' = contact + 1 /\ heard' = heard
        /\ About(contact, TimeoutEvents(samples, flags)) \subseteq Found'
    BY <1>2, TimeoutParts
  <2> SUFFICES ASSUME NEW h \in heard, h.contact < contact', LostOnFinal({h.sample}),
                      \A g \in heard : g.contact = h.contact => g.sample.ts <= h.sample.ts
               PROVE  Arrived(Found', NearestAirport(h.sample.pos), h.sample.ts)
    BY <2>1 DEF FinalsFound
  <2>2. h.contact < contact \/ h.contact = contact
    BY <1>0, <2>1
  <2>3. CASE h.contact < contact
    BY <1>0, <2>3, ArrivedGrows DEF FinalsFound
  <2>4. CASE h.contact = contact
    BY <1>0, <2>1, <2>4, LostContactIsFound
  <2>5. QED
    BY <2>2, <2>3, <2>4
<1>3. CASE NothingHeard
  BY <1>3 DEF NothingHeard, FinalsFound, Arrived, Found
<1>4. QED
  BY <1>1, <1>2, <1>3, StepKinds

(* Arrival.on_timeout: a contact that ended low and close to a field has   *)
(* an arrival there, on every feed, in order or late, for every batching.  *)
THEOREM ShortFinalAlwaysReported == Spec => []ShortFinalReported
<1>1. Init => FinalsFound(heard, contact, Found)
  BY DEF Init, FinalsFound
<1>2. FinalsFound(heard, contact, Found) => ShortFinalReported
  BY ArrivedIsArrivedBy DEF FinalsFound, ShortFinalReported
<1>3. QED
  BY <1>1, <1>2, HeardAlways, BackedAlways, FinalsStep, PTL DEF Spec

-----------------------------------------------------------------------------
(* Samples in order: what the ring holds of the contact it is about.       *)

LEMMA HeardBefore ==
  ASSUME TypeInv, HeardInv, NEW s \in Sample, ApplySample(s)
  PROVE  /\ \A h \in heard : h.contact = contact' =>
              /\ RingBefore(s) # {} /\ h.sample.ts <= Newest(RingBefore(s)).ts
              /\ h.sample.ts = Newest(RingBefore(s)).ts => h.sample = Newest(RingBefore(s))
         /\ \A r \in RingBefore(s) : [contact |-> contact', sample |-> r] \in heard
         /\ heard' = IF s.ts \in TsOf(RingBefore(s)) THEN heard
                     ELSE heard \cup {[contact |-> contact', sample |-> s]}
<1>1. /\ contact \in Nat
      /\ heard' = IF contact' = contact /\ s.ts \in TsOf(samples) THEN heard
                  ELSE heard \cup {[contact |-> contact', sample |-> s]}
  BY SampleParts
<1>2. CASE GapBefore(samples, s)
  <2>1. contact' = contact + 1 /\ RingBefore(s) = {}
    BY <1>2, SampleParts DEF RingBefore
  <2>2. \A h \in heard : h.contact \in Nat
    BY DEF TypeInv, TypeOK
  <2>3. \A h \in heard : h.contact # contact'
    BY <1>1, <2>1, <2>2 DEF HeardInv
  <2>4. s.ts \notin TsOf({})
    BY DEF TsOf
  <2>5. QED
    BY <1>1, <2>1, <2>3, <2>4
<1>3. CASE ~GapBefore(samples, s)
  <2>1. contact' = contact /\ RingBefore(s) = samples
    BY <1>3, SampleParts DEF RingBefore
  <2>2. QED
    BY <1>1, <2>1 DEF HeardInv
<1>4. QED
  BY <1>2, <1>3

(* A sample in order is the newest of the ring, unless it repeats a ts.    *)
LEMMA InOrderSample ==
  ASSUME LateBy = 0, TypeInv, NEW s \in Sample, ApplySample(s)
  PROVE  /\ newestTs <= s.ts /\ newestTs' = s.ts /\ s.ts \in Nat
         /\ samples' \subseteq RingBefore(s) \cup {s} /\ Newest(samples').ts = s.ts
         /\ s.ts \in TsOf(RingBefore(s)) => samples' = RingBefore(s)
         /\ s.ts \notin TsOf(RingBefore(s)) =>
              /\ s \in samples' /\ Newest(samples') = s
              /\ \A r \in RingBefore(s) :
                    r.ts < s.ts /\ (r \in samples' \/ \A q \in samples' : r.ts < q.ts)
<1> DEFINE R == RingBefore(s)
           Q == samples'
<1>1. /\ s.ts \in Nat /\ newestTs \in Nat /\ newestTs' \in Nat /\ s.ts <= newestTs'
      /\ newestTs' \in {newestTs, s.ts}
  BY SampleParts
<1>2. s.ts + LateBy >= newestTs
  BY DEF ApplySample, Deliverable
<1>3. newestTs <= s.ts /\ newestTs' = s.ts
  BY <1>1, <1>2
<1>4. Q = RingWith(R, s) /\ Ring(R, newestTs') /\ Ring(Q, newestTs') /\ Q # {}
  BY SampleRing
<1>5. /\ Newest(Q) \in Q /\ Q \subseteq R \cup {s}
      /\ \A q \in R \cup Q : q.ts \in Nat /\ q.ts <= s.ts
      /\ \A r \in R \cup {s} : r.ts <= Newest(Q).ts
      /\ s.ts \notin TsOf(R) => \A r \in R \cup {s} : r \in Q \/ \A q \in Q : r.ts < q.ts
      /\ \A q, r \in Q : q.ts = r.ts => q = r
  <2>1. Newest(Q) \in Q
    BY <1>1, <1>4, PartOfRing
  <2>2. Q \subseteq R \cup {s}
        /\ (s.ts \notin TsOf(R) => \A r \in R \cup {s} : r \in Q \/ \A q \in Q : r.ts < q.ts)
    BY <1>1, <1>4, RingWithKeepsRing
  <2>3. \A r \in R \cup {s} : r.ts <= Newest(Q).ts
    BY <1>1, <1>4, RingWithKeepsNewest
  <2>4. \A q \in R \cup Q : q.ts \in Nat /\ q.ts <= s.ts
    BY <1>3, <1>4 DEF Ring, Sample
  <2>5. \A q, r \in Q : q.ts = r.ts => q = r
    BY <1>4 DEF Ring
  <2>6. QED
    BY <2>1, <2>2, <2>3, <2>4, <2>5
<1>6. s.ts \in TsOf(R) => Q = R
  BY <1>4 DEF RingWith
<1>7. s.ts \notin TsOf(R) => \A r \in R : r.ts # s.ts
  BY DEF TsOf
<1> HIDE DEF R, Q
<1>8. Newest(Q).ts = s.ts
  BY <1>1, <1>5
<1>9. ASSUME s.ts \notin TsOf(R)
      PROVE  s \in Q /\ Newest(Q) = s /\ \A r \in R : r.ts < s.ts
  <2>1. \A r \in R : r.ts < s.ts
    BY <1>1, <1>5, <1>7, <1>9
  <2>2. Newest(Q) = s
    BY <1>1, <1>5, <1>8, <2>1
  <2>3. QED
    BY <1>5, <2>1, <2>2
<1>10. QED
  BY <1>1, <1>3, <1>5, <1>6, <1>8, <1>9 DEF R, Q

(* Nothing heard of the current contact is missing from the ring, but what *)
(* is older than all of it.                                                *)
KeptInv ==
    \A h \in heard : h.contact = contact =>
        h.sample \in samples \/ \A r \in samples : h.sample.ts < r.ts

LEMMA SampleKeepsKept ==
  ASSUME LateBy = 0, TypeInv, HeardInv, KeptInv, NEW s \in Sample, ApplySample(s)
  PROVE  KeptInv'
<1> DEFINE R == RingBefore(s)
           Q == samples'
<1>1. /\ \A h \in heard : h.contact = contact' => R # {} /\ h.sample.ts <= Newest(R).ts
      /\ heard' = IF s.ts \in TsOf(R) THEN heard
                  ELSE heard \cup {[contact |-> contact', sample |-> s]}
  BY HeardBefore
<1>2. /\ s.ts \in Nat /\ Q \subseteq R \cup {s}
      /\ s.ts \in TsOf(R) => Q = R
      /\ s.ts \notin TsOf(R) =>
           s \in Q /\ \A r \in R : r.ts < s.ts /\ (r \in Q \/ \A q \in Q : r.ts < q.ts)
  BY InOrderSample
<1>3. R # {} => R = samples /\ contact' = contact
  BY SampleParts DEF RingBefore
<1>4. /\ R # {} => Newest(R) \in R
      /\ \A r \in R : r.ts \in Nat
  <2>1. Ring(R, newestTs') /\ newestTs' \in Nat
    BY SampleParts, SampleRing
  <2>2. QED
    BY <2>1, PartOfRing DEF Ring, Sample
<1>5. \A h \in heard : h.sample.ts \in Nat
  BY DEF TypeInv, TypeOK, Sample
<1> HIDE DEF R, Q
<1>6. ASSUME NEW h \in heard, h.contact = contact'
      PROVE  h.sample \in Q \/ \A q \in Q : h.sample.ts < q.ts
  <2>1. h.sample \in R \/ \A r \in R : h.sample.ts < r.ts
    BY <1>1, <1>3, <1>6 DEF KeptInv
  <2>2. CASE s.ts \in TsOf(R)
    BY <1>2, <2>1, <2>2
  <2>3. CASE s.ts \notin TsOf(R) /\ h.sample \in R
    BY <1>2, <2>3
  <2>4. CASE s.ts \notin TsOf(R) /\ \A r \in R : h.sample.ts < r.ts
    <3>1. h.sample.ts < Newest(R).ts /\ Newest(R).ts < s.ts
      BY <1>1, <1>2, <1>4, <1>6, <2>4
    <3>2. h.sample.ts < s.ts
      BY <1>1, <1>2, <1>4, <1>5, <1>6, <3>1
    <3>3. QED
      BY <1>2, <2>4, <3>2
  <2>5. QED
    BY <2>1, <2>2, <2>3, <2>4
<1>7. QED
  BY <1>1, <1>2, <1>6 DEF KeptInv, Q

LEMMA KeptStep ==
  ASSUME LateBy = 0, TypeInv, HeardInv, KeptInv, [Next]_vars
  PROVE  KeptInv'
<1>1. CASE \E s \in Sample : ApplySample(s)
  BY <1>1, SampleKeepsKept
<1>2. CASE Timeout
  <2>1. samples' = {} /\ contact' = contact + 1 /\ contact \in Nat /\ heard' = heard
    BY <1>2, TimeoutParts
  <2>2. \A h \in heard : h.contact \in Nat /\ h.contact <= contact
    BY DEF TypeInv, TypeOK, HeardInv
  <2>3. QED
    BY <2>1, <2>2 DEF KeptInv
<1>3. CASE NothingHeard
  BY <1>3 DEF NothingHeard, KeptInv
<1>4. QED
  BY <1>1, <1>2, <1>3, StepKinds

(* What was heard of a contact between two times.                          *)
Leg(H, c, from, to) ==
    {h.sample : h \in {g \in H : g.contact = c /\ g.sample.ts \in from..to}}

LEMMA InLeg ==
  ASSUME NEW H, NEW c, NEW from, NEW to, NEW x
  PROVE  x \in Leg(H, c, from, to) <=>
           \E h \in H : h.contact = c /\ h.sample = x /\ x.ts \in from..to
BY DEF Leg

LEMMA HeardInIsLeg ==
  \A c, from, to : HeardIn(c, from, to) = Leg(heard, c, from, to)
BY DEF HeardIn, Leg

(* In order, what a contact was heard to do up to one of its samples is    *)
(* settled.                                                                *)
LEMMA LegKept ==
  ASSUME LateBy = 0, TypeInv, HeardInv, [Next]_vars,
         NEW h \in heard, NEW from \in Nat, NEW to \in Nat, to <= h.sample.ts
  PROVE  Leg(heard', h.contact, from, to) = Leg(heard, h.contact, from, to)
<1>1. CASE \E s \in Sample : ApplySample(s)
  <2>1. PICK s \in Sample : ApplySample(s)
    BY <1>1
  <2>2. /\ h.contact = contact' =>
             RingBefore(s) # {} /\ h.sample.ts <= Newest(RingBefore(s)).ts
        /\ heard' = IF s.ts \in TsOf(RingBefore(s)) THEN heard
                    ELSE heard \cup {[contact |-> contact', sample |-> s]}
    BY <2>1, HeardBefore
  <2>3. /\ s.ts \in Nat
        /\ s.ts \notin TsOf(RingBefore(s)) => \A r \in RingBefore(s) : r.ts < s.ts
    BY <2>1, InOrderSample
  <2>4. RingBefore(s) # {} => Newest(RingBefore(s)) \in RingBefore(s)
                              /\ Newest(RingBefore(s)).ts \in Nat
    <3>1. Ring(RingBefore(s), newestTs') /\ newestTs' \in Nat
      BY <2>1, SampleParts, SampleRing
    <3>2. QED
      BY <3>1, PartOfRing DEF Sample
  <2>5. h.sample.ts \in Nat
    BY DEF TypeInv, TypeOK, Sample
  <2>6. s.ts \notin TsOf(RingBefore(s)) /\ h.contact = contact' => ~(s.ts <= to)
    BY <2>2, <2>3, <2>4, <2>5
  <2>7. CASE s.ts \in TsOf(RingBefore(s))
    BY <2>2, <2>7 DEF Leg
  <2>8. CASE s.ts \notin TsOf(RingBefore(s))
    <3> DEFINE new == [contact |-> contact', sample |-> s]
    <3>1. heard' = heard \cup {new}
      BY <2>2, <2>8
    <3>2. ~(new.contact = h.contact /\ new.sample.ts \in from..to)
      BY <2>3, <2>6, <2>8
    <3> HIDE DEF new
    <3>3. QED
      BY <3>1, <3>2 DEF Leg
  <2>9. QED
    BY <2>7, <2>8
<1>2. CASE Timeout
  BY <1>2, TimeoutParts
<1>3. CASE NothingHeard
  BY <1>3 DEF NothingHeard
<1>4. QED
  BY <1>1, <1>2, <1>3, StepKinds

(* What a contact was heard to do since a sample of its ring is in the     *)
(* ring.                                                                   *)
Holds(R, H, c) ==
    /\ R \subseteq Sample /\ H \subseteq [contact : Nat, sample : Sample]
    /\ \A r \in R : [contact |-> c, sample |-> r] \in H
    /\ \A h \in H : h.contact = c => h.sample \in R \/ \A r \in R : h.sample.ts < r.ts

LEMMA LegIsInRing ==
  ASSUME NEW R, NEW H, NEW c, Holds(R, H, c), NEW q \in R, NEW to \in Nat
  PROVE  Leg(H, c, q.ts, to) = {r \in R : r.ts \in q.ts..to}
<1>1. ASSUME NEW h \in H, h.contact = c, h.sample.ts \in q.ts..to
      PROVE  h.sample \in R
  <2>1. q.ts \in Nat /\ h.sample.ts \in Nat
    BY DEF Sample, Holds
  <2>2. ~(h.sample.ts < q.ts)
    BY <1>1, <2>1
  <2>3. QED
    BY <1>1, <2>2 DEF Holds
<1>2. ASSUME NEW r \in R, r.ts \in q.ts..to
      PROVE  r \in Leg(H, c, q.ts, to)
  <2>1. [contact |-> c, sample |-> r] \in H
    BY DEF Holds
  <2>2. QED
    BY <1>2, <2>1, InLeg
<1>3. ASSUME NEW r \in Leg(H, c, q.ts, to)
      PROVE  r \in R /\ r.ts \in q.ts..to
  BY <1>1, InLeg
<1>4. QED
  BY <1>2, <1>3

LEMMA InOrderAlways ==
  ASSUME LateBy = 0
  PROVE  Spec => [](TypeInv /\ HeardInv /\ KeptInv)
<1>1. Init => KeptInv
  BY DEF Init, KeptInv
<1>2. QED
  BY <1>1, HeardAlways, KeptStep, PTL DEF Spec

-----------------------------------------------------------------------------
(* Landings.                                                               *)
LandingsFound(H, F) ==
    \A g, h \in H :
        /\ g.contact = h.contact /\ g.sample.ts < h.sample.ts
        /\ ~g.sample.onGround /\ h.sample.onGround
        /\ ~\E k \in H : /\ k.contact = g.contact
                         /\ g.sample.ts < k.sample.ts /\ k.sample.ts < h.sample.ts
        /\ AirportDist(h.sample.pos) < ConfirmGroundDistKm
        => Arrived(F, NearestAirport(h.sample.pos), h.sample.ts)

(* A ring has room for the sample that is appended and the one before it.  *)
LEMMA RingKeepsTheLastTwo ==
  ASSUME NEW R, NEW b \in Nat, Ring(R, b), R # {}, NEW s \in Sample,
         \A r \in R : r.ts < s.ts
  PROVE  Newest(R) \in RingWith(R, s) /\ s \in RingWith(R, s)
<1> DEFINE U == R \cup {s}
<1>1. s.ts \in Nat /\ \A r \in R : r.ts \in Nat
  BY DEF Ring, Sample
<1>2. s \notin R /\ s.ts \notin TsOf(R)
  BY <1>1 DEF TsOf
<1>3. RingWith(R, s) = TrimRing(U)
  BY <1>2 DEF RingWith
<1>4. Newest(R) \in R /\ \A r \in R : r.ts <= Newest(R).ts
  BY PartOfRing
<1>5. CASE Cardinality(U) > RingSize
  <2>1. TrimRing(U) = U \ {Oldest(U)}
    BY <1>5 DEF TrimRing
  <2>2. Oldest(U) \in U /\ \A r \in U : Oldest(U).ts <= r.ts
    <3>1. U \subseteq Sample /\ U # {}
      BY DEF Ring
    <3>2. QED
      BY <3>1, OldestIsFirst
  <2>3. Oldest(U) # s
    <3>1. Oldest(U).ts <= Newest(R).ts /\ Newest(R).ts < s.ts /\ Newest(R).ts \in Nat
      BY <1>1, <1>4, <2>2
    <3>2. QED
      BY <1>1, <3>1
  <2>4. ASSUME Oldest(U) = Newest(R)
        PROVE  FALSE
    <3>1. \A r \in R : r = Newest(R)
      BY <1>1, <1>4, <2>2, <2>4 DEF Ring
    <3>2. R = {Newest(R)}
      BY <1>4, <3>1
    <3>3. IsFiniteSet(R) /\ Cardinality(R) = 1
      BY <3>2, FS_Singleton
    <3>4. Cardinality(U) = Cardinality(R) + 1
      BY <1>2, <3>3, FS_AddElement
    <3>5. QED
      BY <1>5, <3>3, <3>4, RingSizeAssumption
  <2>5. QED
    BY <1>3, <1>4, <2>1, <2>3, <2>4
<1>6. CASE ~(Cardinality(U) > RingSize)
  BY <1>3, <1>4, <1>6 DEF TrimRing
<1>7. QED
  BY <1>5, <1>6

LEMMA SampleFindsLandings ==
  ASSUME LateBy = 0, TypeInv, HeardInv, BackedInv, NoMarks,
         LandingsFound(heard, Found), NEW s \in Sample, ApplySample(s)
  PROVE  LandingsFound(heard, Found)'
<1> DEFINE R == RingBefore(s)
           Q == samples'
           new == [contact |-> contact', sample |-> s]
<1>1. Found \subseteq Found'
  BY SampleFinds
<1>2. /\ \A h \in heard : h.contact = contact' =>
           R # {} /\ h.sample.ts <= Newest(R).ts /\ (h.sample.ts = Newest(R).ts => h.sample = Newest(R))
      /\ \A r \in R : [contact |-> contact', sample |-> r] \in heard
      /\ heard' = IF s.ts \in TsOf(R) THEN heard ELSE heard \cup {new}
  BY HeardBefore
<1>3. /\ newestTs <= s.ts /\ s.ts \in Nat
      /\ s.ts \notin TsOf(R) => s \in Q /\ Newest(Q) = s /\ \A r \in R : r.ts < s.ts
  BY InOrderSample
<1>4. /\ newestTs \in Nat
      /\ \A h \in heard : h.sample.ts \in Nat /\ h.sample.ts <= newestTs
  BY DEF HeardInv, TypeInv, TypeOK, Sample
<1>5. newestTs' \in Nat /\ Ring(R, newestTs') /\ Ring(Q, newestTs') /\ Q = RingWith(R, s)
  BY SampleParts, SampleRing
<1>6. TouchedDown(Q) /\ AirportDist(Newest(Q).pos) < ConfirmGroundDistKm =>
        Arrived(Found', NearestAirport(Newest(Q).pos), Newest(Q).ts)
  BY SampleKeepsBacked
<1>7. ASSUME NEW g \in heard, s.ts \notin TsOf(R), g.contact = contact',
             ~g.sample.onGround, s.onGround, AirportDist(s.pos) < ConfirmGroundDistKm,
             ~\E k \in heard : /\ k.contact = g.contact
                               /\ g.sample.ts < k.sample.ts /\ k.sample.ts < s.ts
      PROVE  Arrived(Found', NearestAirport(s.pos), s.ts)
  <2>1. R # {} /\ g.sample.ts <= Newest(R).ts
        /\ (g.sample.ts = Newest(R).ts => g.sample = Newest(R))
    BY <1>2, <1>7
  <2>2. Newest(R) \in R /\ Newest(R).ts \in Nat
    BY <1>5, <2>1, PartOfRing DEF Sample
  <2>3. [contact |-> contact', sample |-> Newest(R)] \in heard /\ Newest(R).ts < s.ts
    BY <1>2, <1>3, <1>7, <2>2
  <2>4. ~(g.sample.ts < Newest(R).ts)
    BY <1>7, <2>3
  <2>5. g.sample = Newest(R)
    BY <1>4, <2>1, <2>2, <2>4
  <2>6. Newest(R) \in Q /\ s \in Q /\ Newest(Q) = s /\ Newest(R) # s
    BY <1>3, <1>5, <1>7, <2>1, <2>3, RingKeepsTheLastTwo
  <2>7. Cardinality(Q) >= 2
    <3>1. IsFiniteSet(Q)
      BY <1>5 DEF Ring
    <3>2. Cardinality({s}) = 1 /\ IsFiniteSet({s})
      BY FS_Singleton
    <3>3. Cardinality({s} \cup {Newest(R)}) = 2
      <4>1. Newest(R) \notin {s}
        BY <2>6
      <4>2. Cardinality({s} \cup {Newest(R)}) = Cardinality({s}) + 1
        BY <3>2, <4>1, FS_AddElement
      <4>3. QED
        BY <3>2, <4>2
    <3>4. {s} \cup {Newest(R)} \subseteq Q
      BY <2>6
    <3>5. Cardinality({s} \cup {Newest(R)}) <= Cardinality(Q)
      BY <3>1, <3>4, FS_Subset
    <3>6. Cardinality(Q) \in Nat
      BY <3>1, FS_CardinalityType
    <3>7. QED
      BY <3>3, <3>5, <3>6
  <2>8. TouchedDown(Q)
    BY <1>7, <2>5, <2>6, <2>7 DEF TouchedDown
  <2>9. QED
    BY <1>6, <1>7, <2>6, <2>8
<1> HIDE DEF R, Q
<1>8. SUFFICES ASSUME NEW g \in heard', NEW h \in heard',
                      g.contact = h.contact, g.sample.ts < h.sample.ts,
                      ~g.sample.onGround, h.sample.onGround,
                      ~\E k \in heard' : /\ k.contact = g.contact
                                         /\ g.sample.ts < k.sample.ts /\ k.sample.ts < h.sample.ts,
                      AirportDist(h.sample.pos) < ConfirmGroundDistKm
               PROVE  Arrived(Found', NearestAirport(h.sample.pos), h.sample.ts)
  BY DEF LandingsFound
<1>9. /\ heard \subseteq heard'
      /\ g \in heard \/ (g = new /\ s.ts \notin TsOf(R))
      /\ h \in heard \/ (h = new /\ s.ts \notin TsOf(R))
  BY <1>2
<1>10. CASE g \in heard /\ h \in heard
  BY <1>1, <1>8, <1>9, <1>10, ArrivedGrows DEF LandingsFound
<1>11. CASE g \in heard /\ h = new /\ s.ts \notin TsOf(R)
  BY <1>7, <1>8, <1>9, <1>11
<1>12. CASE g = new
  <2>1. s.ts < h.sample.ts
    BY <1>8, <1>12
  <2>2. h \in heard \/ h.sample = s
    BY <1>9
  <2>3. QED
    BY <1>3, <1>4, <2>1, <2>2
<1>13. QED
  BY <1>9, <1>10, <1>11, <1>12

LEMMA LandingsStep ==
  ASSUME LateBy = 0, TypeInv, HeardInv, BackedInv, NoMarks,
         LandingsFound(heard, Found), [Next]_vars
  PROVE  LandingsFound(heard, Found)'
<1>1. CASE \E s \in Sample : ApplySample(s)
  BY <1>1, SampleFindsLandings
<1>2. CASE Timeout
  <2>1. heard' = heard /\ Found \subseteq Found'
    BY <1>2, TimeoutParts
  <2>2. QED
    BY <2>1, ArrivedGrows DEF LandingsFound
<1>3. CASE NothingHeard
  BY <1>3 DEF NothingHeard, LandingsFound, Arrived, Found
<1>4. QED
  BY <1>1, <1>2, <1>3, StepKinds

(* Arrival.check: on a feed in order, an aircraft heard airborne and next  *)
(* on the ground by a field has an arrival there, for every batching, ring *)
(* size and dedupe time.                                                   *)
THEOREM LandingAlwaysReported ==
  ASSUME LateBy = 0
  PROVE  Spec => []LandingReported
<1>1. Init => LandingsFound(heard, Found)
  BY DEF Init, LandingsFound
<1>2. TypeInv /\ LandingsFound(heard, Found) => LandingReported
  <2> SUFFICES ASSUME TypeInv, LandingsFound(heard, Found), NEW g \in heard, NEW h \in heard,
                      g.contact = h.contact, g.sample.ts < h.sample.ts,
                      ~g.sample.onGround, h.sample.onGround,
                      HeardIn(g.contact, g.sample.ts + 1, h.sample.ts - 1) = {},
                      AirportDist(h.sample.pos) < ConfirmGroundDistKm
               PROVE  ArrivedBy(NearestAirport(h.sample.pos), h.sample.ts)
    BY DEF LandingReported
  <2>1. \A k \in heard : k.sample.ts \in Nat
    BY DEF TypeInv, TypeOK, Sample
  <2>2. ~\E k \in heard : /\ k.contact = g.contact
                          /\ g.sample.ts < k.sample.ts /\ k.sample.ts < h.sample.ts
    <3> SUFFICES ASSUME NEW k \in heard, k.contact = g.contact,
                        g.sample.ts < k.sample.ts, k.sample.ts < h.sample.ts
                 PROVE  FALSE
      OBVIOUS
    <3>1. k.sample.ts \in (g.sample.ts + 1)..(h.sample.ts - 1)
      BY <2>1
    <3>2. k.sample \in HeardIn(g.contact, g.sample.ts + 1, h.sample.ts - 1)
      BY <3>1 DEF HeardIn
    <3>3. QED
      BY <3>2
  <2>3. QED
    BY <2>2, ArrivedIsArrivedBy DEF LandingsFound
<1>3. QED
  BY <1>1, <1>2, InOrderAlways, BackedAlways, LandingsStep, PTL DEF Spec

-----------------------------------------------------------------------------
(* Ground contact.  Times that are never GAP_RESET_S apart stay so when    *)
(* more times are added.                                                   *)
Chain(T, from, to) ==
    \A t \in T : t \in from..to /\ t # to =>
        \E u \in T : u \in from..to /\ t < u /\ u <= t + GapResetS

HeardTs == {h.sample.ts : h \in heard}

LEMMA ChainStays ==
  ASSUME NEW T, NEW S, T \subseteq S, S \subseteq Nat,
         NEW from \in T, NEW to \in Nat, Chain(T, from, to)
  PROVE  Chain(S, from, to)
<1>1. SUFFICES ASSUME NEW t \in S, t \in from..to, t # to
               PROVE  \E u \in S : u \in from..to /\ t < u /\ u <= t + GapResetS
  BY DEF Chain
<1> DEFINE V == {v \in T : from <= v /\ v <= t}
<1>2. from \in Nat /\ t \in Nat /\ GapResetS \in Nat /\ from <= t /\ t < to
  BY <1>1, GapAssumption
<1>3. T \subseteq Nat /\ V \subseteq T
  OBVIOUS
<1>4. from \in V /\ \A v \in T : v \in V <=> from <= v /\ v <= t
  BY <1>2
<1> HIDE DEF V
<1>5. PICK m \in V : \A v \in V : v <= m
  <2>1. V \subseteq Nat /\ V # {} /\ \A v \in V : v <= t
    BY <1>3, <1>4
  <2>2. QED
    BY <1>2, <2>1, NatMax
<1>6. m \in T /\ m \in from..to /\ m # to /\ m <= t /\ m \in Nat
  <2>1. m \in Nat /\ m \in T
    BY <1>3
  <2>2. from <= m /\ m <= t
    BY <1>3, <1>4
  <2>3. QED
    BY <1>2, <2>1, <2>2
<1>7. PICK u \in T : u \in from..to /\ m < u /\ u <= m + GapResetS
  BY <1>6 DEF Chain
<1>8. u \in Nat /\ u \in S
  BY <1>7
<1>9. t < u
  <2>1. u \notin V
    BY <1>5, <1>6, <1>7, <1>8
  <2>2. QED
    BY <1>2, <1>4, <1>7, <1>8, <2>1
<1>10. u <= t + GapResetS
  BY <1>2, <1>6, <1>7, <1>8
<1>11. QED
  BY <1>7, <1>8, <1>9, <1>10

LEMMA RingIsAChain ==
  ASSUME NEW R, NEW b \in Nat, Ring(R, b), R # {}, Contiguous(R), NEW r \in R
  PROVE  Chain(TsOf(R), r.ts, Newest(R).ts)
<1>1. SUFFICES ASSUME NEW s \in R, s.ts \in r.ts..Newest(R).ts, s.ts # Newest(R).ts
               PROVE  \E q \in R : /\ q.ts \in r.ts..Newest(R).ts
                                   /\ s.ts < q.ts /\ q.ts <= s.ts + GapResetS
  BY DEF Chain, TsOf
<1>2. PICK q \in R : s.ts < q.ts /\ q.ts <= s.ts + GapResetS
  BY <1>1 DEF Contiguous
<1>3. q.ts <= Newest(R).ts /\ Newest(R) \in R
  BY PartOfRing
<1>4. q.ts \in Nat /\ r.ts \in Nat /\ s.ts \in Nat /\ Newest(R).ts \in Nat
  BY <1>3 DEF Ring, Sample
<1>5. q.ts \in r.ts..Newest(R).ts
  BY <1>1, <1>2, <1>3, <1>4
<1>6. QED
  BY <1>2, <1>5

(* A ground arrival is found on a ring that was airborne before.           *)
LEMMA GroundArrivalIsSeen ==
  ASSUME NEW R, NEW b \in Nat, Ring(R, b), NEW marks
  PROVE  /\ \A f \in ArrivalCheck(R, marks).found :
              /\ R # {} /\ f.event_ts = Newest(R).ts
              /\ \E r \in R : ~r.onGround /\ r.ts < Newest(R).ts
         /\ \A f \in ArrivalOnTimeout(R, marks) : f.confirmation # "on_ground"
<1>1. \A how, fallback : \A f \in Confirm(R, marks, how, fallback).found :
         f.confirmation = how /\ f.event_ts = Newest(R).ts
  BY DEF Confirm, ArrivalAt
<1>2. ASSUME TouchedDown(R)
      PROVE  R # {} /\ \E r \in R : ~r.onGround /\ r.ts < Newest(R).ts
  <2>1. PICK r \in R \ {Newest(R)} : ~r.onGround
    BY <1>2 DEF TouchedDown
  <2>2. Newest(R) \in R /\ r.ts <= Newest(R).ts
    BY PartOfRing
  <2>3. r.ts # Newest(R).ts /\ r.ts \in Nat /\ Newest(R).ts \in Nat
    BY <2>2 DEF Ring, Sample
  <2>4. QED
    BY <2>1, <2>2, <2>3
<1>3. QED
  BY <1>1, <1>2 DEF ArrivalCheck, ArrivalOnTimeout

AirborneBefore(H, T, F) ==
    \A a \in F : IsArrival(a) /\ a.event.confirmation = "on_ground" =>
        \E h \in H : /\ ~h.sample.onGround /\ h.sample.ts < a.event.event_ts
                     /\ Chain(T, h.sample.ts, a.event.event_ts)

LEMMA AirborneBeforeStays ==
  ASSUME TypeInv, TypeInv', heard \subseteq heard', AirborneBefore(heard, HeardTs, Found)
  PROVE  AirborneBefore(heard', HeardTs', Found)
<1> SUFFICES ASSUME NEW a \in Found, IsArrival(a), a.event.confirmation = "on_ground"
             PROVE  \E h \in heard' : /\ ~h.sample.onGround /\ h.sample.ts < a.event.event_ts
                                      /\ Chain(HeardTs', h.sample.ts, a.event.event_ts)
  BY DEF AirborneBefore
<1>1. PICK h \in heard : /\ ~h.sample.onGround /\ h.sample.ts < a.event.event_ts
                         /\ Chain(HeardTs, h.sample.ts, a.event.event_ts)
  BY DEF AirborneBefore
<1>2. a.event.event_ts \in Nat
  BY DEF TypeInv, TypeOK, Found, Event
<1>3. HeardTs \subseteq HeardTs' /\ HeardTs' \subseteq Nat /\ h.sample.ts \in HeardTs
  BY DEF HeardTs, TypeInv, TypeOK, Sample
<1>4. Chain(HeardTs', h.sample.ts, a.event.event_ts)
  BY <1>1, <1>2, <1>3, ChainStays
<1>5. QED
  BY <1>1, <1>4

LEMMA SampleKeepsAirborne ==
  ASSUME TypeInv, TypeInv', HeardInv', Contiguous(samples'),
         AirborneBefore(heard, HeardTs, Found), NEW s \in Sample, ApplySample(s)
  PROVE  AirborneBefore(heard, HeardTs, Found)'
<1> DEFINE Q == samples'
<1>1. AirborneBefore(heard', HeardTs', Found)
  BY AirborneBeforeStays, SampleParts
<1>2. Found' = Found \cup About(contact, LostNow(s)) \cup About(contact', FoundNow(s))
  BY SampleFinds
<1>3. newestTs' \in Nat /\ Ring(Q, newestTs') /\ Q # {} /\ Q = RingAfter(samples, s)
  BY SampleParts, SampleRing
<1>4. \A f \in LostNow(s) : f.event_type = "arrival" => f.confirmation # "on_ground"
  <2>1. CASE GapBefore(samples, s)
    <3>1. LostNow(s) = ArrivalOnTimeout(samples, flags.arrival) \cup HoldingOnTimeout(samples, flags.hold)
      BY <2>1 DEF LostNow, TimeoutEvents
    <3>2. newestTs \in Nat /\ Ring(samples, newestTs)
      BY DEF TypeInv, TypeOK
    <3>3. QED
      BY <3>1, <3>2, GroundArrivalIsSeen, OnlyArrivalsArrive
  <2>2. CASE ~GapBefore(samples, s)
    BY <2>2 DEF LostNow
  <2>3. QED
    BY <2>1, <2>2
<1>5. \A f \in FoundNow(s) : f.event_type = "arrival" =>
         f.event_ts = Newest(Q).ts /\ \E r \in Q : ~r.onGround /\ r.ts < Newest(Q).ts
  <2>1. \A f \in HoldingNow(s).found \cup GoAroundNow(s).found : f.event_type # "arrival"
    BY OnlyArrivalsArrive DEF HoldingNow, GoAroundNow
  <2>2. \A f \in ArrivalNow(s).found :
           f.event_ts = Newest(Q).ts /\ \E r \in Q : ~r.onGround /\ r.ts < Newest(Q).ts
    BY <1>3, GroundArrivalIsSeen DEF ArrivalNow
  <2>3. QED
    BY <2>1, <2>2 DEF FoundNow
<1>6. ASSUME NEW r \in Q, ~r.onGround, r.ts < Newest(Q).ts
      PROVE  \E h \in heard' : /\ ~h.sample.onGround /\ h.sample.ts < Newest(Q).ts
                               /\ Chain(HeardTs', h.sample.ts, Newest(Q).ts)
  <2>1. [contact |-> contact', sample |-> r] \in heard' /\ TsOf(Q) \subseteq HeardTs'
    <3>1. \A q \in Q : [contact |-> contact', sample |-> q] \in heard'
      BY DEF HeardInv
    <3>2. ASSUME NEW q \in Q
          PROVE  q.ts \in HeardTs'
      <4>1. [contact |-> contact', sample |-> q].sample.ts = q.ts
        OBVIOUS
      <4>2. QED
        BY <3>1, <4>1 DEF HeardTs
    <3>3. QED
      BY <3>1, <3>2 DEF TsOf
  <2>2. HeardTs' \subseteq Nat /\ r.ts \in TsOf(Q) /\ Newest(Q).ts \in Nat
    <3>1. Newest(Q) \in Sample
      BY <1>3, PartOfRing
    <3>2. QED
      BY <3>1 DEF HeardTs, TypeInv, TypeOK, Sample, TsOf
  <2>3. Chain(TsOf(Q), r.ts, Newest(Q).ts)
    BY <1>3, RingIsAChain
  <2> HIDE DEF Q
  <2>4. Chain(HeardTs', r.ts, Newest(Q).ts)
    BY <2>1, <2>2, <2>3, ChainStays
  <2>5. QED
    BY <1>6, <2>1, <2>4
<1> HIDE DEF Q
<1>7. SUFFICES ASSUME NEW a \in Found', IsArrival(a), a.event.confirmation = "on_ground"
               PROVE  \E h \in heard' : /\ ~h.sample.onGround /\ h.sample.ts < a.event.event_ts
                                        /\ Chain(HeardTs', h.sample.ts, a.event.event_ts)
  BY DEF AirborneBefore
<1>8. CASE a \in Found
  BY <1>1, <1>7, <1>8 DEF AirborneBefore
<1>9. CASE a \in About(contact, LostNow(s))
  BY <1>4, <1>7, <1>9 DEF About, IsArrival
<1>10. CASE a \in About(contact', FoundNow(s))
  <2>1. a.event \in FoundNow(s) /\ a.event.event_type = "arrival"
    BY <1>7, <1>10 DEF About, IsArrival
  <2>2. a.event.event_ts = Newest(Q).ts /\ \E r \in Q : ~r.onGround /\ r.ts < Newest(Q).ts
    BY <1>5, <2>1
  <2>3. QED
    BY <1>6, <2>2
<1>11. QED
  BY <1>2, <1>8, <1>9, <1>10

LEMMA AirborneStep ==
  ASSUME TypeInv, TypeInv', HeardInv', RingIsOneContact',
         AirborneBefore(heard, HeardTs, Found), [Next]_vars
  PROVE  AirborneBefore(heard, HeardTs, Found)'
<1>1. CASE \E s \in Sample : ApplySample(s)
  <2>1. Contiguous(samples')
    BY DEF RingIsOneContact, Contiguous
  <2>2. QED
    BY <1>1, <2>1, SampleKeepsAirborne
<1>2. CASE Timeout
  <2>1. /\ heard' = heard /\ newestTs \in Nat /\ Ring(samples, newestTs)
        /\ Found' = Found \cup About(contact, TimeoutEvents(samples, flags))
    BY <1>2, TimeoutParts DEF TypeInv, TypeOK
  <2>2. \A f \in TimeoutEvents(samples, flags) :
           f.event_type = "arrival" => f.confirmation # "on_ground"
    BY <2>1, GroundArrivalIsSeen, OnlyArrivalsArrive DEF TimeoutEvents
  <2>3. \A a \in About(contact, TimeoutEvents(samples, flags)) :
           IsArrival(a) => a.event.confirmation # "on_ground"
    BY <2>2 DEF About, IsArrival
  <2>4. HeardTs' = HeardTs
    BY <2>1 DEF HeardTs
  <2>5. QED
    BY <2>1, <2>3, <2>4 DEF AirborneBefore
<1>3. CASE NothingHeard
  BY <1>3 DEF NothingHeard, AirborneBefore, HeardTs, Found
<1>4. QED
  BY <1>1, <1>2, <1>3, StepKinds

(* Arrival.check and the gap reset: whoever arrives on the ground was      *)
(* heard airborne and never silent since, on every feed whose late samples *)
(* are at most GAP_RESET_S late.                                           *)
THEOREM GroundArrivalWasAlwaysAirborne ==
  ASSUME LateBy <= GapResetS
  PROVE  Spec => []GroundArrivalWasAirborne
<1>1. Init => AirborneBefore(heard, HeardTs, Found)
  BY DEF Init, AirborneBefore, Found
<1>2. AirborneBefore(heard, HeardTs, Found) => GroundArrivalWasAirborne
  <2>1. \A from, to : Chain(HeardTs, from, to) => Unbroken(from, to)
    BY DEF Chain, Unbroken, HeardTs
  <2>2. QED
    BY <2>1 DEF AirborneBefore, GroundArrivalWasAirborne, Arrivals, IsArrival
<1>3. Spec => []RingIsOneContact
  BY RingIsAlwaysOneContact
<1>4. QED
  BY <1>1, <1>2, <1>3, HeardAlways, AirborneStep, PTL DEF Spec

-----------------------------------------------------------------------------
(* Go-arounds, on a ring.                                                  *)
BalkedOver(leg, first, last, top, airport, ts) ==
    /\ {first, last, top} \subseteq leg
    /\ first.ts < last.ts /\ last.ts < ts /\ ts < top.ts
    /\ Descending(first) /\ Descending(last)
    /\ NearestAirport(last.pos) = airport
    /\ \A s \in leg : ~s.onGround
    /\ \A s \in leg : s.ts >= ts => Climbing(s)
    /\ top.alt # Null
    /\ \E s \in leg : s.alt # Null /\ top.alt - s.alt >= GainMinM

(* The last descent before ts was towards the airport.                     *)
DescentBefore(R, airport, ts) ==
    \A r \in R :
        /\ Descending(r) /\ r.ts < ts
        /\ \A q \in R : Descending(q) /\ q.ts < ts => q.ts <= r.ts
        => NearestAirport(r.pos) = airport

(* The ring climbs from the first sample of its climb run on.              *)
LEMMA ClimbRunIsLast ==
  ASSUME NEW R, NEW b \in Nat, Ring(R, b), Cardinality(ClimbRun(R)) >= ClimbMinSamples
  PROVE  LET climb == ClimbRun(R) IN
         /\ climb \subseteq R /\ climb # {}
         /\ Oldest(climb) \in climb /\ Newest(climb) \in climb
         /\ Oldest(climb).ts < Newest(climb).ts
         /\ \A r \in R : r \in climb <=> r.ts >= Oldest(climb).ts
         /\ \A r \in climb : Climbing(r)
<1> DEFINE climb == ClimbRun(R)
<1>1. climb \subseteq R /\ \A r \in R : r.ts \in Nat
  BY DEF ClimbRun, Ring, Sample
<1>2. \A s \in climb : \A r \in R : r.ts >= s.ts => r \in climb /\ Climbing(r)
  BY <1>1 DEF ClimbRun
<1>3. climb # {} /\ ~\E x : climb = {x}
  <2>1. ClimbMinSamples \in Nat /\ ClimbMinSamples >= 2
    BY DEF ClimbMinSamples
  <2> HIDE DEF climb
  <2>2. QED
    BY <2>1, SeveralAreMoreThanOne DEF climb
<1> HIDE DEF climb
<1>4. /\ Oldest(climb) \in climb /\ \A r \in climb : Oldest(climb).ts <= r.ts
      /\ Newest(climb) \in climb /\ \A r \in climb : r.ts <= Newest(climb).ts
  BY <1>1, <1>3, PartOfRing
<1>5. PICK s \in climb : s # Oldest(climb)
  BY <1>3, <1>4
<1>6. s.ts # Oldest(climb).ts
  BY <1>1, <1>4, <1>5 DEF Ring
<1>7. s.ts \in Nat /\ Oldest(climb).ts \in Nat /\ Newest(climb).ts \in Nat
  BY <1>1, <1>4
<1>8. Oldest(climb).ts < Newest(climb).ts
  BY <1>4, <1>6, <1>7
<1>9. \A r \in climb : Climbing(r)
  BY <1>1, <1>2
<1>10. \A r \in R : r \in climb <=> r.ts >= Oldest(climb).ts
  <2>1. \A r \in climb : r.ts >= Oldest(climb).ts
    BY <1>1, <1>4, <1>7
  <2>2. QED
    BY <1>2, <1>4, <2>1
<1>11. QED
  BY <1>1, <1>3, <1>4, <1>8, <1>9, <1>10 DEF climb

(* With a sample, its last n have every later one.                         *)
LEMMA LastNIsLast ==
  ASSUME NEW R, NEW b \in Nat, Ring(R, b), NEW S, S \subseteq R, NEW n \in Nat,
         NEW x \in LastN(S, n), NEW y \in S, y.ts >= x.ts
  PROVE  y \in LastN(S, n)
<1> DEFINE X == {r \in S : r.ts > x.ts}
           Y == {r \in S : r.ts > y.ts}
<1>1. x \in S /\ \A r \in S : r.ts \in Nat
  BY DEF LastN, Ring, Sample
<1>2. Y \subseteq X
  BY <1>1
<1>3. IsFiniteSet(X)
  <2>1. X \subseteq R
    OBVIOUS
  <2>2. QED
    BY <2>1, FS_Subset DEF Ring
<1>4. Cardinality(X) < n
  BY DEF LastN
<1> HIDE DEF X, Y
<1>5. Cardinality(Y) <= Cardinality(X) /\ Cardinality(Y) \in Nat /\ Cardinality(X) \in Nat
  BY <1>2, <1>3, FS_Subset, FS_CardinalityType
<1>6. Cardinality(Y) < n
  BY <1>4, <1>5
<1>7. QED
  BY <1>6 DEF LastN, Y

(* A go-around found on a ring, and where it is on it.                     *)
GoAroundOn(R, marks, airport, ts, first, last, top) ==
    /\ GoAroundCheck(R, marks).found = {GoAroundAt(airport, ts)}
    /\ GoAroundCheck(R, marks).marks = [marks EXCEPT ![airport] = ts]
    /\ ~RecentGoAround(marks, airport, ts)
    /\ BalkedOver({r \in R : r.ts \in first.ts..top.ts}, first, last, top, airport, ts)
    /\ DescentBefore(R, airport, ts)
    /\ \A a : DescentBefore(R, a, ts) => a = airport
    /\ ts \in TsOf(R)

LEMMA GoAroundFinds ==
  ASSUME NEW R, NEW b \in Nat, Ring(R, b), NEW marks \in Marks,
         GoAroundCheck(R, marks).found # {}
  PROVE  \E airport \in Airports, ts \in Nat, first \in R, last \in R, top \in R :
            GoAroundOn(R, marks, airport, ts, first, last, top)
<1> DEFINE climb   == ClimbRun(R)
           before  == LastN(R \ climb, Lookback)
           descent == {s \in before : Descending(s)}
           airport == NearestAirport(Newest(descent).pos)
           start   == Oldest(climb).ts
           first   == Oldest(descent)
           last    == Newest(descent)
           top     == Newest(climb)
           leg     == {r \in R : r.ts \in first.ts..top.ts}
<1>1. /\ Balked(climb, before, descent) /\ Gained(climb, descent)
      /\ ~RecentGoAround(marks, airport, start)
      /\ GoAroundCheck(R, marks) = [found |-> {GoAroundAt(airport, start)},
                                    marks |-> [marks EXCEPT ![airport] = start]]
  BY DEF GoAroundCheck
<1>2. /\ Cardinality(climb) >= ClimbMinSamples /\ Cardinality(descent) >= DescentMinSamples
      /\ \A s \in before : ~s.onGround
      /\ top.alt # Null
      /\ \E s \in descent \cup climb : s.alt # Null /\ top.alt - s.alt >= GainMinM
  BY <1>1 DEF Balked, Gained
<1>3. /\ climb \subseteq R /\ climb # {}
      /\ Oldest(climb) \in climb /\ top \in climb
      /\ start < top.ts
      /\ \A r \in R : r \in climb <=> r.ts >= start
      /\ \A r \in climb : Climbing(r)
  BY <1>2, ClimbRunIsLast
<1>4. /\ before \subseteq R \ climb /\ descent \subseteq before
      /\ \A s \in descent : Descending(s)
      /\ \A s \in before : Descending(s) => s \in descent
  BY DEF LastN
<1>5. \A x \in before, y \in R \ climb : y.ts >= x.ts => y \in before
  BY LastNIsLast, GoAroundAssumption
<1> HIDE DEF climb, before, descent
<1>6. descent # {} /\ ~\E x : descent = {x}
  <2>1. DescentMinSamples \in Nat /\ DescentMinSamples >= 2
    BY DEF DescentMinSamples
  <2>2. QED
    BY <1>2, <2>1, SeveralAreMoreThanOne
<1>7. /\ first \in descent /\ \A r \in descent : first.ts <= r.ts
      /\ last \in descent /\ \A r \in descent : r.ts <= last.ts
  BY <1>3, <1>4, <1>6, PartOfRing
<1>8. /\ \A r \in R : r.ts \in Nat /\ r.pos \in Int
      /\ start \in Nat /\ airport \in Airports
  <2>1. \A r \in R : r.ts \in Nat /\ r.pos \in Int
    BY DEF Ring, Sample
  <2>2. QED
    BY <1>3, <1>4, <1>7, <2>1, NearestAirportIsOne
<1>9. first \in R /\ last \in R /\ top \in R
  BY <1>3, <1>4, <1>7
<1> HIDE DEF start, airport, first, last, top
<1>10. first.ts < last.ts
  <2>1. descent # {first} /\ first \in descent
    BY <1>6, <1>7
  <2>2. PICK r \in descent : r # first
    BY <2>1
  <2>3. r.ts # first.ts /\ r \in R
    BY <1>4, <1>9, <2>2 DEF Ring
  <2>4. QED
    BY <1>7, <1>8, <1>9, <2>2, <2>3
<1>11. last.ts < start
  BY <1>3, <1>4, <1>7, <1>8, <1>9
<1>12. \A r \in R : r.ts >= first.ts => r \in before \/ r \in climb
  BY <1>4, <1>5, <1>7
<1>13. \A r \in descent \cup climb : r \in leg
  <2>1. \A r \in descent \cup climb : r \in R /\ r.ts \in Nat
    BY <1>3, <1>4, <1>8
  <2>2. \A r \in descent : first.ts <= r.ts /\ r.ts <= top.ts
    BY <1>3, <1>7, <1>8, <1>9, <1>11, <2>1
  <2>3. \A r \in climb : first.ts <= r.ts
    BY <1>3, <1>8, <1>9, <1>10, <1>11, <2>1
  <2>4. \A r \in climb : r.ts <= top.ts
    BY <1>3, PartOfRing DEF top
  <2>5. QED
    BY <1>8, <1>9, <2>1, <2>2, <2>3, <2>4
<1>14. BalkedOver(leg, first, last, top, airport, start)
  <2>1. {first, last, top} \subseteq leg
    BY <1>3, <1>7, <1>13
  <2>2. Descending(first) /\ Descending(last) /\ NearestAirport(last.pos) = airport
    BY <1>4, <1>7 DEF last, airport
  <2>3. \A s \in leg : s \in R /\ s.ts >= first.ts
    BY <1>8, <1>9
  <2>4. \A s \in leg : ~s.onGround
    BY <1>2, <1>3, <1>12, <2>3 DEF Climbing
  <2>5. \A s \in leg : s.ts >= start => Climbing(s)
    BY <1>3, <2>3
  <2>6. \E s \in leg : s.alt # Null /\ top.alt - s.alt >= GainMinM
    BY <1>2, <1>13
  <2> HIDE DEF leg
  <2>7. QED
    BY <1>2, <1>3, <1>10, <1>11, <2>1, <2>2, <2>4, <2>5, <2>6 DEF BalkedOver
<1>15. \A r \in R : Descending(r) /\ r.ts < start => r.ts <= last.ts
  <2> SUFFICES ASSUME NEW r \in R, Descending(r), r.ts < start, ~(r.ts <= last.ts)
               PROVE  FALSE
    OBVIOUS
  <2>1. r.ts >= last.ts /\ r \in R \ climb
    BY <1>3, <1>8, <1>9
  <2>2. r \in descent
    BY <1>4, <1>5, <1>7, <2>1
  <2>3. QED
    BY <1>7, <2>2
<1>16. Descending(last) /\ NearestAirport(last.pos) = airport
  BY <1>4, <1>7 DEF last, airport
<1>17. DescentBefore(R, airport, start)
  <2> SUFFICES ASSUME NEW r \in R, Descending(r), r.ts < start,
                      \A q \in R : Descending(q) /\ q.ts < start => q.ts <= r.ts
               PROVE  NearestAirport(r.pos) = airport
    BY DEF DescentBefore
  <2>1. r.ts = last.ts
    BY <1>8, <1>9, <1>11, <1>15, <1>16
  <2>2. r = last
    BY <1>9, <2>1 DEF Ring
  <2>3. QED
    BY <1>16, <2>2
<1>18. \A a : DescentBefore(R, a, start) => a = airport
  BY <1>9, <1>11, <1>15, <1>16 DEF DescentBefore
<1>19. start \in TsOf(R)
  BY <1>3 DEF start, TsOf
<1>20. QED
  <2> HIDE DEF leg
  <2>1. /\ GoAroundCheck(R, marks).found = {GoAroundAt(airport, start)}
        /\ GoAroundCheck(R, marks).marks = [marks EXCEPT ![airport] = start]
    BY <1>1
  <2>2. QED
    BY <1>1, <1>8, <1>9, <1>14, <1>17, <1>18, <1>19, <2>1 DEF leg, GoAroundOn

-----------------------------------------------------------------------------
(* Go-arounds, against what was heard.                                     *)
IsGoAround(e) == e.event.event_type = "go_around"

LEMMA FoundKinds ==
  ASSUME NEW R, NEW marks, NEW hold
  PROVE  /\ \A f \in ArrivalCheck(R, marks).found : f.event_type = "arrival"
         /\ \A f \in ArrivalOnTimeout(R, marks) : f.event_type = "arrival"
         /\ \A f \in HoldingCheck(R, hold).found :
              f.event_type = "holding" /\ f \in CloseHold(R, hold) /\ hold # Null
         /\ \A f \in HoldingOnTimeout(R, hold) :
              f.event_type = "holding" /\ f \in CloseHold(R, hold) /\ hold # Null
         /\ \A f \in GoAroundCheck(R, marks).found : f.event_type = "go_around"
<1>1. \A how, fallback : \A f \in Confirm(R, marks, how, fallback).found : f.event_type = "arrival"
  BY DEF Confirm, ArrivalAt
<1>2. \A f \in CloseHold(R, hold) : f.event_type = "holding"
  BY DEF CloseHold, HoldingAt
<1>3. /\ \A f \in ArrivalCheck(R, marks).found : f.event_type = "arrival"
      /\ \A f \in ArrivalOnTimeout(R, marks) : f.event_type = "arrival"
  BY <1>1 DEF ArrivalCheck, ArrivalOnTimeout
<1>4. \A f \in HoldingOnTimeout(R, hold) : f \in CloseHold(R, hold) /\ hold # Null
  BY DEF HoldingOnTimeout
<1>5. \A f \in HoldingCheck(R, hold).found : f \in CloseHold(R, hold) /\ hold # Null
  <2>1. CASE hold = Null
    BY <2>1 DEF HoldingCheck
  <2>2. CASE hold # Null /\ Extends(R)
    BY <2>2 DEF HoldingCheck
  <2>3. CASE hold # Null /\ ~Extends(R) /\ ClosedBy(R, hold)
    BY <2>3 DEF HoldingCheck
  <2>4. CASE hold # Null /\ ~Extends(R) /\ ~ClosedBy(R, hold)
    BY <2>4 DEF HoldingCheck
  <2>5. QED
    BY <2>1, <2>2, <2>3, <2>4
<1>6. \A f \in GoAroundCheck(R, marks).found : f.event_type = "go_around"
  BY DEF GoAroundCheck, GoAroundAt
<1>7. QED
  BY <1>2, <1>3, <1>4, <1>5, <1>6

(* The go-arounds a sample finds are those of GoAround.check.              *)
LEMMA NewGoArounds ==
  ASSUME TypeInv, NEW s \in Sample, ApplySample(s)
  PROVE  /\ \A f \in LostNow(s) : f.event_type # "go_around"
         /\ \A f \in FoundNow(s) : f.event_type = "go_around" => f \in GoAroundNow(s).found
<1>1. \A f \in LostNow(s) : f.event_type # "go_around"
  <2>1. CASE GapBefore(samples, s)
    BY <2>1, FoundKinds DEF LostNow, TimeoutEvents
  <2>2. CASE ~GapBefore(samples, s)
    BY <2>2 DEF LostNow
  <2>3. QED
    BY <2>1, <2>2
<1>2. \A f \in ArrivalNow(s).found : f.event_type = "arrival"
  BY FoundKinds DEF ArrivalNow
<1>3. \A f \in HoldingNow(s).found : f.event_type = "holding"
  BY FoundKinds DEF HoldingNow
<1>4. QED
  BY <1>1, <1>2, <1>3 DEF FoundNow

BalkedIn(H, e) ==
    \E first, last, top \in Sample :
        BalkedOver(Leg(H, e.contact, first.ts, top.ts), first, last, top,
                   e.event.airport, e.event.event_ts)

BalkedInv == \A g \in Found : IsGoAround(g) => BalkedIn(heard, g)

LEMMA BalkedStays ==
  ASSUME LateBy = 0, TypeInv, HeardInv, [Next]_vars, NEW e, BalkedIn(heard, e)
  PROVE  BalkedIn(heard', e)
<1>1. PICK first \in Sample, last \in Sample, top \in Sample :
         BalkedOver(Leg(heard, e.contact, first.ts, top.ts), first, last, top,
                    e.event.airport, e.event.event_ts)
  BY DEF BalkedIn
<1>2. PICK h \in heard : h.contact = e.contact /\ h.sample = top
  <2>1. top \in Leg(heard, e.contact, first.ts, top.ts)
    BY <1>1 DEF BalkedOver
  <2>2. QED
    BY <2>1, InLeg
<1>3. first.ts \in Nat /\ top.ts \in Nat
  BY DEF Sample
<1>4. Leg(heard', h.contact, first.ts, top.ts) = Leg(heard, h.contact, first.ts, top.ts)
  BY <1>2, <1>3, LegKept
<1>5. QED
  BY <1>1, <1>2, <1>4 DEF BalkedIn

LEMMA SampleKeepsBalked ==
  ASSUME LateBy = 0, TypeInv, TypeInv', HeardInv, HeardInv', KeptInv', BalkedInv, [Next]_vars,
         NEW s \in Sample, ApplySample(s)
  PROVE  BalkedInv'
<1> DEFINE Q == samples'
           marks == FlagsBefore(samples, flags, s).goAround
<1>1. Found' = Found \cup About(contact, LostNow(s)) \cup About(contact', FoundNow(s))
  BY SampleFinds
<1>2. newestTs' \in Nat /\ Ring(Q, newestTs') /\ Q # {} /\ Q = RingAfter(samples, s) /\ marks \in Marks
  BY SampleParts, SampleRing
<1>3. ASSUME NEW f \in GoAroundCheck(Q, marks).found
      PROVE  BalkedIn(heard', [contact |-> contact', event |-> f])
  <2>1. GoAroundCheck(Q, marks).found # {}
    BY <1>3
  <2>2. PICK airport \in Airports, ts \in Nat, first \in Q, last \in Q, top \in Q :
          GoAroundOn(Q, marks, airport, ts, first, last, top)
    <3> HIDE DEF Q, marks
    <3>1. QED
      BY <1>2, <2>1, GoAroundFinds
  <2>3. f.airport = airport /\ f.event_ts = ts
    BY <1>3, <2>2 DEF GoAroundOn, GoAroundAt
  <2>4. Holds(Q, heard', contact')
    BY <1>2 DEF Ring, TypeInv, TypeOK, HeardInv, KeptInv, Holds
  <2>5. top.ts \in Nat /\ first \in Sample /\ last \in Sample /\ top \in Sample
    BY <1>2 DEF Ring, Sample
  <2> HIDE DEF Q
  <2>6. Leg(heard', contact', first.ts, top.ts) = {r \in Q : r.ts \in first.ts..top.ts}
    BY <2>4, <2>5, LegIsInRing
  <2>7. BalkedOver(Leg(heard', contact', first.ts, top.ts), first, last, top, f.airport, f.event_ts)
    BY <2>2, <2>3, <2>6 DEF GoAroundOn
  <2>8. QED
    BY <2>5, <2>7 DEF BalkedIn
<1>4. SUFFICES ASSUME NEW g \in Found', IsGoAround(g)
               PROVE  BalkedIn(heard', g)
  BY DEF BalkedInv, BalkedIn
<1>5. CASE g \in Found
  BY <1>4, <1>5, BalkedStays DEF BalkedInv
<1>6. CASE g \in About(contact, LostNow(s))
  BY <1>4, <1>6, NewGoArounds DEF About, IsGoAround
<1>7. CASE g \in About(contact', FoundNow(s))
  <2>1. PICK f \in FoundNow(s) : g = [contact |-> contact', event |-> f]
    BY <1>7 DEF About
  <2>2. f \in GoAroundNow(s).found
    BY <1>4, <2>1, NewGoArounds DEF IsGoAround
  <2>3. GoAroundNow(s) = GoAroundCheck(Q, marks)
    BY <1>2 DEF GoAroundNow
  <2>4. QED
    BY <1>3, <2>1, <2>2, <2>3
<1>8. QED
  BY <1>1, <1>5, <1>6, <1>7

LEMMA BalkedStep ==
  ASSUME LateBy = 0, TypeInv, TypeInv', HeardInv, HeardInv', KeptInv', BalkedInv, [Next]_vars
  PROVE  BalkedInv'
<1>1. CASE \E s \in Sample : ApplySample(s)
  BY <1>1, SampleKeepsBalked
<1>2. CASE Timeout
  <2>1. /\ heard' = heard
        /\ Found' = Found \cup About(contact, TimeoutEvents(samples, flags))
    BY <1>2, TimeoutParts
  <2>2. \A f \in TimeoutEvents(samples, flags) : f.event_type # "go_around"
    BY FoundKinds DEF TimeoutEvents
  <2>3. \A g \in About(contact, TimeoutEvents(samples, flags)) : ~IsGoAround(g)
    BY <2>2 DEF About, IsGoAround
  <2>4. QED
    BY <2>1, <2>3 DEF BalkedInv
<1>3. CASE NothingHeard
  <2>1. heard' = heard /\ Found' = Found
    BY <1>3 DEF NothingHeard, Found
  <2>2. QED
    BY <2>1 DEF BalkedInv
<1>4. QED
  BY <1>1, <1>2, <1>3, StepKinds

(* GoAround.check: on a feed in order, every go-around reported was a      *)
(* balked landing, for every batching, ring size and lookback.             *)
THEOREM GoAroundWasAlwaysBalked ==
  ASSUME LateBy = 0
  PROVE  Spec => []GoAroundWasBalked
<1>1. Init => BalkedInv
  BY DEF Init, BalkedInv, Found
<1>2. BalkedInv => GoAroundWasBalked
  <2> SUFFICES ASSUME BalkedInv, NEW g \in GoArounds
               PROVE  \E first, last, top \in {h.sample : h \in heard} :
                         BalkedOver(HeardIn(g.contact, first.ts, top.ts), first, last, top,
                                    g.event.airport, g.event.event_ts)
    BY DEF GoAroundWasBalked, BalkedOver
  <2>1. BalkedIn(heard, g)
    BY DEF BalkedInv, GoArounds, IsGoAround
  <2>2. PICK first \in Sample, last \in Sample, top \in Sample :
          BalkedOver(Leg(heard, g.contact, first.ts, top.ts), first, last, top,
                     g.event.airport, g.event.event_ts)
    BY <2>1 DEF BalkedIn
  <2>3. \A x \in Leg(heard, g.contact, first.ts, top.ts) : x \in {h.sample : h \in heard}
    BY DEF Leg
  <2>4. {first, last, top} \subseteq Leg(heard, g.contact, first.ts, top.ts)
    BY <2>2 DEF BalkedOver
  <2>5. QED
    BY <2>2, <2>3, <2>4, HeardInIsLeg
<1>3. QED
  BY <1>1, <1>2, InOrderAlways, BalkedStep, PTL DEF Spec

-----------------------------------------------------------------------------
(* A go-around is found once: the climb that keeps matching is one the     *)
(* detector has marked, whatever the ring has forgotten since.             *)
GoAroundsSpaced(F) ==
    \A a, b \in F :
        /\ IsGoAround(a) /\ IsGoAround(b)
        /\ a.contact = b.contact /\ a # b
        /\ a.event.airport = b.event.airport
        => \/ a.event.event_ts + GoAroundDedupeS <= b.event.event_ts
           \/ b.event.event_ts + GoAroundDedupeS <= a.event.event_ts

(* What is known of a go-around e found so far: the marks and the ring R   *)
(* of contact c, whose newest sample came at b.                            *)
Remembered(e, marks, R, c, b) ==
    /\ e.event.window_start = e.event.event_ts /\ e.event.event_ts < b
    /\ e.contact <= c
    /\ e.contact = c => /\ marks[e.event.airport] # Null
                        /\ e.event.event_ts <= marks[e.event.airport]
                        /\ DescentBefore(R, e.event.airport, e.event.event_ts)
    /\ e.contact # c => \A r \in R : e.event.event_ts < r.ts

AllRemembered(F, marks, R, c, b) == \A e \in F : IsGoAround(e) => Remembered(e, marks, R, c, b)

OnceInv ==
    /\ GoAroundsSpaced(Found)
    /\ \A e \in dropped : ~IsGoAround(e)
    /\ \A t : <<"go_around", t>> \in emitted => \E e \in Found : IsGoAround(e) /\ e.event.event_ts = t
    /\ AllRemembered(Found, flags.goAround, samples, contact, newestTs)

LEMMA DescentBeforeStays ==
  ASSUME NEW R, NEW Q, NEW s, NEW airport, NEW ts \in Nat,
         R \cup Q \subseteq Sample, s \in Sample, Q \subseteq R \cup {s}, ts <= s.ts,
         \A r \in R : r \in Q \/ \A q \in Q : r.ts < q.ts,
         DescentBefore(R, airport, ts)
  PROVE  DescentBefore(Q, airport, ts)
<1> SUFFICES ASSUME NEW r \in Q, Descending(r), r.ts < ts,
                    \A q \in Q : Descending(q) /\ q.ts < ts => q.ts <= r.ts
             PROVE  NearestAirport(r.pos) = airport
  BY DEF DescentBefore
<1>1. r.ts \in Nat /\ s.ts \in Nat /\ \A q \in R : q.ts \in Nat
  BY DEF Sample
<1>2. r \in R
  BY <1>1
<1>3. ASSUME NEW q \in R, Descending(q), q.ts < ts
      PROVE  q.ts <= r.ts
  BY <1>1, <1>3
<1>4. QED
  BY <1>2, <1>3 DEF DescentBefore

(* The next sample leaves what was found remembered.                       *)
LEMMA SampleRemembers ==
  ASSUME LateBy = 0, TypeInv, NEW s \in Sample, ApplySample(s),
         AllRemembered(Found, flags.goAround, samples, contact, newestTs)
  PROVE  AllRemembered(Found, FlagsBefore(samples, flags, s).goAround, samples', contact', s.ts)
<1> DEFINE R == RingBefore(s)
           Q == samples'
           marks == FlagsBefore(samples, flags, s).goAround
<1> SUFFICES ASSUME NEW e \in Found, IsGoAround(e)
             PROVE  Remembered(e, marks, Q, contact', s.ts)
  BY DEF AllRemembered
<1>1. Remembered(e, flags.goAround, samples, contact, newestTs)
  BY DEF AllRemembered
<1>2. /\ s.ts \in Nat /\ newestTs \in Nat /\ newestTs <= s.ts
      /\ e.contact \in Nat /\ e.event.event_ts \in Nat /\ contact \in Nat
  BY InOrderSample, SampleParts DEF TypeInv, TypeOK, Found, Event
<1>3. /\ Q \subseteq R \cup {s} /\ R \cup Q \subseteq Sample
      /\ \A r \in R : r \in Q \/ \A q \in Q : r.ts < q.ts
  <2>1. Q \subseteq R \cup {s} /\ \A r \in R : r \in Q \/ \A q \in Q : r.ts < q.ts
    BY InOrderSample
  <2>2. Ring(R, newestTs') /\ Ring(Q, newestTs')
    BY SampleRing
  <2>3. QED
    BY <2>1, <2>2 DEF Ring
<1>4. e.event.event_ts < s.ts
  BY <1>1, <1>2 DEF Remembered
<1>5. CASE GapBefore(samples, s)
  <2>1. R = {} /\ contact' = contact + 1
    BY <1>5, SampleParts DEF RingBefore
  <2>2. e.contact # contact' /\ e.contact <= contact'
    BY <1>1, <1>2, <2>1 DEF Remembered
  <2>3. \A r \in Q : e.event.event_ts < r.ts
    BY <1>3, <1>4, <2>1
  <2>4. QED
    BY <1>1, <1>4, <2>2, <2>3 DEF Remembered
<1>6. CASE ~GapBefore(samples, s)
  <2>1. R = samples /\ contact' = contact /\ marks = flags.goAround
    BY <1>6, SampleParts DEF RingBefore
  <2> HIDE DEF R, Q, marks
  <2>2. e.contact = contact => DescentBefore(Q, e.event.airport, e.event.event_ts)
    <3>1. e.event.event_ts <= s.ts
      BY <1>2, <1>4
    <3>2. QED
      BY <1>1, <1>2, <1>3, <2>1, <3>1, DescentBeforeStays DEF Remembered
  <2>3. e.contact # contact => \A r \in Q : e.event.event_ts < r.ts
    BY <1>1, <1>3, <1>4, <2>1 DEF Remembered
  <2>4. QED
    BY <1>1, <1>4, <2>1, <2>2, <2>3 DEF Remembered
<1>7. QED
  BY <1>5, <1>6

(* What GoAround.check finds was not found before, is apart from what was, *)
(* and is remembered.                                                      *)
LEMMA GoAroundIsNew ==
  ASSUME NEW R, NEW b \in Nat, Ring(R, b), NEW marks \in Marks, NEW c \in Nat,
         NEW F, F \subseteq [contact : Nat, event : Event],
         AllRemembered(F, marks, R, c, b),
         NEW airport \in Airports, NEW ts \in Nat, NEW first \in R, NEW last \in R, NEW top \in R,
         GoAroundOn(R, marks, airport, ts, first, last, top)
  PROVE  /\ \A e \in F : IsGoAround(e) => e.event.event_ts # ts
         /\ \A e \in F : /\ IsGoAround(e) /\ e.contact = c /\ e.event.airport = airport
                         => e.event.event_ts + GoAroundDedupeS <= ts
         /\ AllRemembered(F \cup {[contact |-> c, event |-> GoAroundAt(airport, ts)]},
                          [marks EXCEPT ![airport] = ts], R, c, b)
<1>1. /\ GoAroundDedupeS \in Nat /\ GoAroundDedupeS > 0
      /\ \A r \in R : r.ts \in Nat /\ r.ts <= b
      /\ \A p \in Airports : marks[p] = Null \/ marks[p] \in Nat
      /\ \A e \in F : e.contact \in Nat /\ e.event.airport \in Airports /\ e.event.event_ts \in Nat
  BY GoAroundAssumption DEF Ring, Sample, Marks, Event
<1>2. /\ ~RecentGoAround(marks, airport, ts) /\ DescentBefore(R, airport, ts)
      /\ \A a : DescentBefore(R, a, ts) => a = airport
      /\ ts \in TsOf(R) /\ ts < top.ts
  BY DEF GoAroundOn, BalkedOver
<1>3. marks[airport] # Null => marks[airport] + GoAroundDedupeS <= ts
  BY <1>1, <1>2 DEF RecentGoAround
<1>4. ASSUME NEW e \in F, IsGoAround(e), e.contact = c, e.event.airport = airport
      PROVE  e.event.event_ts + GoAroundDedupeS <= ts
  <2>1. marks[airport] # Null /\ e.event.event_ts <= marks[airport]
    BY <1>4 DEF AllRemembered, Remembered
  <2>2. QED
    BY <1>1, <1>3, <2>1
<1>5. ASSUME NEW e \in F, IsGoAround(e), e.event.event_ts = ts
      PROVE  FALSE
  <2>1. Remembered(e, marks, R, c, b)
    BY <1>5 DEF AllRemembered
  <2>2. CASE e.contact = c
    <3>1. e.event.airport = airport
      BY <1>2, <1>5, <2>1, <2>2 DEF Remembered
    <3>2. QED
      BY <1>1, <1>4, <1>5, <2>2, <3>1
  <2>3. CASE e.contact # c
    <3>1. PICK r \in R : r.ts = ts
      BY <1>2 DEF TsOf
    <3>2. QED
      BY <1>1, <1>5, <2>1, <2>3, <3>1 DEF Remembered
  <2>4. QED
    BY <2>2, <2>3
<1> DEFINE new  == [contact |-> c, event |-> GoAroundAt(airport, ts)]
           left == [marks EXCEPT ![airport] = ts]
<1>6. left[airport] = ts /\ \A p \in Airports : p # airport => left[p] = marks[p]
  BY DEF Marks
<1> HIDE DEF left
<1>7. ASSUME NEW e \in F, IsGoAround(e)
      PROVE  Remembered(e, left, R, c, b)
  <2>1. Remembered(e, marks, R, c, b)
    BY <1>7 DEF AllRemembered
  <2>2. e.contact = c => left[e.event.airport] # Null /\ e.event.event_ts <= left[e.event.airport]
    <3>1. CASE e.contact = c /\ e.event.airport = airport
      BY <1>1, <1>4, <1>6, <1>7, <3>1, NullAssumption
    <3>2. CASE e.contact = c /\ e.event.airport # airport
      BY <1>1, <1>6, <2>1, <3>2 DEF Remembered
    <3>3. QED
      BY <3>1, <3>2
  <2>3. QED
    BY <2>1, <2>2 DEF Remembered
<1>8. Remembered(new, left, R, c, b)
  <2>1. /\ new.contact = c /\ new.event.airport = airport
        /\ new.event.event_ts = ts /\ new.event.window_start = ts
    BY DEF GoAroundAt
  <2>2. ts < b /\ left[airport] # Null /\ ts <= left[airport] /\ c <= c
    BY <1>1, <1>2, <1>6, NullAssumption
  <2> HIDE DEF new
  <2>3. QED
    BY <1>2, <2>1, <2>2 DEF Remembered
<1>9. AllRemembered(F \cup {new}, left, R, c, b)
  BY <1>7, <1>8 DEF AllRemembered
<1>10. QED
  BY <1>4, <1>5, <1>9 DEF left

LEMMA SampleKeepsOnce ==
  ASSUME LateBy = 0, TypeInv, OnceInv, NEW s \in Sample, ApplySample(s)
  PROVE  OnceInv'
<1> DEFINE Q == samples'
           marks == FlagsBefore(samples, flags, s).goAround
           found == About(contact, LostNow(s)) \cup About(contact', FoundNow(s))
           check == GoAroundCheck(Q, marks)
<1>1. /\ newestTs' = s.ts /\ s.ts \in Nat /\ contact' \in Nat /\ contact \in Nat
      /\ Ring(Q, s.ts) /\ Q # {} /\ Q = RingAfter(samples, s) /\ marks \in Marks
  BY InOrderSample, SampleParts, SampleRing
<1>2. GoAroundNow(s) = check
  BY <1>1 DEF GoAroundNow
<1>3. Emit(found) /\ Found' = Found \cup found
  BY SampleFinds
<1>4. flags'.goAround = check.marks
  BY <1>2 DEF ApplySample, Iterate, GoAroundNow
<1>5. AllRemembered(Found, marks, Q, contact', s.ts)
  BY SampleRemembers DEF OnceInv
<1>6. \A e \in found : IsGoAround(e) <=> \E f \in check.found : e = [contact |-> contact', event |-> f]
  <2>1. \A f \in check.found : f.event_type = "go_around" /\ f \in FoundNow(s)
    BY <1>2, FoundKinds DEF FoundNow
  <2>2. \A e \in About(contact, LostNow(s)) : ~IsGoAround(e)
    BY NewGoArounds DEF About, IsGoAround
  <2>3. \A e \in About(contact', FoundNow(s)) :
           IsGoAround(e) => \E f \in check.found : e = [contact |-> contact', event |-> f]
    BY <1>2, NewGoArounds DEF About, IsGoAround
  <2>4. \A f \in check.found : IsGoAround([contact |-> contact', event |-> f])
    BY <2>1 DEF IsGoAround
  <2>5. QED
    BY <2>2, <2>3, <2>4
<1>7. \A f \in check.found : [contact |-> contact', event |-> f] \in found
  BY <1>2 DEF About, FoundNow
<1>8. Found \subseteq [contact : Nat, event : Event]
  BY DEF Found, TypeInv, TypeOK
<1> HIDE DEF Q, marks, found
<1>9. CASE check.found = {}
  <2>1. \A e \in found : ~IsGoAround(e)
    BY <1>6, <1>9
  <2>2. check.marks = marks
    BY <1>9 DEF GoAroundCheck
  <2>3. GoAroundsSpaced(Found')
    BY <1>3, <2>1 DEF OnceInv, GoAroundsSpaced
  <2>4. \A e \in dropped' : ~IsGoAround(e)
    BY <1>3, <2>1 DEF OnceInv, Emit
  <2>5. ASSUME NEW t, <<"go_around", t>> \in emitted'
        PROVE  \E e \in Found' : IsGoAround(e) /\ e.event.event_ts = t
    <3>1. \A e \in found : EventId(e.event) # <<"go_around", t>>
      BY <2>1 DEF EventId, IsGoAround
    <3>2. <<"go_around", t>> \in emitted
      BY <1>3, <2>5, <3>1 DEF Emit
    <3>3. QED
      BY <1>3, <3>2 DEF OnceInv
  <2>6. AllRemembered(Found', marks, Q, contact', s.ts)
    BY <1>3, <1>5, <2>1 DEF AllRemembered
  <2>7. QED
    BY <1>1, <1>4, <2>2, <2>3, <2>4, <2>5, <2>6 DEF OnceInv, Q, AllRemembered, GoAroundsSpaced
<1>10. CASE check.found # {}
  <2>1. PICK airport \in Airports, ts \in Nat, first \in Q, last \in Q, top \in Q :
          GoAroundOn(Q, marks, airport, ts, first, last, top)
    BY <1>1, <1>10, GoAroundFinds
  <2> DEFINE new == [contact |-> contact', event |-> GoAroundAt(airport, ts)]
  <2>2. /\ check.found = {GoAroundAt(airport, ts)}
        /\ check.marks = [marks EXCEPT ![airport] = ts]
    BY <2>1 DEF GoAroundOn
  <2>3. new \in found /\ \A e \in found : IsGoAround(e) <=> e = new
    BY <1>6, <1>7, <2>2
  <2>4. /\ \A e \in Found : IsGoAround(e) => e.event.event_ts # ts
        /\ \A e \in Found : /\ IsGoAround(e) /\ e.contact = contact' /\ e.event.airport = airport
                            => e.event.event_ts + GoAroundDedupeS <= ts
        /\ AllRemembered(Found \cup {new}, check.marks, Q, contact', s.ts)
    <3>1. /\ \A e \in Found : IsGoAround(e) => e.event.event_ts # ts
          /\ \A e \in Found : /\ IsGoAround(e) /\ e.contact = contact' /\ e.event.airport = airport
                              => e.event.event_ts + GoAroundDedupeS <= ts
      BY <1>1, <1>5, <1>8, <2>1, GoAroundIsNew
    <3>2. AllRemembered(Found \cup {new}, [marks EXCEPT ![airport] = ts], Q, contact', s.ts)
      BY <1>1, <1>5, <1>8, <2>1, GoAroundIsNew
    <3> HIDE DEF check, new
    <3>3. QED
      BY <2>2, <3>1, <3>2
  <2>5. /\ new.contact = contact' /\ new.event.airport = airport /\ new.event.event_ts = ts
        /\ EventId(new.event) = <<"go_around", ts>>
    BY DEF GoAroundAt, EventId
  <2> HIDE DEF new, check
  <2>6. EventId(new.event) \notin emitted
    BY <2>4, <2>5 DEF OnceInv
  <2>7. \A e \in Found' : IsGoAround(e) => e \in Found \/ e = new
    BY <1>3, <2>3
  <2>8. GoAroundsSpaced(Found')
    <3> SUFFICES ASSUME NEW a \in Found', NEW b \in Found', IsGoAround(a), IsGoAround(b),
                        a.contact = b.contact, a # b, a.event.airport = b.event.airport
                 PROVE  \/ a.event.event_ts + GoAroundDedupeS <= b.event.event_ts
                        \/ b.event.event_ts + GoAroundDedupeS <= a.event.event_ts
      BY DEF GoAroundsSpaced
    <3>1. CASE a \in Found /\ b \in Found
      BY <3>1 DEF OnceInv, GoAroundsSpaced
    <3>2. CASE a \in Found /\ b = new
      BY <2>4, <2>5, <3>2
    <3>3. CASE a = new /\ b \in Found
      BY <2>4, <2>5, <3>3
    <3>4. QED
      BY <2>7, <3>1, <3>2, <3>3
  <2>9. \A e \in dropped' : ~IsGoAround(e)
    BY <1>3, <2>3, <2>6 DEF OnceInv, Emit
  <2>10. ASSUME NEW t, <<"go_around", t>> \in emitted'
         PROVE  \E e \in Found' : IsGoAround(e) /\ e.event.event_ts = t
    <3>1. CASE <<"go_around", t>> \in emitted
      BY <1>3, <3>1 DEF OnceInv
    <3>2. CASE <<"go_around", t>> \notin emitted
      <4>1. PICK e \in found : EventId(e.event) = <<"go_around", t>>
        BY <1>3, <2>10, <3>2 DEF Emit
      <4>2. e = new
        BY <2>3, <4>1 DEF EventId, IsGoAround
      <4>3. t = ts /\ IsGoAround(new) /\ new \in Found'
        BY <1>3, <2>3, <2>5, <4>1, <4>2
      <4>4. QED
        BY <2>5, <4>3
    <3>3. QED
      BY <3>1, <3>2
  <2>11. AllRemembered(Found', check.marks, Q, contact', s.ts)
    BY <2>4, <2>7 DEF AllRemembered
  <2>12. QED
    BY <1>1, <1>4, <2>8, <2>9, <2>10, <2>11 DEF OnceInv, Q, AllRemembered, GoAroundsSpaced
<1>11. QED
  BY <1>9, <1>10

LEMMA OnceStep ==
  ASSUME LateBy = 0, TypeInv, OnceInv, [Next]_vars
  PROVE  OnceInv'
<1>1. CASE \E s \in Sample : ApplySample(s)
  BY <1>1, SampleKeepsOnce
<1>2. CASE Timeout
  <2>1. /\ samples' = {} /\ contact' = contact + 1 /\ contact \in Nat
        /\ newestTs' = newestTs /\ dropped' = dropped /\ emitted' = emitted
        /\ Found' = Found \cup About(contact, TimeoutEvents(samples, flags))
    BY <1>2, TimeoutParts
  <2>2. \A f \in TimeoutEvents(samples, flags) : f.event_type # "go_around"
    BY FoundKinds DEF TimeoutEvents
  <2>3. \A e \in Found' : IsGoAround(e) => e \in Found
    BY <2>1, <2>2 DEF About, IsGoAround
  <2>4. GoAroundsSpaced(Found')
    BY <2>3 DEF OnceInv, GoAroundsSpaced
  <2>5. AllRemembered(Found', flags'.goAround, samples', contact', newestTs')
    <3> SUFFICES ASSUME NEW e \in Found, IsGoAround(e)
                 PROVE  Remembered(e, flags'.goAround, samples', contact', newestTs')
      BY <2>3 DEF AllRemembered
    <3>1. Remembered(e, flags.goAround, samples, contact, newestTs)
      BY DEF OnceInv, AllRemembered
    <3>2. e.contact \in Nat
      BY DEF TypeInv, TypeOK, Found
    <3>3. e.contact <= contact' /\ e.contact # contact'
      BY <2>1, <3>1, <3>2 DEF Remembered
    <3>4. QED
      BY <2>1, <3>1, <3>3 DEF Remembered
  <2>6. \A t : <<"go_around", t>> \in emitted' =>
          \E e \in Found' : IsGoAround(e) /\ e.event.event_ts = t
    BY <2>1 DEF OnceInv
  <2>7. QED
    BY <2>1, <2>4, <2>5, <2>6 DEF OnceInv, AllRemembered, GoAroundsSpaced
<1>3. CASE NothingHeard
  <2>1. /\ Found' = Found /\ dropped' = dropped /\ emitted' \subseteq emitted
        /\ UNCHANGED <<flags, samples, contact, newestTs>>
    BY <1>3 DEF NothingHeard, Found
  <2>2. \A t : <<"go_around", t>> \in emitted' =>
          \E e \in Found' : IsGoAround(e) /\ e.event.event_ts = t
    BY <2>1 DEF OnceInv
  <2>3. QED
    BY <2>1, <2>2 DEF OnceInv, AllRemembered, GoAroundsSpaced
<1>4. QED
  BY <1>1, <1>2, <1>3, StepKinds

(* GoAround.check and its dedupe: on a feed in order, the climb that keeps *)
(* matching is found once, so no call drops a go-around, and within a      *)
(* contact a field has at most one in GoAroundDedupeS.                     *)
THEOREM GoAroundAlwaysFoundOnce ==
  ASSUME LateBy = 0
  PROVE  Spec => []GoAroundFoundOnce
<1>1. Init => OnceInv
  BY DEF Init, OnceInv, GoAroundsSpaced, AllRemembered, Found
<1>2. OnceInv => GoAroundFoundOnce
  BY DEF OnceInv, GoAroundsSpaced, GoAroundFoundOnce, GoArounds, IsGoAround
<1>3. QED
  BY <1>1, <1>2, InOrderAlways, OnceStep, PTL DEF Spec

-----------------------------------------------------------------------------
(* Holdings.                                                               *)
IsHolding(e) == e.event.event_type = "holding"

FlownOver(turn, start) ==
    /\ Cardinality(turn) >= MinWindow
    /\ Oldest(turn).ts = start
    /\ CumTurn(turn) >= CumTrackDeg
    /\ HaversineKm(Oldest(turn).pos, Newest(turn).pos) < NetDisplacementMaxKm

(* A hold from start to end was flown by contact c: the turn was heard     *)
(* before end, and before the last sample of its contact.                  *)
FlownBy(H, c, start, end) ==
    \E to \in Nat :
        /\ start <= to /\ to - start <= AccrueWindowS /\ to <= end
        /\ \E h \in H : h.contact = c /\ to <= h.sample.ts
        /\ FlownOver({s \in Leg(H, c, start, to) : InBand(s)}, start)

FlownInv ==
    /\ flags.hold # Null => FlownBy(heard, contact, flags.hold.start, flags.hold.lastTurn)
    /\ \A e \in Found : IsHolding(e) =>
          FlownBy(heard, e.contact, e.event.window_start, e.event.window_start + e.event.duration_s)

LEMMA FlownStays ==
  ASSUME LateBy = 0, TypeInv, HeardInv, [Next]_vars,
         NEW c, NEW start \in Nat, NEW end, FlownBy(heard, c, start, end)
  PROVE  FlownBy(heard', c, start, end)
<1>1. PICK to \in Nat :
        /\ start <= to /\ to - start <= AccrueWindowS /\ to <= end
        /\ \E h \in heard : h.contact = c /\ to <= h.sample.ts
        /\ FlownOver({s \in Leg(heard, c, start, to) : InBand(s)}, start)
  BY DEF FlownBy
<1>2. PICK h \in heard : h.contact = c /\ to <= h.sample.ts
  BY <1>1
<1>3. Leg(heard', c, start, to) = Leg(heard, c, start, to)
  BY <1>2, LegKept
<1>4. h \in heard'
  BY FoundGrows
<1>5. FlownOver({s \in Leg(heard', c, start, to) : InBand(s)}, start)
  BY <1>1, <1>3
<1>6. QED
  BY <1>1, <1>2, <1>4, <1>5 DEF FlownBy

(* A hold is opened on a turn that was flown on the ring.                  *)
LEMMA OpenedIsFlown ==
  ASSUME NEW R, NEW b \in Nat, Ring(R, b), R # {}, HoldOpened(R) # Null
  PROVE  \E q \in R :
            /\ HoldOpened(R) = [start |-> q.ts, lastTurn |-> Newest(R).ts]
            /\ q.ts <= Newest(R).ts /\ Newest(R).ts - q.ts <= AccrueWindowS
            /\ FlownOver({s \in {r \in R : r.ts \in q.ts..Newest(R).ts} : InBand(s)}, q.ts)
<1> DEFINE window == {s \in R : Newest(R).ts - s.ts <= AccrueWindowS /\ InBand(s)}
           q      == Oldest(window)
           turn   == {s \in {r \in R : r.ts \in q.ts..Newest(R).ts} : InBand(s)}
<1>1. /\ Cardinality(window) >= MinWindow
      /\ CumTurn(window) >= CumTrackDeg
      /\ HaversineKm(Oldest(window).pos, Newest(window).pos) < NetDisplacementMaxKm
      /\ HoldOpened(R) = [start |-> q.ts, lastTurn |-> Newest(R).ts]
  BY DEF HoldOpened
<1>2. window # {}
  <2>1. MinWindow \in Nat /\ MinWindow >= 2
    BY DEF MinWindow
  <2> HIDE DEF window
  <2>2. QED
    BY <1>1, <2>1, SeveralAreMoreThanOne
<1>3. window \subseteq R /\ \A s \in R : s \in window <=> Newest(R).ts - s.ts <= AccrueWindowS /\ InBand(s)
  OBVIOUS
<1> HIDE DEF window
<1>4. q \in window /\ \A s \in window : q.ts <= s.ts
  BY <1>2, <1>3, PartOfRing
<1>5. Newest(R) \in R /\ \A s \in R : s.ts <= Newest(R).ts /\ s.ts \in Nat
  BY PartOfRing DEF Ring, Sample
<1>6. AccrueWindowS \in Nat
  BY HoldingAssumption
<1>7. q \in R /\ q.ts \in Nat /\ q.ts <= Newest(R).ts /\ Newest(R).ts - q.ts <= AccrueWindowS
  BY <1>3, <1>4, <1>5
<1> HIDE DEF q
<1>8. \A s \in R : s \in window <=> s.ts \in q.ts..Newest(R).ts /\ InBand(s)
  <2> SUFFICES ASSUME NEW s \in R, InBand(s)
               PROVE  s \in window <=> s.ts \in q.ts..Newest(R).ts
    BY <1>3
  <2>1. CASE s \in window
    BY <1>4, <1>5, <1>7, <2>1
  <2>2. CASE s.ts \in q.ts..Newest(R).ts
    <3>1. Newest(R).ts - s.ts <= AccrueWindowS
      BY <1>5, <1>6, <1>7, <2>2
    <3>2. QED
      BY <1>3, <2>2, <3>1
  <2>3. QED
    BY <2>1, <2>2
<1>9. turn = window
  <2>1. \A s : s \in turn <=> s \in R /\ s.ts \in q.ts..Newest(R).ts /\ InBand(s)
    OBVIOUS
  <2> HIDE DEF turn
  <2>2. QED
    BY <1>3, <1>8, <2>1
<1>10. FlownOver(window, q.ts)
  BY <1>1 DEF FlownOver, q
<1>11. QED
  BY <1>1, <1>7, <1>9, <1>10

(* What closes a hold reports it from its start to its last turn.          *)
LEMMA ClosedIsTimed ==
  ASSUME NEW R, NEW hold \in [start : Nat, lastTurn : Nat], NEW f \in CloseHold(R, hold)
  PROVE  f.window_start = hold.start /\ f.window_start + f.duration_s = hold.lastTurn
<1>1. f.window_start = hold.start /\ f.duration_s = hold.lastTurn - hold.start
  BY DEF CloseHold, HoldingAt
<1>2. hold.start \in Nat /\ hold.lastTurn \in Nat
  OBVIOUS
<1>3. QED
  BY <1>1, <1>2

(* The hold after a check: opened now, extended to now, or as it was.      *)
LEMMA CheckedHold ==
  ASSUME NEW R, NEW hold
  PROVE  \/ HoldingCheck(R, hold).hold = Null
         \/ hold = Null /\ HoldingCheck(R, hold).hold = HoldOpened(R)
         \/ hold # Null /\ HoldingCheck(R, hold).hold \in
                             {hold, [hold EXCEPT !.lastTurn = Newest(R).ts]}
<1>1. CASE hold = Null
  BY <1>1 DEF HoldingCheck
<1>2. CASE hold # Null /\ Extends(R)
  BY <1>2 DEF HoldingCheck
<1>3. CASE hold # Null /\ ~Extends(R) /\ ClosedBy(R, hold)
  BY <1>3 DEF HoldingCheck
<1>4. CASE hold # Null /\ ~Extends(R) /\ ~ClosedBy(R, hold)
  BY <1>4 DEF HoldingCheck
<1>5. QED
  BY <1>1, <1>2, <1>3, <1>4

LEMMA SampleKeepsFlown ==
  ASSUME LateBy = 0, TypeInv, TypeInv', HeardInv, HeardInv', KeptInv', HoldInv, FlownInv,
         [Next]_vars, NEW s \in Sample, ApplySample(s)
  PROVE  FlownInv'
<1> DEFINE Q      == samples'
           before == FlagsBefore(samples, flags, s).hold
<1>1. Found' = Found \cup About(contact, LostNow(s)) \cup About(contact', FoundNow(s))
  BY SampleFinds
<1>2. /\ newestTs' = s.ts /\ s.ts \in Nat /\ newestTs \in Nat /\ newestTs <= s.ts
      /\ Ring(Q, s.ts) /\ Q # {} /\ Q = RingAfter(samples, s) /\ Newest(Q).ts = s.ts
  BY InOrderSample, SampleParts, SampleRing
<1>3. flags'.hold = HoldingCheck(Q, before).hold /\ HoldingNow(s) = HoldingCheck(Q, before)
  BY <1>2 DEF ApplySample, Iterate, HoldingNow
<1>4. ASSUME flags.hold # Null
      PROVE  /\ flags.hold \in [start : Nat, lastTurn : Nat]
             /\ FlownBy(heard', contact, flags.hold.start, flags.hold.lastTurn)
             /\ flags.hold.lastTurn <= s.ts
  <2>1. flags.hold \in [start : Nat, lastTurn : Nat]
    BY <1>4 DEF TypeInv, TypeOK, Flags, Hold
  <2>2. flags.hold.start \in Nat /\ flags.hold.lastTurn \in Nat
    BY <2>1
  <2>3. FlownBy(heard, contact, flags.hold.start, flags.hold.lastTurn)
    BY <1>4 DEF FlownInv
  <2>4. FlownBy(heard', contact, flags.hold.start, flags.hold.lastTurn)
    BY <2>2, <2>3, FlownStays
  <2>5. samples # {} /\ flags.hold.lastTurn <= Newest(samples).ts
    BY <1>4 DEF HoldInv
  <2>6. Newest(samples) \in samples /\ Ring(samples, newestTs)
    BY <1>2, <2>5, PartOfRing DEF TypeInv
  <2>7. Newest(samples).ts <= newestTs /\ Newest(samples).ts \in Nat
    BY <2>6 DEF Ring, Sample
  <2>8. flags.hold.lastTurn <= s.ts
    BY <1>2, <2>2, <2>5, <2>7
  <2>9. QED
    BY <2>1, <2>4, <2>8
<1>5. before # Null =>
        /\ before = flags.hold /\ flags.hold # Null /\ contact' = contact
        /\ FlownBy(heard', contact', before.start, before.lastTurn)
  <2>1. before # Null => before = flags.hold /\ contact' = contact
    BY SampleParts DEF NoFlags
  <2> HIDE DEF before
  <2>2. QED
    BY <1>4, <2>1
<1> HIDE DEF before
<1>6. HoldOpened(Q) # Null =>
        FlownBy(heard', contact', HoldOpened(Q).start, HoldOpened(Q).lastTurn)
  <2> SUFFICES ASSUME HoldOpened(Q) # Null
               PROVE  FlownBy(heard', contact', HoldOpened(Q).start, HoldOpened(Q).lastTurn)
    OBVIOUS
  <2>1. PICK q \in Q :
          /\ HoldOpened(Q) = [start |-> q.ts, lastTurn |-> Newest(Q).ts]
          /\ q.ts <= Newest(Q).ts /\ Newest(Q).ts - q.ts <= AccrueWindowS
          /\ FlownOver({r \in {r \in Q : r.ts \in q.ts..Newest(Q).ts} : InBand(r)}, q.ts)
    BY <1>2, OpenedIsFlown
  <2>2. Holds(Q, heard', contact')
    BY <1>2 DEF Ring, TypeInv, TypeOK, HeardInv, KeptInv, Holds
  <2>3. /\ Newest(Q) \in Q /\ Newest(Q).ts \in Nat
        /\ [contact |-> contact', sample |-> Newest(Q)] \in heard'
    BY <1>2, <2>2, PartOfRing DEF Holds
  <2> HIDE DEF Q
  <2>4. Leg(heard', contact', q.ts, Newest(Q).ts) = {r \in Q : r.ts \in q.ts..Newest(Q).ts}
    BY <2>2, <2>3, LegIsInRing
  <2>5. \E h \in heard' : h.contact = contact' /\ Newest(Q).ts <= h.sample.ts
    <3> DEFINE h == [contact |-> contact', sample |-> Newest(Q)]
    <3>1. h \in heard' /\ h.contact = contact' /\ Newest(Q).ts <= h.sample.ts
      BY <2>3
    <3>2. QED
      BY <3>1
  <2>6. FlownOver({r \in Leg(heard', contact', q.ts, Newest(Q).ts) : InBand(r)}, q.ts)
    BY <2>1, <2>4
  <2>7. Newest(Q).ts <= Newest(Q).ts
    BY <2>3
  <2>8. FlownBy(heard', contact', q.ts, Newest(Q).ts)
    BY <2>1, <2>3, <2>5, <2>6, <2>7 DEF FlownBy
  <2>9. HoldOpened(Q).start = q.ts /\ HoldOpened(Q).lastTurn = Newest(Q).ts
    BY <2>1
  <2>10. QED
    BY <2>8, <2>9
<1>7. flags'.hold # Null => FlownBy(heard', contact', flags'.hold.start, flags'.hold.lastTurn)
  <2>1. CASE before = Null
    <3>1. flags'.hold = Null \/ flags'.hold = HoldOpened(Q)
      BY <1>3, <2>1, CheckedHold
    <3>2. QED
      BY <1>6, <3>1
  <2>2. CASE before # Null /\ flags'.hold = before
    BY <1>5, <2>2
  <2>3. CASE before # Null /\ flags'.hold = [before EXCEPT !.lastTurn = Newest(Q).ts]
    <3>1. before \in [start : Nat, lastTurn : Nat] /\ before.lastTurn <= s.ts
      BY <1>4, <1>5, <2>3
    <3>2. flags'.hold.start = before.start /\ flags'.hold.lastTurn = s.ts
      BY <1>2, <2>3, <3>1
    <3>3. before.lastTurn \in Nat
      BY <3>1
    <3>4. \A to \in Nat : to <= before.lastTurn => to <= s.ts
      BY <1>2, <3>1, <3>3
    <3>5. FlownBy(heard', contact', before.start, s.ts)
      BY <1>5, <2>3, <3>4 DEF FlownBy
    <3>6. QED
      BY <3>2, <3>5
  <2>4. QED
    BY <1>3, <2>1, <2>2, <2>3, CheckedHold
<1>8. SUFFICES ASSUME NEW e \in Found', IsHolding(e)
               PROVE  FlownBy(heard', e.contact, e.event.window_start,
                              e.event.window_start + e.event.duration_s)
  BY <1>7 DEF FlownInv
<1>9. CASE e \in Found
  <2>1. e.event.window_start \in Nat
    BY <1>9 DEF TypeInv, TypeOK, Found, Event
  <2>2. FlownBy(heard, e.contact, e.event.window_start, e.event.window_start + e.event.duration_s)
    BY <1>8, <1>9 DEF FlownInv
  <2>3. QED
    BY <2>1, <2>2, FlownStays
<1>10. CASE e \in About(contact, LostNow(s))
  <2>1. PICK f \in LostNow(s) : e = [contact |-> contact, event |-> f]
    BY <1>10 DEF About
  <2>2. f \in TimeoutEvents(samples, flags) /\ f.event_type = "holding"
    BY <1>8, <2>1 DEF LostNow, IsHolding
  <2>3. flags.hold # Null /\ f \in CloseHold(samples, flags.hold)
    BY <2>2, FoundKinds DEF TimeoutEvents
  <2>4. /\ f.window_start = flags.hold.start
        /\ f.window_start + f.duration_s = flags.hold.lastTurn
    BY <1>4, <2>3, ClosedIsTimed
  <2>5. QED
    BY <1>4, <2>1, <2>3, <2>4
<1>11. CASE e \in About(contact', FoundNow(s))
  <2>1. PICK f \in FoundNow(s) : e = [contact |-> contact', event |-> f]
    BY <1>11 DEF About
  <2>2. f.event_type = "holding"
    BY <1>8, <2>1 DEF IsHolding
  <2>3. f \in HoldingCheck(Q, before).found
    <3>1. \A g \in ArrivalNow(s).found : g.event_type = "arrival"
      BY FoundKinds DEF ArrivalNow
    <3>2. \A g \in GoAroundNow(s).found : g.event_type = "go_around"
      BY FoundKinds DEF GoAroundNow
    <3>3. QED
      BY <1>3, <2>2, <3>1, <3>2 DEF FoundNow
  <2>4. before # Null /\ f \in CloseHold(Q, before)
    BY <2>3, FoundKinds
  <2>5. before \in [start : Nat, lastTurn : Nat]
    BY <1>4, <1>5, <2>4
  <2>6. f.window_start = before.start /\ f.window_start + f.duration_s = before.lastTurn
    BY <2>4, <2>5, ClosedIsTimed
  <2>7. QED
    BY <1>5, <2>1, <2>4, <2>6
<1>12. QED
  BY <1>1, <1>9, <1>10, <1>11

LEMMA FlownStep ==
  ASSUME LateBy = 0, TypeInv, TypeInv', HeardInv, HeardInv', KeptInv', HoldInv, FlownInv, [Next]_vars
  PROVE  FlownInv'
<1>1. CASE \E s \in Sample : ApplySample(s)
  BY <1>1, SampleKeepsFlown
<1>2. CASE Timeout
  <2>1. /\ heard' = heard /\ flags'.hold = Null
        /\ Found' = Found \cup About(contact, TimeoutEvents(samples, flags))
    BY <1>2, TimeoutParts DEF NoFlags
  <2>2. ASSUME NEW f \in TimeoutEvents(samples, flags), f.event_type = "holding"
        PROVE  FlownBy(heard, contact, f.window_start, f.window_start + f.duration_s)
    <3>1. flags.hold # Null /\ f \in CloseHold(samples, flags.hold)
      BY <2>2, FoundKinds DEF TimeoutEvents
    <3>2. flags.hold \in [start : Nat, lastTurn : Nat]
      BY <3>1 DEF TypeInv, TypeOK, Flags, Hold
    <3>3. /\ f.window_start = flags.hold.start
          /\ f.window_start + f.duration_s = flags.hold.lastTurn
      BY <3>1, <3>2, ClosedIsTimed
    <3>4. QED
      BY <3>1, <3>3 DEF FlownInv
  <2>3. ASSUME NEW e \in About(contact, TimeoutEvents(samples, flags)), IsHolding(e)
        PROVE  FlownBy(heard, e.contact, e.event.window_start,
                       e.event.window_start + e.event.duration_s)
    <3>1. PICK f \in TimeoutEvents(samples, flags) : e = [contact |-> contact, event |-> f]
      BY DEF About
    <3>2. QED
      BY <2>2, <2>3, <3>1 DEF IsHolding
  <2>4. \A e \in Found' : IsHolding(e) =>
          FlownBy(heard', e.contact, e.event.window_start, e.event.window_start + e.event.duration_s)
    BY <2>1, <2>3 DEF FlownInv
  <2>5. QED
    BY <2>1, <2>4 DEF FlownInv
<1>3. CASE NothingHeard
  <2>1. heard' = heard /\ Found' = Found /\ flags' = flags /\ contact' = contact
    BY <1>3 DEF NothingHeard, Found
  <2>2. QED
    BY <2>1 DEF FlownInv
<1>4. QED
  BY <1>1, <1>2, <1>3, StepKinds

(* The feed ends at MaxTs.                                                 *)
InFeed == \A h \in heard : h.sample.ts <= MaxTs

LEMMA FeedEnds ==
  ASSUME TypeInv, InFeed, [Next]_vars
  PROVE  InFeed'
<1>1. CASE \E s \in Sample : s \in Incoming /\ ApplySample(s)
  <2>1. PICK s \in Sample : s \in Incoming /\ ApplySample(s)
    BY <1>1
  <2>2. s.ts <= MaxTs
    BY <2>1, EngineAssumption DEF Incoming, FromMessage
  <2>3. \A h \in heard' : h \in heard \/ h.sample = s
    BY <2>1, SampleParts
  <2>4. QED
    BY <2>2, <2>3 DEF InFeed
<1>2. CASE Timeout
  BY <1>2, TimeoutParts DEF InFeed
<1>3. CASE NothingHeard
  BY <1>3 DEF NothingHeard, InFeed
<1>4. QED
  BY <1>1, <1>2, <1>3, StepKinds

(* Holding.check: on a feed in order, every holding reported was flown,    *)
(* for every batching, ring size, window and closing time.                 *)
THEOREM HoldingWasAlwaysFlown ==
  ASSUME LateBy = 0
  PROVE  Spec => []HoldingWasFlown
<1>1. Init => FlownInv /\ InFeed
  BY DEF Init, FlownInv, InFeed, Found, NoFlags
<1>2. TypeInv /\ FlownInv /\ InFeed => HoldingWasFlown
  <2> SUFFICES ASSUME TypeInv, FlownInv, InFeed, NEW e \in Holdings
               PROVE  \E to \in e.event.window_start..MaxTs :
                        /\ to - e.event.window_start <= AccrueWindowS
                        /\ to <= e.event.window_start + e.event.duration_s
                        /\ FlownOver({s \in HeardIn(e.contact, e.event.window_start, to) : InBand(s)},
                                     e.event.window_start)
    BY DEF HoldingWasFlown, FlownOver
  <2> DEFINE start == e.event.window_start
  <2>1. FlownBy(heard, e.contact, start, start + e.event.duration_s)
    BY DEF FlownInv, Holdings, IsHolding
  <2>2. PICK to \in Nat :
          /\ start <= to /\ to - start <= AccrueWindowS /\ to <= start + e.event.duration_s
          /\ \E h \in heard : h.contact = e.contact /\ to <= h.sample.ts
          /\ FlownOver({s \in Leg(heard, e.contact, start, to) : InBand(s)}, start)
    BY <2>1 DEF FlownBy
  <2>3. start \in Nat /\ MaxTs \in Nat /\ \A h \in heard : h.sample.ts \in Nat
    BY EngineAssumption DEF TypeInv, TypeOK, Holdings, Found, Event, Sample
  <2>4. to \in start..MaxTs
    BY <2>2, <2>3 DEF InFeed
  <2>5. HeardIn(e.contact, start, to) = Leg(heard, e.contact, start, to)
    BY HeardInIsLeg
  <2>6. FlownOver({s \in HeardIn(e.contact, start, to) : InBand(s)}, start)
    BY <2>2, <2>5
  <2>7. QED
    BY <2>2, <2>4, <2>6
<1>3. QED
  BY <1>1, <1>2, InOrderAlways, HoldAlways, FlownStep, FeedEnds, PTL DEF Spec

=============================================================================
