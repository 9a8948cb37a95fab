-------------------------- MODULE EngineCallProofs --------------------------
(***************************************************************************)
(* What one iteration of the engine's loop returns, whatever the state and *)
(* the sample: for the proofs about the engine and about the events query. *)
(***************************************************************************)
EXTENDS EngineCall, FiniteSetTheorems, NatSetProofs

(* Oldest is the first sample of a ring.                                   *)
LEMMA OldestIsFirst ==
  ASSUME NEW S, S \subseteq Sample, S # {}
  PROVE  Oldest(S) \in S /\ \A r \in S : Oldest(S).ts <= r.ts
<1>1. TsOf(S) \subseteq Nat /\ TsOf(S) # {}
  BY DEF TsOf, Sample
<1>2. PICK m \in TsOf(S) : \A n \in TsOf(S) : m <= n
  BY <1>1, NatMin
<1>3. \E s \in S : \A r \in S : s.ts <= r.ts
  BY <1>2 DEF TsOf
<1>4. QED
  BY <1>3 DEF Oldest

(* Newest is the last sample of a ring that is bounded in time.            *)
LEMMA NewestIsLast ==
  ASSUME NEW S, S \subseteq Sample, S # {}, NEW b \in Nat, \A s \in S : s.ts <= b
  PROVE  Newest(S) \in S /\ \A r \in S : r.ts <= Newest(S).ts
<1>1. TsOf(S) \subseteq Nat /\ TsOf(S) # {} /\ \A n \in TsOf(S) : n <= b
  BY DEF TsOf, Sample
<1>2. PICK m \in TsOf(S) : \A n \in TsOf(S) : n <= m
  BY <1>1, NatMax
<1>3. \E s \in S : \A r \in S : r.ts <= s.ts
  BY <1>2 DEF TsOf
<1>4. QED
  BY <1>3 DEF Newest

(* Every position has a nearest field.                                     *)
LEMMA NearestAirportIsOne ==
  ASSUME NEW pos \in Int
  PROVE  NearestAirport(pos) \in Airports
<1> DEFINE dist(a) == HaversineKm(pos, AirportPos[a])
           D == {dist(a) : a \in Airports}
<1>1. \A a \in Airports : dist(a) \in Nat
  BY AirportsAssumption DEF HaversineKm
<1>2. D \subseteq Nat /\ D # {}
  BY <1>1, AirportsAssumption
<1> HIDE DEF D
<1>3. PICK m \in D : \A n \in D : m <= n
  BY <1>2, NatMin
<1>4. \E a \in Airports : \A b \in Airports : dist(a) <= dist(b)
  BY <1>3 DEF D
<1>5. QED
  BY <1>4 DEF NearestAirport

-----------------------------------------------------------------------------
(* A ring as the engine keeps it: bounded, one sample per ts, none newer   *)
(* than b.                                                                 *)
Ring(R, b) ==
    /\ R \subseteq Sample /\ IsFiniteSet(R)
    /\ Cardinality(R) <= RingSize
    /\ \A r, s \in R : r.ts = s.ts => r = s
    /\ \A r \in R : r.ts <= b

Contiguous(R) ==
    \A s \in R : \/ s.ts = Newest(R).ts
                 \/ \E r \in R : s.ts < r.ts /\ r.ts <= s.ts + GapResetS

LEMMA EmptyRing ==
  ASSUME NEW b \in Nat
  PROVE  Ring({}, b)
BY FS_EmptySet, RingSizeAssumption DEF Ring

(* Appending a sample keeps a ring, and only forgets from its old end.     *)
LEMMA RingWithKeepsRing ==
  ASSUME NEW R, NEW b \in Nat, Ring(R, b), NEW s \in Sample, s.ts <= b
  PROVE  LET Q == RingWith(R, s) IN
         /\ Ring(Q, b) /\ Q # {} /\ Q \subseteq R \cup {s}
         /\ s.ts \notin TsOf(R) =>
              \A r \in R \cup {s} : \/ r \in Q
                                    \/ \A q \in Q : r.ts < q.ts
<1> DEFINE U == R \cup {s}
<1>1. CASE s.ts \in TsOf(R)
  <2>1. R # {}
    BY <1>1 DEF TsOf
  <2>2. QED
    BY <1>1, <2>1 DEF RingWith
<1>2. CASE s.ts \notin TsOf(R)
  <2>1. s \notin R /\ \A r \in R : r.ts # s.ts
    BY <1>2 DEF TsOf
  <2>2. U \subseteq Sample /\ U # {} /\ \A r \in U : r.ts <= b
    BY DEF Ring
  <2>3. \A r, q \in U : r.ts = q.ts => r = q
    BY <2>1 DEF Ring
  <2>4. IsFiniteSet(U) /\ Cardinality(U) = Cardinality(R) + 1 /\ Cardinality(R) \in Nat
    BY <2>1, FS_AddElement, FS_CardinalityType DEF Ring
  <2>5. RingWith(R, s) = TrimRing(U)
    BY <1>2 DEF RingWith
  <2>6. CASE Cardinality(U) > RingSize
    <3>1. TrimRing(U) = U \ {Oldest(U)}
      BY <2>6 DEF TrimRing
    <3>2. Oldest(U) \in U /\ \A r \in U : Oldest(U).ts <= r.ts
      BY <2>2, OldestIsFirst
    <3>3. IsFiniteSet(U \ {Oldest(U)}) /\ Cardinality(U \ {Oldest(U)}) = Cardinality(U) - 1
      BY <2>4, <3>2, FS_RemoveElement
    <3>4. Cardinality(U) - 1 <= RingSize
      BY <2>4 DEF Ring
    <3>5. U \ {Oldest(U)} # {}
      <4>1. Cardinality(U \ {Oldest(U)}) # 0
        BY <2>4, <2>6, <3>3, RingSizeAssumption
      <4>2. QED
        BY <4>1, FS_EmptySet
    <3>6. \A q \in U \ {Oldest(U)} : Oldest(U).ts < q.ts
      <4>1. \A q \in U : q.ts \in Nat
        BY <2>2 DEF Sample
      <4> HIDE DEF U
      <4>2. QED
        BY <2>3, <3>2, <4>1
    <3>7. Ring(U \ {Oldest(U)}, b)
      BY <2>2, <2>3, <3>3, <3>4 DEF Ring
    <3>8. QED
      BY <2>5, <3>1, <3>5, <3>6, <3>7
  <2>7. CASE ~(Cardinality(U) > RingSize)
    <3>1. TrimRing(U) = U
      BY <2>7 DEF TrimRing
    <3>2. Ring(U, b)
      BY <2>2, <2>3, <2>4, <2>7, RingSizeAssumption DEF Ring
    <3>3. QED
      BY <2>2, <2>5, <3>1, <3>2
  <2>8. QED
    BY <2>6, <2>7
<1>3. QED
  BY <1>1, <1>2

(* Appending a sample never makes a ring's newest sample older.            *)
LEMMA RingWithKeepsNewest ==
  ASSUME NEW R, NEW b \in Nat, Ring(R, b), NEW s \in Sample, s.ts <= b
  PROVE  \A r \in R \cup {s} : r.ts <= Newest(RingWith(R, s)).ts
<1> DEFINE Q == RingWith(R, s)
<1>1. Ring(Q, b) /\ Q # {}
  BY RingWithKeepsRing
<1>2. Newest(Q) \in Q /\ \A q \in Q : q.ts <= Newest(Q).ts
  BY <1>1, NewestIsLast DEF Ring
<1>3. \A r \in Q \cup R \cup {s} : r.ts \in Nat
  BY <1>1 DEF Ring, Sample
<1>4. CASE s.ts \in TsOf(R)
  <2>1. Q = R
    BY <1>4 DEF RingWith
  <2>2. PICK r \in R : r.ts = s.ts
    BY <1>4 DEF TsOf
  <2>3. QED
    BY <1>2, <2>1, <2>2
<1>5. CASE s.ts \notin TsOf(R)
  <2>1. \A r \in R \cup {s} : r \in Q \/ \A q \in Q : r.ts < q.ts
    BY <1>5, RingWithKeepsRing
  <2> HIDE DEF Q
  <2>2. QED
    BY <1>2, <1>3, <2>1 DEF Q
<1>6. QED
  BY <1>4, <1>5

(* A sample within GAP_RESET_S of the newest one, or no more late than     *)
(* that, keeps the ring contiguous.                                        *)
LEMMA RingWithKeepsContact ==
  ASSUME NEW R, NEW b \in Nat, Ring(R, b), Contiguous(R),
         NEW s \in Sample, s.ts <= b,
         R # {} => /\ s.ts <= Newest(R).ts + GapResetS
                   /\ Newest(R).ts <= s.ts + GapResetS
  PROVE  Contiguous(RingWith(R, s))
<1> DEFINE Q == RingWith(R, s)
<1>1. CASE s.ts \in TsOf(R)
  BY <1>1 DEF RingWith
<1>2. CASE s.ts \notin TsOf(R)
  <2>1. /\ Ring(Q, b) /\ Q # {} /\ Q \subseteq R \cup {s}
        /\ \A r \in R \cup {s} : r \in Q \/ \A q \in Q : r.ts < q.ts
    BY <1>2, RingWithKeepsRing
  <2>2. Newest(Q) \in Q /\ \A q \in Q : q.ts <= Newest(Q).ts
    BY <2>1, NewestIsLast DEF Ring
  <2>3. R # {} => Newest(R) \in R /\ \A r \in R : r.ts <= Newest(R).ts
    BY NewestIsLast DEF Ring
  <2>4. \A r \in R \cup {s} : r.ts \in Nat
    BY DEF Ring, Sample
  <2>5. \A r \in R : r.ts # s.ts
    BY <1>2 DEF TsOf
  <2> HIDE DEF Q
  <2>6. SUFFICES ASSUME NEW q \in Q, q.ts # Newest(Q).ts
                 PROVE  \E r \in Q : q.ts < r.ts /\ r.ts <= q.ts + GapResetS
    BY DEF Contiguous, Q
  <2>7. q.ts < Newest(Q).ts /\ q \in R \cup {s} /\ Newest(Q) \in R \cup {s}
    BY <2>1, <2>2, <2>4, <2>6
  <2>8. CASE q = s
    <3>1. Newest(Q) \in R /\ R # {}
      BY <2>4, <2>7, <2>8
    <3>2. s.ts < Newest(R).ts /\ Newest(R) \in R
      BY <2>3, <2>4, <2>7, <2>8, <3>1
    <3>3. Newest(R) \in Q
      BY <2>1, <2>4, <2>8, <3>2
    <3>4. QED
      BY <2>8, <3>1, <3>2, <3>3
  <2>9. CASE q \in R /\ q.ts = Newest(R).ts
    <3>1. Newest(Q) = s
      BY <2>3, <2>4, <2>7, <2>9
    <3>2. QED
      BY <2>2, <2>7, <2>9, <3>1
  <2>10. CASE q \in R /\ q.ts # Newest(R).ts
    <3>1. PICK r \in R : q.ts < r.ts /\ r.ts <= q.ts + GapResetS
      BY <2>10 DEF Contiguous
    <3>2. r \in Q
      BY <2>1, <2>4, <2>6, <3>1
    <3>3. QED
      BY <3>1, <3>2
  <2>11. QED
    BY <2>7, <2>8, <2>9, <2>10
<1>3. QED
  BY <1>1, <1>2

-----------------------------------------------------------------------------
(* What each detector returns, on any ring.                                *)

Marks == [Airports -> Nat \cup {Null}]

LEMMA SeveralAreMoreThanOne ==
  ASSUME NEW S, NEW n \in Nat, n >= 2, Cardinality(S) >= n
  PROVE  S # {} /\ ~\E x : S = {x}
<1>1. S # {}
  <2>1. Cardinality({}) = 0
    BY FS_EmptySet
  <2>2. QED
    BY <2>1
<1>2. ASSUME NEW x, S = {x}
      PROVE  FALSE
  <2>1. Cardinality({x}) = 1
    BY FS_Singleton
  <2>2. QED
    BY <1>2, <2>1
<1>3. QED
  BY <1>1, <1>2

(* Part of a ring has its first and its last sample.                       *)
LEMMA PartOfRing ==
  ASSUME NEW R, NEW b \in Nat, Ring(R, b), NEW S, S \subseteq R, S # {}
  PROVE  /\ Newest(S) \in S /\ \A r \in S : r.ts <= Newest(S).ts
         /\ Oldest(S) \in S /\ \A r \in S : Oldest(S).ts <= r.ts
         /\ Newest(S) \in Sample /\ Oldest(S) \in Sample
<1>1. S \subseteq Sample /\ \A r \in S : r.ts <= b
  BY DEF Ring
<1>2. QED
  BY <1>1, NewestIsLast, OldestIsFirst

LEMMA ConfirmTypes ==
  ASSUME NEW R, NEW b \in Nat, Ring(R, b), R # {}, NEW marks \in Marks,
         NEW how \in {"on_ground", "coverage_loss"}, NEW fallback \in Sample
  PROVE  Confirm(R, marks, how, fallback) \in [found : SUBSET Event, marks : Marks]
<1> DEFINE last    == Newest(R)
           airport == NearestAirport(last.pos)
           start   == WindowStart(R, fallback)
<1>1. last \in Sample
  BY PartOfRing
<1>2. airport \in Airports /\ last.ts \in Nat
  BY <1>1, NearestAirportIsOne DEF Sample
<1>3. start \in Nat
  <2>1. CASE \E s \in R : IsCandidate(s)
    <3>1. Oldest({s \in R : IsCandidate(s)}) \in Sample
      BY <2>1, PartOfRing
    <3>2. QED
      BY <2>1, <3>1 DEF WindowStart, Sample
  <2>2. CASE ~\E s \in R : IsCandidate(s)
    BY <2>2 DEF WindowStart, Sample
  <2>3. QED
    BY <2>1, <2>2
<1> HIDE DEF start
<1>4. ArrivalAt(airport, how, last.ts, start) \in Event
  BY <1>2, <1>3 DEF ArrivalAt, Event
<1>5. [marks EXCEPT ![airport] = last.ts] \in Marks
  BY <1>2 DEF Marks
<1>6. QED
  BY <1>4, <1>5 DEF Confirm, start

LEMMA ArrivalTypes ==
  ASSUME NEW R, NEW b \in Nat, Ring(R, b), NEW marks \in Marks
  PROVE  /\ ArrivalCheck(R, marks) \in [found : SUBSET Event, marks : Marks]
         /\ ArrivalOnTimeout(R, marks) \subseteq Event
<1>1. ArrivalCheck(R, marks) \in [found : SUBSET Event, marks : Marks]
  <2>1. CASE TouchedDown(R)
    <3>1. {s \in R : ~s.onGround} # {} /\ R # {}
      BY <2>1 DEF TouchedDown
    <3>2. Newest({s \in R : ~s.onGround}) \in Sample
      BY <3>1, PartOfRing
    <3>3. QED
      BY <3>1, <3>2, ConfirmTypes DEF ArrivalCheck
  <2>2. CASE ~TouchedDown(R)
    BY <2>2 DEF ArrivalCheck
  <2>3. QED
    BY <2>1, <2>2
<1>2. ArrivalOnTimeout(R, marks) \subseteq Event
  <2>1. CASE LostOnFinal(R)
    <3>1. R # {}
      BY <2>1 DEF LostOnFinal
    <3>2. Newest(R) \in Sample
      BY <3>1, PartOfRing
    <3>3. QED
      BY <2>1, <3>1, <3>2, ConfirmTypes DEF ArrivalOnTimeout
  <2>2. CASE ~LostOnFinal(R)
    BY <2>2 DEF ArrivalOnTimeout
  <2>3. QED
    BY <2>1, <2>2
<1>3. QED
  BY <1>1, <1>2

LEMMA GoAroundTypes ==
  ASSUME NEW R, NEW b \in Nat, Ring(R, b), NEW marks \in Marks
  PROVE  GoAroundCheck(R, marks) \in [found : SUBSET Event, marks : Marks]
<1> DEFINE climb   == ClimbRun(R)
           before  == LastN(R \ climb, Lookback)
           descent == {s \in before : Descending(s)}
           airport == NearestAirport(Newest(descent).pos)
           start   == Oldest(climb).ts
<1>1. CASE Balked(climb, before, descent)
  <2>1. climb # {} /\ descent # {}
    <3> HIDE DEF climb, before, descent
    <3>1. Cardinality(climb) >= 2 /\ Cardinality(descent) >= 2
      BY <1>1 DEF Balked, ClimbMinSamples, DescentMinSamples
    <3>2. QED
      BY <3>1, SeveralAreMoreThanOne
  <2>2. climb \subseteq R /\ descent \subseteq R
    BY DEF ClimbRun, LastN
  <2> HIDE DEF climb, descent
  <2>3. Newest(descent) \in Sample /\ Oldest(climb) \in Sample
    BY <2>1, <2>2, PartOfRing
  <2>4. airport \in Airports /\ start \in Nat
    BY <2>3, NearestAirportIsOne DEF Sample
  <2> HIDE DEF airport, start
  <2>5. GoAroundAt(airport, start) \in Event
    BY <2>4 DEF GoAroundAt, Event
  <2>6. [marks EXCEPT ![airport] = start] \in Marks
    BY <2>4 DEF Marks
  <2>7. QED
    BY <2>5, <2>6 DEF GoAroundCheck, climb, descent, airport, start
<1>2. CASE ~Balked(climb, before, descent)
  BY <1>2 DEF GoAroundCheck
<1>3. QED
  BY <1>1, <1>2

LEMMA CloseHoldTypes ==
  ASSUME NEW R, NEW b \in Nat, Ring(R, b), R # {},
         NEW hold \in [start : Nat, lastTurn : Nat]
  PROVE  CloseHold(R, hold) \subseteq Event
<1> DEFINE inside == {s \in R : s.ts \in hold.start..hold.lastTurn}
           mid    == IF inside = {} THEN R ELSE inside
           half   == Cardinality(mid) \div 2
           lower  == {s \in mid : Cardinality({r \in mid : r.ts < s.ts}) <= half}
           duration == hold.lastTurn - hold.start
<1>1. mid \subseteq R /\ mid # {}
  OBVIOUS
<1>2. half \in Nat
  <2>1. IsFiniteSet(mid)
    BY <1>1, FS_Subset DEF Ring
  <2>2. Cardinality(mid) \in Nat
    BY <2>1, FS_CardinalityType
  <2>3. QED
    BY <2>2
<1> HIDE DEF mid, half
<1>3. lower # {}
  <2>1. Oldest(mid) \in mid /\ \A r \in mid : Oldest(mid).ts <= r.ts
    BY <1>1, PartOfRing
  <2>2. \A r \in mid : r.ts \in Nat
    BY <1>1 DEF Ring, Sample
  <2>3. {r \in mid : r.ts < Oldest(mid).ts} = {}
    BY <2>1, <2>2
  <2>4. Cardinality({r \in mid : r.ts < Oldest(mid).ts}) <= half
    BY <1>2, <2>3, FS_EmptySet
  <2>5. QED
    BY <2>1, <2>4
<1>4. lower \subseteq R
  BY <1>1
<1> HIDE DEF lower
<1>5. Newest(lower) \in Sample
  BY <1>3, <1>4, PartOfRing
<1>6. NearestAirport(Newest(lower).pos) \in Airports
  BY <1>5, NearestAirportIsOne DEF Sample
<1>7. duration > 0 => duration \in Nat
  OBVIOUS
<1>8. duration > 0 => HoldingAt(NearestAirport(Newest(lower).pos), hold.start, duration) \in Event
  BY <1>6, <1>7 DEF HoldingAt, Event
<1>9. QED
  BY <1>8 DEF CloseHold, lower, half, mid

(* An opened hold started before the newest sample of the ring it opens on.*)
LEMMA HoldOpenedTypes ==
  ASSUME NEW R, NEW b \in Nat, Ring(R, b), R # {}
  PROVE  /\ HoldOpened(R) \in Hold
         /\ HoldOpened(R) # Null =>
              /\ HoldOpened(R).start < HoldOpened(R).lastTurn
              /\ HoldOpened(R).lastTurn = Newest(R).ts
<1> DEFINE window == {s \in R : Newest(R).ts - s.ts <= AccrueWindowS /\ InBand(s)}
<1>1. window \subseteq R
  OBVIOUS
<1>2. Newest(R) \in Sample /\ \A r \in R : r.ts <= Newest(R).ts
  BY PartOfRing
<1>3. CASE Cardinality(window) >= MinWindow
  <2>1. window # {} /\ ~\E x : window = {x}
    <3>1. MinWindow \in Nat /\ MinWindow >= 2
      BY DEF MinWindow
    <3> HIDE DEF window
    <3>2. QED
      BY <1>3, <3>1, SeveralAreMoreThanOne
  <2> HIDE DEF window
  <2>2. /\ Oldest(window) \in window /\ Oldest(window) \in Sample
        /\ \A r \in window : Oldest(window).ts <= r.ts
    BY <1>1, <2>1, PartOfRing
  <2>3. PICK s \in window : s # Oldest(window)
    BY <2>1, <2>2
  <2>4. s.ts # Oldest(window).ts
    BY <1>1, <2>2, <2>3 DEF Ring
  <2>5. s.ts \in Nat /\ Oldest(window).ts \in Nat /\ Newest(R).ts \in Nat
    BY <1>1, <1>2, <2>2, <2>3 DEF Ring, Sample
  <2>6. Oldest(window).ts < Newest(R).ts
    BY <1>1, <1>2, <2>2, <2>3, <2>4, <2>5
  <2>7. [start |-> Oldest(window).ts, lastTurn |-> Newest(R).ts] \in Hold
    BY <2>5 DEF Hold
  <2>8. QED
    BY <2>6, <2>7 DEF HoldOpened, Hold, window
<1>4. CASE ~(Cardinality(window) >= MinWindow)
  BY <1>4 DEF HoldOpened, Hold
<1>5. QED
  BY <1>3, <1>4

LEMMA HoldingTypes ==
  ASSUME NEW R, NEW b \in Nat, Ring(R, b), R # {}, NEW hold \in Hold
  PROVE  /\ HoldingCheck(R, hold) \in [found : SUBSET Event, hold : Hold]
         /\ HoldingOnTimeout(R, hold) \subseteq Event
<1>1. CASE hold = Null
  BY <1>1, HoldOpenedTypes DEF HoldingCheck, HoldingOnTimeout
<1>2. CASE hold # Null
  <2>1. hold \in [start : Nat, lastTurn : Nat]
    BY <1>2 DEF Hold
  <2>2. CloseHold(R, hold) \subseteq Event
    BY <2>1, CloseHoldTypes
  <2>3. [hold EXCEPT !.lastTurn = Newest(R).ts] \in Hold
    <3>1. Newest(R).ts \in Nat
      BY PartOfRing DEF Sample
    <3>2. QED
      BY <2>1, <3>1 DEF Hold
  <2>4. Null \in Hold
    BY DEF Hold
  <2>5. CASE Extends(R)
    BY <1>2, <2>2, <2>3, <2>5 DEF HoldingCheck, HoldingOnTimeout
  <2>6. CASE ~Extends(R)
    BY <1>2, <2>2, <2>4, <2>6 DEF HoldingCheck, HoldingOnTimeout
  <2>7. QED
    BY <2>5, <2>6
<1>3. QED
  BY <1>1, <1>2

(* The other detectors find no arrivals.                                   *)
LEMMA OnlyArrivalsArrive ==
  ASSUME NEW R, NEW marks, NEW hold
  PROVE  /\ \A f \in GoAroundCheck(R, marks).found : f.event_type # "arrival"
         /\ \A f \in HoldingCheck(R, hold).found : f.event_type # "arrival"
         /\ \A f \in HoldingOnTimeout(R, hold) : f.event_type # "arrival"
<1>1. \A f \in GoAroundCheck(R, marks).found : f.event_type # "arrival"
  BY DEF GoAroundCheck, GoAroundAt
<1>2. \A f \in CloseHold(R, hold) : f.event_type # "arrival"
  BY DEF CloseHold, HoldingAt
<1>3. \A f \in HoldingOnTimeout(R, hold) : f.event_type # "arrival"
  BY <1>2 DEF HoldingOnTimeout
<1>4. HoldingCheck(R, hold).found \in {{}, CloseHold(R, hold)}
  <2>1. CASE hold = Null
    BY <2>1 DEF HoldingCheck
  <2>2. CASE hold # Null /\ Extends(R)
    BY <2>2 DEF HoldingCheck
  <2>3. CASE hold # Null /\ ~Extends(R) /\ ClosedBy(R, hold)
    BY <2>3 DEF HoldingCheck
  <2>4. CASE hold # Null /\ ~Extends(R) /\ ~ClosedBy(R, hold)
    BY <2>4 DEF HoldingCheck
  <2>5. QED
    BY <2>1, <2>2, <2>3, <2>4
<1>5. QED
  BY <1>1, <1>2, <1>3, <1>4

LEMMA OnlyArrivalsAreConfirmed ==
  ASSUME NEW R, NEW marks, NEW hold
  PROVE  /\ \A f \in GoAroundCheck(R, marks).found : f.confirmation = Null
         /\ \A f \in HoldingCheck(R, hold).found : f.confirmation = Null
         /\ \A f \in HoldingOnTimeout(R, hold) : f.confirmation = Null
<1>1. \A f \in GoAroundCheck(R, marks).found : f.confirmation = Null
  BY DEF GoAroundCheck, GoAroundAt
<1>2. \A f \in CloseHold(R, hold) : f.confirmation = Null
  BY DEF CloseHold, HoldingAt
<1>3. \A f \in HoldingOnTimeout(R, hold) : f.confirmation = Null
  BY <1>2 DEF HoldingOnTimeout
<1>4. HoldingCheck(R, hold).found \in {{}, CloseHold(R, hold)}
  <2>1. CASE hold = Null
    BY <2>1 DEF HoldingCheck
  <2>2. CASE hold # Null /\ Extends(R)
    BY <2>2 DEF HoldingCheck
  <2>3. CASE hold # Null /\ ~Extends(R) /\ ClosedBy(R, hold)
    BY <2>3 DEF HoldingCheck
  <2>4. CASE hold # Null /\ ~Extends(R) /\ ~ClosedBy(R, hold)
    BY <2>4 DEF HoldingCheck
  <2>5. QED
    BY <2>1, <2>2, <2>3, <2>4
<1>5. QED
  BY <1>1, <1>2, <1>3, <1>4

(* An arrival is found at the newest sample; a landing in a window that    *)
(* starts with an airborne one.                                            *)
LEMMA ConfirmedAt ==
  ASSUME NEW R, NEW marks, NEW how, NEW fallback
  PROVE  \A f \in Confirm(R, marks, how, fallback).found :
            /\ f.event_type = "arrival" /\ f.confirmation = how
            /\ f.event_ts = Newest(R).ts /\ f.window_start = WindowStart(R, fallback)
BY DEF Confirm, ArrivalAt

LEMMA LandingWindow ==
  ASSUME NEW R, NEW b \in Nat, Ring(R, b), NEW marks,
         NEW f \in ArrivalCheck(R, marks).found
  PROVE  /\ f.event_type = "arrival" /\ f.event_ts = Newest(R).ts
         /\ Newest(R) \in R /\ Newest(R).onGround
         /\ \E r \in R : ~r.onGround /\ r.ts = f.window_start /\ r.ts < Newest(R).ts
<1> DEFINE airborne == {s \in R : ~s.onGround}
           candidates == {s \in R : IsCandidate(s)}
<1>1. TouchedDown(R) /\ f \in Confirm(R, marks, "on_ground", Newest(airborne)).found
  BY DEF ArrivalCheck
<1>2. /\ f.event_type = "arrival" /\ f.event_ts = Newest(R).ts
      /\ f.window_start = WindowStart(R, Newest(airborne))
  BY <1>1, ConfirmedAt
<1>3. airborne # {} /\ R # {} /\ Newest(R).onGround
  BY <1>1 DEF TouchedDown
<1>4. /\ Newest(R) \in R /\ \A r \in R : r.ts <= Newest(R).ts /\ r.ts \in Nat
      /\ \A r, s \in R : r.ts = s.ts => r = s
  BY <1>3, PartOfRing DEF Ring, Sample
<1>5. \A r \in R : ~r.onGround => r.ts < Newest(R).ts
  BY <1>3, <1>4
<1>6. CASE candidates # {}
  <2>1. Oldest(candidates) \in candidates
    BY <1>6, PartOfRing
  <2>2. f.window_start = Oldest(candidates).ts
    BY <1>2, <1>6 DEF WindowStart
  <2>3. Oldest(candidates) \in R /\ ~Oldest(candidates).onGround
    BY <2>1 DEF IsCandidate
  <2>4. QED
    BY <1>2, <1>3, <1>4, <1>5, <2>2, <2>3
<1>7. CASE candidates = {}
  <2>1. Newest(airborne) \in airborne
    BY <1>3, PartOfRing
  <2>2. f.window_start = Newest(airborne).ts
    BY <1>2, <1>7 DEF WindowStart
  <2>3. QED
    BY <1>2, <1>3, <1>4, <1>5, <2>1, <2>2
<1>8. QED
  BY <1>6, <1>7

LEMMA LostAtNewest ==
  ASSUME NEW R, NEW b \in Nat, Ring(R, b), NEW marks, NEW f \in ArrivalOnTimeout(R, marks)
  PROVE  /\ f.confirmation = "coverage_loss" /\ Newest(R) \in R
         /\ f.event_ts = Newest(R).ts
<1>1. LostOnFinal(R) /\ f \in Confirm(R, marks, "coverage_loss", Newest(R)).found
  BY DEF ArrivalOnTimeout
<1>2. R # {}
  BY <1>1 DEF LostOnFinal
<1>3. QED
  BY <1>1, <1>2, ConfirmedAt, PartOfRing

-----------------------------------------------------------------------------
(* What one iteration leaves and finds, given that its samples are of T:   *)
(* arrivals at the ts of one of them, landings from an airborne one to one *)
(* on the ground that is not older than any ts of past.                    *)
FoundIn(T, past, E) ==
    \A e \in E :
        /\ e.event_type = "arrival" => \E q \in T : q.ts = e.event_ts
        /\ e.confirmation = "on_ground" =>
             /\ e.event_type = "arrival"
             /\ \E r, q \in T : /\ ~r.onGround /\ r.ts = e.window_start
                                /\ q.onGround /\ q.ts = e.event_ts
                                /\ r.ts < q.ts /\ \A t \in past : t <= q.ts

LEMMA TimeoutFinds ==
  ASSUME NEW R, NEW b \in Nat, Ring(R, b), NEW T, R \subseteq T, NEW fl, NEW past
  PROVE  FoundIn(T, past, TimeoutEvents(R, fl))
<1> SUFFICES ASSUME NEW e \in TimeoutEvents(R, fl)
             PROVE  /\ e.event_type = "arrival" => \E q \in T : q.ts = e.event_ts
                    /\ e.confirmation # "on_ground"
  BY DEF FoundIn
<1>1. CASE e \in ArrivalOnTimeout(R, fl.arrival)
  BY <1>1, LostAtNewest
<1>2. CASE e \in HoldingOnTimeout(R, fl.hold)
  BY <1>2, OnlyArrivalsArrive, OnlyArrivalsAreConfirmed, ConfirmationAssumption
<1>3. QED
  BY <1>1, <1>2 DEF TimeoutEvents

LEMMA EmptyState == NoFlags \in Flags
BY DEF NoFlags, NoArrivals, NoGoArounds, Flags, Hold

LEMMA IterateState ==
  ASSUME NEW R, NEW b \in Nat, Ring(R, b), NEW fl \in Flags, NEW s \in Sample, s.ts <= b
  PROVE  /\ Ring(RingAfter(R, s), b) /\ RingAfter(R, s) # {}
         /\ RingAfter(R, s) \subseteq R \cup {s}
         /\ s.ts <= Newest(RingAfter(R, s)).ts
         /\ FlagsBefore(R, fl, s) \in Flags
<1> DEFINE Q == IF GapBefore(R, s) THEN {} ELSE R
<1>1. Ring(Q, b) /\ Q \subseteq R
  BY EmptyRing
<1>2. RingAfter(R, s) = RingWith(Q, s)
  BY DEF RingAfter
<1> HIDE DEF Q
<1>3. /\ Ring(RingWith(Q, s), b) /\ RingWith(Q, s) # {} /\ RingWith(Q, s) \subseteq Q \cup {s}
  BY <1>1, RingWithKeepsRing
<1>4. s.ts <= Newest(RingWith(Q, s)).ts
  BY <1>1, RingWithKeepsNewest
<1>5. FlagsBefore(R, fl, s) \in Flags
  BY EmptyState DEF FlagsBefore
<1>6. QED
  BY <1>1, <1>2, <1>3, <1>4, <1>5

LEMMA IterateTypes ==
  ASSUME NEW R, NEW b \in Nat, Ring(R, b), NEW fl \in Flags, NEW s \in Sample, s.ts <= b
  PROVE  Iterate(R, fl, s).samples = RingAfter(R, s) /\ Iterate(R, fl, s).flags \in Flags
<1> DEFINE now == RingAfter(R, s)
           before == FlagsBefore(R, fl, s)
<1>1. Ring(now, b) /\ now # {} /\ before \in Flags
  BY IterateState
<1>2. before.arrival \in Marks /\ before.goAround \in Marks /\ before.hold \in Hold
  BY <1>1 DEF Flags, Marks
<1> HIDE DEF now, before
<1>3. /\ ArrivalCheck(now, before.arrival).marks \in Marks
      /\ GoAroundCheck(now, before.goAround).marks \in Marks
      /\ HoldingCheck(now, before.hold).hold \in Hold
  BY <1>1, <1>2, ArrivalTypes, GoAroundTypes, HoldingTypes
<1>4. Iterate(R, fl, s).samples = now
  BY DEF Iterate, now
<1>5. Iterate(R, fl, s).flags = [arrival  |-> ArrivalCheck(now, before.arrival).marks,
                                 goAround |-> GoAroundCheck(now, before.goAround).marks,
                                 hold     |-> HoldingCheck(now, before.hold).hold]
  BY DEF Iterate, now, before
<1>6. QED
  BY <1>3, <1>4, <1>5 DEF Flags, Marks, now

LEMMA IterateFinds ==
  ASSUME NEW R, NEW b \in Nat, Ring(R, b), NEW fl \in Flags, NEW s \in Sample, s.ts <= b,
         NEW T, R \subseteq T, s \in T, NEW past, past \subseteq Nat, \A t \in past : t <= s.ts
  PROVE  FoundIn(T, past, Iterate(R, fl, s).lost \cup Iterate(R, fl, s).found)
<1> DEFINE now == RingAfter(R, s)
           before == FlagsBefore(R, fl, s)
           lost == IF GapBefore(R, s) THEN TimeoutEvents(R, fl) ELSE {}
           found == ArrivalCheck(now, before.arrival).found
                    \cup HoldingCheck(now, before.hold).found
                    \cup GoAroundCheck(now, before.goAround).found
<1>1. Iterate(R, fl, s).lost = lost /\ Iterate(R, fl, s).found = found
  BY DEF Iterate
<1>2. FoundIn(T, past, lost)
  BY TimeoutFinds DEF FoundIn
<1>3. /\ Ring(now, b) /\ now # {} /\ now \subseteq T /\ s.ts <= Newest(now).ts
  BY IterateState
<1> HIDE DEF now, before
<1>4. ASSUME NEW e \in ArrivalCheck(now, before.arrival).found
      PROVE  /\ \E q \in T : q.ts = e.event_ts
             /\ e.event_type = "arrival"
             /\ \E r, q \in T : /\ ~r.onGround /\ r.ts = e.window_start
                                /\ q.onGround /\ q.ts = e.event_ts
                                /\ r.ts < q.ts /\ \A t \in past : t <= q.ts
  <2>1. /\ e.event_type = "arrival" /\ e.event_ts = Newest(now).ts
        /\ Newest(now) \in now /\ Newest(now).onGround
        /\ \E r \in now : ~r.onGround /\ r.ts = e.window_start /\ r.ts < Newest(now).ts
    BY <1>3, <1>4, LandingWindow
  <2>2. Newest(now).ts \in Nat /\ s.ts \in Nat
    BY <1>3, <2>1 DEF Ring, Sample
  <2>3. \A t \in past : t <= Newest(now).ts
    BY <1>3, <2>2
  <2>4. QED
    BY <1>3, <2>1, <2>3
<1>5. ASSUME NEW e \in HoldingCheck(now, before.hold).found
                       \cup GoAroundCheck(now, before.goAround).found
      PROVE  e.event_type # "arrival" /\ e.confirmation # "on_ground"
  BY <1>5, OnlyArrivalsArrive, OnlyArrivalsAreConfirmed, ConfirmationAssumption
<1>6. FoundIn(T, past, found)
  BY <1>4, <1>5 DEF FoundIn
<1> HIDE DEF lost, found
<1>7. QED
  BY <1>1, <1>2, <1>6 DEF FoundIn

=============================================================================
