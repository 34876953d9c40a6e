-------------------------- MODULE ScanServiceProofs --------------------------
(***************************************************************************)
(* Theorems about ScanService: its types, that a stop takes hold, that     *)
(* scan:done counts every row, and that it implements ScanLifecycle; and   *)
(* about ScanPanel, the service with its frontend: that the panel of a     *)
(* scan that is done lists each of its pairs once.                         *)
(***************************************************************************)
EXTENDS ScanPanel, FiniteSetTheorems, TLAPS

(***************************************************************************)
(* The inductive invariant: the shape of the variables and, of each scan,  *)
(* what run knows at each phase, what a stop has frozen, how the pairs     *)
(* follow the dispatch loop, what the counters count, and why a scan that  *)
(* was not cancelled has reported all there is.                            *)
(***************************************************************************)
Counted(s)  == {p \in Pairs : probe[s][p] = "kept"} \cup reported[s]
Completed(s) == {p \in reported[s] : probe[s][p] = "over"}

Shape ==
  /\ request \in [Scans -> Requests]
  /\ phase \in [Scans -> Phases]
  /\ slot \in [Scans -> {"none", "held", "checked"}]
  /\ next \in [Scans -> 1..MaxPairs + 1]
  /\ probe \in [Scans -> [Pairs -> {"none", "dialing", "kept", "reported", "over"}]]
  /\ tally \in [Scans -> Nat] /\ finished \in [Scans -> Nat]
  /\ ticker \subseteq Scans /\ ticksLeft \in [Scans -> 0..MaxTicks]
  /\ registered \subseteq Scans /\ cancelled \subseteq Scans
  /\ queue \in Seq(ScanEvent)
  /\ reported \in [Scans -> SUBSET Pairs]
  /\ outcome \in [Scans -> Outcomes]
  /\ stopped \subseteq Scans
  /\ atStop \in [Scans -> [next : 0..MaxPairs + 1, accepted : SUBSET Pairs]]

PhaseInv(s) ==
  /\ s \in registered <=> phase[s] \notin {"new", "rejected", "gone"}
  /\ outcome[s] = "none" <=> phase[s] \notin {"over", "gone"}
  /\ phase[s] \in {"sweeping", "waiting", "cancelling", "completing"} => request[s] \in Pairs
  /\ phase[s] \in {"new", "rejected", "launched"} => next[s] = 1
  /\ phase[s] # "new" => request[s] # NotAsked
  /\ slot[s] # "none" => phase[s] = "sweeping" /\ next[s] <= Total(s)
  /\ next[s] <= Total(s) + 1

StopInv(s) ==
  /\ s \in stopped => s \in cancelled /\ phase[s] \notin {"new", "rejected"}
  /\ s \in cancelled /\ phase[s] # "gone" => s \in stopped
  /\ phase[s] = "cancelling" => s \in cancelled
  /\ s \in stopped => /\ next[s] <= atStop[s].next + 1
                      /\ slot[s] = "checked" => next[s] <= atStop[s].next
                      /\ Counted(s) \subseteq atStop[s].accepted

ProbeInv(s) ==
  /\ \A p \in Pairs : probe[s][p] = "none" <=> next[s] <= p
  /\ \A p \in reported[s] : probe[s][p] \in {"reported", "over"}
  /\ \A p \in Pairs : probe[s][p] = "reported" => p \in reported[s]
  /\ Closed(s) => Busy(s) = {}

CountInv(s) ==
  /\ tally[s] = Cardinality(Counted(s))
  /\ finished[s] = Cardinality(Completed(s))

DoneInv(s) ==
  /\ s \notin cancelled => \A p \in Pairs : probe[s][p] = "over" => p \in reported[s]
  /\ phase[s] = "waiting" /\ s \notin cancelled => next[s] = Total(s) + 1
  /\ phase[s] = "completing" \/ outcome[s] = "done" =>
        reported[s] = 1..Total(s) /\ request[s] \in Pairs

ScanInv(s) == PhaseInv(s) /\ StopInv(s) /\ ProbeInv(s) /\ CountInv(s) /\ DoneInv(s)
IInv == Shape /\ \A s \in Scans : ScanInv(s)

-----------------------------------------------------------------------------
(* A scan has between none and MaxPairs pairs. *)
LEMMA TotalFacts ==
  ASSUME Shape, NEW s \in Scans
  PROVE  /\ Total(s) \in 0..MaxPairs
         /\ request[s] \in Pairs => Total(s) = request[s] /\ Total(s) >= 1
         /\ request[s] = BadTargets => Total(s) = 0
BY ScanAssumption DEF Shape, Total, Pairs, Requests

(* A set of the first n pairs is finite and has at most n members. *)
LEMMA CountBound ==
  ASSUME NEW n \in Nat, NEW S, S \subseteq 1..n
  PROVE  IsFiniteSet(S) /\ Cardinality(S) \in Nat /\ Cardinality(S) <= n
<1>1. IsFiniteSet(1..n) /\ Cardinality(1..n) = n
  BY FS_Interval
<1>2. IsFiniteSet(S) /\ Cardinality(S) <= Cardinality(1..n)
  BY <1>1, FS_Subset
<1> QED BY <1>1, <1>2, FS_CardinalityType

(* The sets the counters count are finite. *)
LEMMA CountedFinite ==
  ASSUME Shape, NEW s \in Scans
  PROVE  /\ IsFiniteSet(Counted(s)) /\ Cardinality(Counted(s)) \in Nat
         /\ IsFiniteSet(Completed(s)) /\ Cardinality(Completed(s)) \in Nat
<1>1. Counted(s) \subseteq 1..MaxPairs /\ Completed(s) \subseteq 1..MaxPairs
  BY DEF Shape, Counted, Completed, Pairs
<1> QED BY <1>1, CountBound, ScanAssumption

(* The pairs that count were dispatched, and the completed ones count. *)
LEMMA CountsInOrder ==
  ASSUME IInv, NEW s \in Scans
  PROVE  /\ tally[s] \in 0..MaxPairs /\ finished[s] \in 0..MaxPairs
         /\ finished[s] <= tally[s] /\ tally[s] < next[s]
<1>0. Shape /\ ScanInv(s)
  BY DEF IInv
<1>1. next[s] \in Nat /\ 1 <= next[s] /\ next[s] <= MaxPairs + 1
  BY <1>0, ScanAssumption DEF Shape
<1>2. Counted(s) \subseteq 1..(next[s] - 1)
  <2>1. ASSUME NEW p \in Counted(s) PROVE p \in Pairs /\ probe[s][p] # "none"
    BY <1>0, <2>1 DEF Shape, ScanInv, ProbeInv, Counted
  <2>2. ASSUME NEW p \in Counted(s) PROVE p \in Nat /\ 1 <= p /\ p < next[s]
    BY <1>0, <1>1, <2>1, ScanAssumption DEF ScanInv, ProbeInv, Pairs
  <2> QED BY <1>1, <2>2
<1>3. Completed(s) \subseteq Counted(s)
  BY DEF Completed, Counted
<1>4. Cardinality(Counted(s)) <= next[s] - 1
  BY <1>1, <1>2, CountBound
<1>5. Cardinality(Completed(s)) <= Cardinality(Counted(s))
  BY <1>0, <1>3, CountedFinite, FS_Subset
<1> QED BY <1>0, <1>1, <1>4, <1>5, CountedFinite, ScanAssumption DEF ScanInv, CountInv

LEMMA TypeFollows == IInv => TypeOK
<1> SUFFICES ASSUME IInv PROVE TypeOK OBVIOUS
<1>1. \A s \in Scans : /\ tally[s] \in 0..MaxPairs /\ finished[s] \in 0..MaxPairs
                       /\ finished[s] <= tally[s] /\ tally[s] < next[s]
  BY CountsInOrder
<1>2. tally \in [Scans -> 0..MaxPairs] /\ finished \in [Scans -> 0..MaxPairs]
  BY <1>1 DEF IInv, Shape
<1> QED BY <1>1, <1>2 DEF IInv, Shape, TypeOK

-----------------------------------------------------------------------------
LEMMA InitIInv == Init => IInv
<1> SUFFICES ASSUME Init PROVE IInv OBVIOUS
<1>1. Shape
  <2>1. request \in [Scans -> Requests] /\ ticksLeft \in [Scans -> 0..MaxTicks]
    BY ScanAssumption DEF Init
  <2>2. queue \in Seq(ScanEvent)
    BY DEF Init
  <2> QED BY <2>1, <2>2, ScanAssumption DEF Init, Shape, Phases, Outcomes
<1>2. ASSUME NEW s \in Scans PROVE ScanInv(s)
  <2>1. /\ phase[s] = "new" /\ slot[s] = "none" /\ next[s] = 1 /\ outcome[s] = "none"
        /\ tally[s] = 0 /\ finished[s] = 0 /\ reported[s] = {}
        /\ \A p \in Pairs : probe[s][p] = "none"
        /\ registered = {} /\ cancelled = {} /\ stopped = {}
    BY DEF Init
  <2>2. Counted(s) = {} /\ Completed(s) = {}
    BY <2>1 DEF Counted, Completed
  <2>3. CountInv(s)
    BY <2>1, <2>2, FS_EmptySet DEF CountInv
  <2>4. PhaseInv(s)
    BY <1>1, <2>1, TotalFacts DEF PhaseInv
  <2>5. ProbeInv(s)
    BY <2>1, ScanAssumption DEF ProbeInv, Pairs, Closed
  <2> QED BY <2>1, <2>3, <2>4, <2>5 DEF ScanInv, StopInv, DoneInv
<1> QED BY <1>1, <1>2 DEF IInv
-----------------------------------------------------------------------------
(* What the actions of one scan leave of another.                          *)
Same(t) ==
  /\ request'[t] = request[t] /\ phase'[t] = phase[t] /\ slot'[t] = slot[t]
  /\ next'[t] = next[t] /\ probe'[t] = probe[t]
  /\ tally'[t] = tally[t] /\ finished'[t] = finished[t]
  /\ (t \in registered' <=> t \in registered) /\ (t \in cancelled' <=> t \in cancelled)
  /\ reported'[t] = reported[t] /\ outcome'[t] = outcome[t]
  /\ (t \in stopped' <=> t \in stopped) /\ atStop'[t] = atStop[t]

LEMMA SameKeeps ==
  ASSUME NEW t \in Scans, ScanInv(t), Same(t)
  PROVE  ScanInv(t)'
<1>1. /\ Counted(t)' = Counted(t) /\ Completed(t)' = Completed(t)
      /\ Total(t)' = Total(t) /\ (Closed(t)' <=> Closed(t)) /\ Busy(t)' = Busy(t)
  BY DEF Same, Counted, Completed, Total, Closed, Busy
<1>2. PhaseInv(t)'
  BY <1>1 DEF Same, ScanInv, PhaseInv
<1>3. StopInv(t)'
  BY <1>1 DEF Same, ScanInv, StopInv
<1>4. ProbeInv(t)'
  BY <1>1 DEF Same, ScanInv, ProbeInv
<1>5. CountInv(t)'
  BY <1>1 DEF Same, ScanInv, CountInv
<1>6. DoneInv(t)'
  BY <1>1 DEF Same, ScanInv, DoneInv
<1> QED BY <1>2, <1>3, <1>4, <1>5, <1>6 DEF ScanInv

LEMMA OthersKeep ==
  ASSUME Shape, NEW s \in Scans, ScanStep(s), NEW t \in Scans \ {s}
  PROVE  Same(t)
<1> USE DEF Shape, Same, sweepVars, pastVars
<1>1. CASE Start(s)
  BY <1>1 DEF Start
<1>2. CASE Stop(s)
  BY <1>2 DEF Stop
<1>3. CASE BuildTargets(s)
  BY <1>3 DEF BuildTargets
<1>4. CASE Acquire(s) \/ CheckSlot(s) \/ Dispatch(s) \/ SweepEnds(s) \/ Join(s)
  BY <1>4 DEF Acquire, CheckSlot, Dispatch, SweepEnds, Join
<1>5. CASE EmitTerminal(s)
  BY <1>5 DEF EmitTerminal
<1>6. CASE Unregister(s)
  BY <1>6 DEF Unregister
<1>7. ASSUME NEW p \in Pairs, ProbeStep(s, p) PROVE Same(t)
  BY <1>7 DEF ProbeStep, Resolve, Report, Finish
<1>8. CASE Tick(s) \/ StopTicker(s)
  BY <1>8 DEF Tick, StopTicker
<1> QED BY <1>1, <1>2, <1>3, <1>4, <1>5, <1>6, <1>7, <1>8 DEF ScanStep, RunStep

(* An emitted event is one of those the panel knows. *)
LEMMA EmitTyped ==
  ASSUME Shape, NEW s \in Scans, NEW p \in 0..MaxPairs, NEW n \in 0..MaxPairs,
         NEW m \in 0..MaxPairs,
         NEW kind \in {"host", "progress", "done", "error", "cancelled"},
         Emit(kind, s, p, n, m)
  PROVE  queue' \in Seq(ScanEvent)
<1>1. [kind |-> kind, scan |-> s, pair |-> p, done |-> n, total |-> m] \in ScanEvent
  BY DEF ScanEvent
<1> QED BY <1>1 DEF Emit, Shape

(* The shape is kept by every step. *)
LEMMA ShapeStep ==
  ASSUME IInv, NEW s \in Scans, ScanStep(s)
  PROVE  Shape'
<1>0. Shape /\ ScanInv(s)
  BY DEF IInv
<1>a. /\ Total(s) \in 0..MaxPairs /\ tally[s] \in 0..MaxPairs /\ finished[s] \in 0..MaxPairs
      /\ Total(s) \in Nat /\ 0 \in 0..MaxPairs /\ \A p \in Pairs : p \in 0..MaxPairs
  BY <1>0, TotalFacts, CountsInOrder, ScanAssumption DEF Pairs
<1>b. \A u \in Scans : next[u] \in Nat
  BY <1>0, ScanAssumption DEF Shape
<1> USE DEF sweepVars, pastVars
<1>1. CASE Start(s)
  BY <1>0, <1>1 DEF Start, Shape, Phases
<1>2. CASE Stop(s)
  <2>1. next[s] \in 0..MaxPairs + 1 /\ Accepted(s) \in SUBSET Pairs
    BY <1>0, ScanAssumption DEF Shape, Accepted
  <2>2. [next |-> next[s], accepted |-> Accepted(s)]
          \in [next : 0..MaxPairs + 1, accepted : SUBSET Pairs]
    BY <2>1
  <2>3. atStop' \in [Scans -> [next : 0..MaxPairs + 1, accepted : SUBSET Pairs]]
    BY <1>0, <1>2, <2>2 DEF Stop, Shape
  <2> QED BY <1>0, <1>2, <2>3 DEF Stop, Shape
<1>3. CASE BuildTargets(s)
  <2>1. queue' \in Seq(ScanEvent)
    BY <1>0, <1>a, <1>3, EmitTyped DEF BuildTargets, Shape
  <2> QED BY <1>0, <1>3, <2>1 DEF BuildTargets, Shape, Phases, Outcomes
<1>4. CASE Acquire(s) \/ CheckSlot(s) \/ SweepEnds(s) \/ Join(s)
  BY <1>0, <1>4 DEF Acquire, CheckSlot, SweepEnds, Join, Shape, Phases
<1>5. CASE Dispatch(s)
  <2>1. next[s] \in Nat /\ 1 <= next[s] /\ next[s] <= MaxPairs
    BY <1>0, <1>a, <1>5, ScanAssumption DEF Dispatch, ScanInv, PhaseInv, Shape
  <2>2. next[s] + 1 \in 1..MaxPairs + 1
    BY <2>1, ScanAssumption
  <2>3. next' \in [Scans -> 1..MaxPairs + 1]
    BY <1>0, <1>5, <2>2 DEF Dispatch, Shape
  <2> QED BY <1>0, <1>5, <2>3 DEF Dispatch, Shape
<1>6. CASE EmitTerminal(s)
  <2>1. queue' \in Seq(ScanEvent)
    BY <1>0, <1>a, <1>6, EmitTyped DEF EmitTerminal, Shape
  <2> QED BY <1>0, <1>6, <2>1 DEF EmitTerminal, Shape, Phases, Outcomes
<1>7. CASE Unregister(s)
  BY <1>0, <1>7 DEF Unregister, Shape, Phases
<1>8. ASSUME NEW p \in Pairs, Resolve(s, p) PROVE Shape'
  <2>1. tally' \in [Scans -> Nat]
    BY <1>0, <1>8 DEF Resolve, Shape
  <2>2. probe' \in [Scans -> [Pairs -> {"none", "dialing", "kept", "reported", "over"}]]
    <3>1. PICK where \in {"kept", "over"} : probe' = [probe EXCEPT ![s][p] = where]
      BY <1>8 DEF Resolve
    <3> QED BY <1>0, <3>1 DEF Shape
  <2> QED BY <1>0, <1>8, <2>1, <2>2 DEF Resolve, Shape
<1>9. ASSUME NEW p \in Pairs, Report(s, p) PROVE Shape'
  <2>1. queue' \in Seq(ScanEvent)
    BY <1>0, <1>a, <1>9, EmitTyped DEF Report
  <2> QED BY <1>0, <1>9, <2>1 DEF Report, Shape
<1>10. ASSUME NEW p \in Pairs, Finish(s, p) PROVE Shape'
  <2>1. finished' \in [Scans -> Nat]
    BY <1>0, <1>10 DEF Finish, Shape
  <2> QED BY <1>0, <1>10, <2>1 DEF Finish, Shape
<1>11. CASE Tick(s)
  <2>1. queue' \in Seq(ScanEvent)
    BY <1>0, <1>a, <1>11, EmitTyped DEF Tick
  <2>2. ticksLeft' \in [Scans -> 0..MaxTicks]
    BY <1>0, <1>11, ScanAssumption DEF Tick, Shape
  <2> QED BY <1>0, <1>11, <2>1, <2>2 DEF Tick, Shape
<1>12. CASE StopTicker(s)
  BY <1>0, <1>12 DEF StopTicker, Shape
<1> QED BY <1>1, <1>2, <1>3, <1>4, <1>5, <1>6, <1>7, <1>8, <1>9, <1>10, <1>11, <1>12
        DEF ScanStep, RunStep, ProbeStep

-----------------------------------------------------------------------------
(* Nothing but a probe's own steps changes what the counters count.        *)
LEMMA CountKept ==
  ASSUME NEW s \in Scans, ScanInv(s), probe'[s] = probe[s], reported'[s] = reported[s],
         tally'[s] = tally[s], finished'[s] = finished[s]
  PROVE  /\ Counted(s)' = Counted(s) /\ Completed(s)' = Completed(s)
         /\ Busy(s)' = Busy(s) /\ CountInv(s)'
<1>1. Counted(s)' = Counted(s) /\ Completed(s)' = Completed(s) /\ Busy(s)' = Busy(s)
  BY DEF Counted, Completed, Busy
<1> QED BY <1>1 DEF ScanInv, CountInv

(* The actions of run, Start, Stop and the ticker keep the invariant. *)
LEMMA RunKeeps ==
  ASSUME IInv, NEW s \in Scans,
         Start(s) \/ Stop(s) \/ RunStep(s) \/ Tick(s) \/ StopTicker(s), ~Dispatch(s)
  PROVE  ScanInv(s)'
<1>0. Shape /\ ScanInv(s)
  BY DEF IInv
<1>a. /\ Total(s) \in Nat /\ next[s] \in Nat /\ 1 <= next[s]
      /\ request[s] \in Pairs => Total(s) = request[s] /\ Total(s) >= 1
  BY <1>0, TotalFacts, ScanAssumption DEF Shape
<1> USE DEF sweepVars, pastVars
<1>b. /\ request' = request /\ next' = next /\ probe' = probe /\ reported' = reported
      /\ tally' = tally /\ finished' = finished
  BY DEF Start, Stop, RunStep, BuildTargets, Acquire, CheckSlot, SweepEnds, Join, EmitTerminal,
         Unregister, Tick, StopTicker
<1>c. /\ Counted(s)' = Counted(s) /\ Busy(s)' = Busy(s) /\ CountInv(s)'
  BY <1>0, <1>b, CountKept
<1>d. Total(s)' = Total(s)
  BY <1>b DEF Total
<1>1. CASE Start(s)
  <2>1. PhaseInv(s)'
    BY <1>0, <1>b, <1>d, <1>1 DEF Start, Shape, ScanInv, PhaseInv
  <2>2. StopInv(s)'
    BY <1>0, <1>b, <1>c, <1>1 DEF Start, Shape, ScanInv, PhaseInv, StopInv
  <2>3. ProbeInv(s)'
    BY <1>0, <1>b, <1>c, <1>1 DEF Start, Shape, ScanInv, ProbeInv, Closed
  <2>4. DoneInv(s)'
    BY <1>0, <1>b, <1>d, <1>1 DEF Start, Shape, ScanInv, PhaseInv, DoneInv
  <2> QED BY <1>c, <2>1, <2>2, <2>3, <2>4 DEF ScanInv
<1>2. CASE Stop(s)
  <2>0. /\ phase' = phase /\ slot' = slot /\ outcome' = outcome /\ registered' = registered
        /\ s \in registered /\ cancelled' = cancelled \cup {s} /\ stopped' = stopped \cup {s}
    BY <1>2 DEF Stop
  <2>1. PhaseInv(s)'
    BY <1>0, <1>b, <1>d, <2>0 DEF ScanInv, PhaseInv
  <2>2. ProbeInv(s)'
    BY <1>0, <1>b, <1>c, <2>0 DEF ScanInv, ProbeInv, Closed
  <2>3. DoneInv(s)'
    BY <1>0, <1>b, <1>d, <2>0 DEF ScanInv, DoneInv
  <2>4. /\ next[s] <= atStop'[s].next + 1
        /\ slot[s] = "checked" => next[s] <= atStop'[s].next
        /\ Counted(s) \subseteq atStop'[s].accepted
    <3>1. CASE s \in stopped
      BY <1>0, <1>2, <3>1 DEF Stop, ScanInv, StopInv
    <3>2. CASE s \notin stopped
      <4>1. atStop'[s].next = next[s] /\ atStop'[s].accepted = Accepted(s)
        BY <1>0, <1>2, <3>2 DEF Stop, Shape
      <4>2. Counted(s) \subseteq Accepted(s)
        BY <1>0 DEF Shape, ScanInv, ProbeInv, Counted, Accepted
      <4> QED BY <1>a, <4>1, <4>2
    <3> QED BY <3>1, <3>2
  <2>5. StopInv(s)'
    BY <1>0, <1>b, <1>c, <2>0, <2>4 DEF ScanInv, PhaseInv, StopInv
  <2> QED BY <1>c, <2>1, <2>2, <2>3, <2>5 DEF ScanInv
<1>3. CASE BuildTargets(s)
  <2>0. next[s] = 1 /\ reported[s] = {} /\ Busy(s) = {}
    <3>1. next[s] = 1
      BY <1>0, <1>3 DEF BuildTargets, ScanInv, PhaseInv
    <3>2. \A p \in Pairs : probe[s][p] = "none"
      BY <1>0, <3>1, ScanAssumption DEF ScanInv, ProbeInv, Pairs
    <3>3. reported[s] = {}
      BY <1>0, <3>2 DEF ScanInv, ProbeInv, Shape
    <3> QED BY <3>1, <3>2, <3>3 DEF Busy
  <2>1. request[s] # BadTargets => request[s] \in Pairs
    <3>1. request[s] # NotAsked
      BY <1>0, <1>3 DEF BuildTargets, ScanInv, PhaseInv
    <3> QED BY <1>0, <3>1 DEF Shape, Requests
  <2>2. PhaseInv(s)'
    BY <1>0, <1>a, <1>b, <1>d, <1>3, <2>0, <2>1 DEF BuildTargets, Shape, ScanInv, PhaseInv
  <2>3. StopInv(s)'
    BY <1>0, <1>b, <1>c, <1>3 DEF BuildTargets, Shape, ScanInv, StopInv
  <2>4. ProbeInv(s)'
    BY <1>0, <1>b, <1>c, <2>0 DEF ScanInv, ProbeInv, Closed
  <2>5. DoneInv(s)'
    BY <1>0, <1>b, <1>d, <1>3 DEF BuildTargets, Shape, ScanInv, PhaseInv, DoneInv
  <2> QED BY <1>c, <2>2, <2>3, <2>4, <2>5 DEF ScanInv
<1>4. CASE Acquire(s) \/ CheckSlot(s) \/ SweepEnds(s)
  <2>1. PhaseInv(s)'
    BY <1>0, <1>b, <1>d, <1>4 DEF Acquire, CheckSlot, SweepEnds, Shape, ScanInv, PhaseInv
  <2>2. StopInv(s)'
    BY <1>0, <1>b, <1>c, <1>4 DEF Acquire, CheckSlot, SweepEnds, Shape, ScanInv, StopInv
  <2>3. ProbeInv(s)'
    BY <1>0, <1>b, <1>c, <1>4 DEF Acquire, CheckSlot, SweepEnds, Shape, ScanInv, ProbeInv, Closed
  <2>4. DoneInv(s)'
    BY <1>0, <1>a, <1>b, <1>d, <1>4
       DEF Acquire, CheckSlot, SweepEnds, Shape, ScanInv, PhaseInv, DoneInv
  <2> QED BY <1>c, <2>1, <2>2, <2>3, <2>4 DEF ScanInv
<1>5. CASE Join(s)
  <2>1. PhaseInv(s)'
    BY <1>0, <1>b, <1>d, <1>5 DEF Join, Shape, ScanInv, PhaseInv
  <2>2. StopInv(s)'
    BY <1>0, <1>b, <1>c, <1>5 DEF Join, Shape, ScanInv, StopInv
  <2>3. ProbeInv(s)'
    BY <1>0, <1>b, <1>c, <1>5 DEF Join, Shape, ScanInv, ProbeInv, Closed
  <2>4. s \notin cancelled => reported[s] = 1..Total(s) /\ request[s] \in Pairs
    <3> SUFFICES ASSUME s \notin cancelled
                 PROVE  reported[s] = 1..Total(s) /\ request[s] \in Pairs
      OBVIOUS
    <3>1. phase[s] = "waiting" /\ Busy(s) = {}
      BY <1>5 DEF Join
    <3>2. next[s] = Total(s) + 1 /\ request[s] \in Pairs
      BY <1>0, <3>1 DEF ScanInv, PhaseInv, DoneInv
    <3>3. \A p \in Pairs : probe[s][p] \in {"none", "over"}
      BY <1>0, <3>1 DEF Shape, Busy
    <3>4. \A p \in Pairs : p \in reported[s] <=> p < next[s]
      <4>1. \A p \in Pairs : p \in reported[s] <=> probe[s][p] = "over"
        BY <1>0, <3>3 DEF ScanInv, ProbeInv, DoneInv
      <4>2. \A p \in Pairs : probe[s][p] = "over" <=> p < next[s]
        BY <1>0, <1>a, <3>3, ScanAssumption DEF ScanInv, ProbeInv, Pairs
      <4> QED BY <4>1, <4>2
    <3>5. reported[s] \subseteq Pairs /\ 1..Total(s) \subseteq Pairs
      BY <1>0, <1>a, <3>2, ScanAssumption DEF Shape, Pairs
    <3>6. \A p \in Pairs : p < next[s] <=> p \in 1..Total(s)
      BY <1>a, <3>2, ScanAssumption DEF Pairs
    <3> QED BY <3>2, <3>4, <3>5, <3>6
  <2>5. DoneInv(s)'
    BY <1>0, <1>b, <1>d, <1>5, <2>4 DEF Join, Shape, ScanInv, PhaseInv, DoneInv
  <2> QED BY <1>c, <2>1, <2>2, <2>3, <2>5 DEF ScanInv
<1>6. CASE EmitTerminal(s) \/ Unregister(s)
  <2>1. PhaseInv(s)'
    BY <1>0, <1>b, <1>d, <1>6 DEF EmitTerminal, Unregister, Shape, ScanInv, PhaseInv
  <2>2. StopInv(s)'
    BY <1>0, <1>b, <1>c, <1>6 DEF EmitTerminal, Unregister, Shape, ScanInv, StopInv
  <2>3. ProbeInv(s)'
    BY <1>0, <1>b, <1>c, <1>6 DEF EmitTerminal, Unregister, Shape, ScanInv, ProbeInv, Closed
  <2>4. DoneInv(s)'
    BY <1>0, <1>b, <1>d, <1>6 DEF EmitTerminal, Unregister, Shape, ScanInv, PhaseInv, DoneInv
  <2> QED BY <1>c, <2>1, <2>2, <2>3, <2>4 DEF ScanInv
<1>7. CASE Tick(s) \/ StopTicker(s)
  <2>1. Same(s)
    BY <1>7 DEF Tick, StopTicker, Same
  <2> QED BY <1>0, <2>1, SameKeeps DEF ScanInv
<1> QED BY <1>c, <1>1, <1>2, <1>3, <1>4, <1>5, <1>6, <1>7 DEF RunStep, ScanInv

(* So does the launch of a probe: the pair it launches is the next one. *)
LEMMA DispatchKeeps ==
  ASSUME IInv, NEW s \in Scans, Dispatch(s)
  PROVE  ScanInv(s)'
<1>0. Shape /\ ScanInv(s)
  BY DEF IInv
<1> DEFINE p == next[s]
<1>1. /\ phase[s] = "sweeping" /\ slot[s] = "checked" /\ p \in Pairs /\ p <= Total(s)
      /\ Total(s) \in Nat /\ p \in Nat
  BY <1>0, TotalFacts, ScanAssumption DEF Dispatch, Shape, ScanInv, PhaseInv, Pairs
<1>2. probe[s][p] = "none" /\ p \notin reported[s]
  BY <1>0, <1>1 DEF ScanInv, ProbeInv
<1> USE DEF sweepVars, pastVars
<1>3. /\ slot'[s] = "none" /\ next'[s] = p + 1 /\ probe'[s] = [probe[s] EXCEPT ![p] = "dialing"]
      /\ phase' = phase /\ outcome' = outcome /\ registered' = registered /\ request' = request
      /\ cancelled' = cancelled /\ stopped' = stopped /\ atStop' = atStop /\ reported' = reported
      /\ tally' = tally /\ finished' = finished
  BY <1>0 DEF Dispatch, Shape
<1>4. \A q \in Pairs : probe'[s][q] = IF q = p THEN "dialing" ELSE probe[s][q]
  BY <1>0, <1>1, <1>3 DEF Shape
<1>5. Counted(s)' = Counted(s) /\ Completed(s)' = Completed(s) /\ Total(s)' = Total(s)
  <2>1. reported[s] \subseteq Pairs
    BY <1>0 DEF Shape
  <2> QED BY <1>2, <1>3, <1>4, <2>1 DEF Counted, Completed, Total
<1> HIDE DEF p
<1>6. PhaseInv(s)'
  BY <1>0, <1>1, <1>3, <1>5 DEF ScanInv, PhaseInv
<1>7. StopInv(s)'
  <2>1. s \in stopped => atStop[s].next \in Nat
    BY <1>0, ScanAssumption DEF Shape
  <2> QED BY <1>0, <1>1, <1>3, <1>5, <2>1 DEF ScanInv, StopInv, p
<1>8. ProbeInv(s)'
  <2>1. \A q \in Pairs : probe'[s][q] = "none" <=> next'[s] <= q
    BY <1>0, <1>1, <1>3, <1>4, ScanAssumption DEF ScanInv, ProbeInv, Pairs, p
  <2> QED BY <1>0, <1>1, <1>2, <1>3, <1>4, <2>1 DEF Shape, ScanInv, ProbeInv, Closed
<1>9. CountInv(s)'
  BY <1>0, <1>3, <1>5 DEF ScanInv, CountInv
<1>10. DoneInv(s)'
  BY <1>0, <1>1, <1>3, <1>4, <1>5 DEF ScanInv, DoneInv, PhaseInv
<1> QED BY <1>6, <1>7, <1>8, <1>9, <1>10 DEF ScanInv

(* The steps of a probe: its row counts once, first as kept, then as reported. *)
LEMMA ProbeKeeps ==
  ASSUME IInv, NEW s \in Scans, NEW p \in Pairs, ProbeStep(s, p)
  PROVE  ScanInv(s)'
<1>0. Shape /\ ScanInv(s)
  BY DEF IInv
<1>a. /\ Total(s)' = Total(s) /\ (Closed(s)' <=> Closed(s))
      /\ request' = request /\ phase' = phase /\ slot' = slot /\ next' = next
      /\ outcome' = outcome /\ registered' = registered /\ cancelled' = cancelled
      /\ stopped' = stopped /\ atStop' = atStop
  BY DEF ProbeStep, Resolve, Report, Finish, Total, Closed, pastVars
<1>b. p \in Busy(s) /\ ~Closed(s)
  <2>1. p \in Busy(s)
    BY DEF ProbeStep, Resolve, Report, Finish, Busy
  <2> QED BY <1>0, <2>1 DEF ScanInv, ProbeInv
<1>c. PhaseInv(s)'
  BY <1>0, <1>a DEF ScanInv, PhaseInv
<1>d. outcome[s] # "done" /\ phase[s] # "completing"
  BY <1>0, <1>b DEF ScanInv, PhaseInv, Closed
<1>e. /\ IsFiniteSet(Counted(s)) /\ IsFiniteSet(Completed(s))
      /\ Cardinality(Counted(s)) \in Nat /\ Cardinality(Completed(s)) \in Nat
  BY <1>0, CountedFinite
<1>f. reported[s] \subseteq Pairs
  BY <1>0 DEF Shape
<1> USE DEF sweepVars, pastVars
<1>1. CASE Resolve(s, p)
  <2>0. probe[s][p] = "dialing" /\ p \notin reported[s] /\ reported' = reported /\ finished' = finished
    BY <1>0, <1>1 DEF Resolve, ScanInv, ProbeInv
  <2>1. CASE s \in cancelled
    <3>1. /\ \A q \in Pairs : probe'[s][q] = IF q = p THEN "over" ELSE probe[s][q]
          /\ tally' = tally
      BY <1>0, <1>1, <2>1 DEF Resolve, Shape
    <3>2. Counted(s)' = Counted(s) /\ Completed(s)' = Completed(s)
      BY <1>f, <2>0, <3>1 DEF Counted, Completed
    <3>3. StopInv(s)'
      BY <1>0, <1>a, <3>2 DEF ScanInv, StopInv
    <3>4. ProbeInv(s)'
      BY <1>0, <1>a, <1>b, <1>f, <2>0, <3>1 DEF ScanInv, ProbeInv
    <3>5. CountInv(s)'
      BY <1>0, <2>0, <3>1, <3>2 DEF ScanInv, CountInv
    <3>6. DoneInv(s)'
      BY <1>0, <1>a, <1>d, <2>1 DEF ScanInv, DoneInv
    <3> QED BY <1>c, <3>3, <3>4, <3>5, <3>6 DEF ScanInv
  <2>2. CASE s \notin cancelled
    <3>1. /\ \A q \in Pairs : probe'[s][q] = IF q = p THEN "kept" ELSE probe[s][q]
          /\ tally'[s] = tally[s] + 1
      BY <1>0, <1>1, <2>2 DEF Resolve, Shape
    <3>2. Counted(s)' = Counted(s) \cup {p} /\ p \notin Counted(s) /\ Completed(s)' = Completed(s)
      BY <1>f, <2>0, <3>1 DEF Counted, Completed
    <3>3. StopInv(s)'
      BY <1>0, <1>a, <2>2 DEF ScanInv, StopInv
    <3>4. ProbeInv(s)'
      BY <1>0, <1>a, <1>b, <1>f, <2>0, <3>1 DEF ScanInv, ProbeInv
    <3>5. CountInv(s)'
      <4>1. Cardinality(Counted(s) \cup {p}) = Cardinality(Counted(s)) + 1
        BY <1>e, <3>2, FS_AddElement
      <4> QED BY <1>0, <2>0, <3>1, <3>2, <4>1 DEF ScanInv, CountInv
    <3>6. DoneInv(s)'
      BY <1>0, <1>a, <1>d, <2>0, <3>1 DEF ScanInv, DoneInv
    <3> QED BY <1>c, <3>3, <3>4, <3>5, <3>6 DEF ScanInv
  <2> QED BY <2>1, <2>2
<1>2. CASE Report(s, p)
  <2>0. /\ probe[s][p] = "kept" /\ reported'[s] = reported[s] \cup {p}
        /\ tally' = tally /\ finished' = finished
        /\ \A q \in Pairs : probe'[s][q] = IF q = p THEN "reported" ELSE probe[s][q]
    BY <1>0, <1>2 DEF Report, Shape
  <2>1. p \notin reported[s]
    BY <1>0, <2>0 DEF ScanInv, ProbeInv
  <2>2. Counted(s)' = Counted(s) /\ Completed(s)' = Completed(s)
    BY <1>f, <2>0, <2>1 DEF Counted, Completed
  <2>3. StopInv(s)'
    BY <1>0, <1>a, <2>2 DEF ScanInv, StopInv
  <2>4. ProbeInv(s)'
    BY <1>0, <1>a, <1>b, <1>f, <2>0 DEF ScanInv, ProbeInv
  <2>5. CountInv(s)'
    BY <1>0, <2>0, <2>2 DEF ScanInv, CountInv
  <2>6. DoneInv(s)'
    BY <1>0, <1>a, <1>d, <2>0 DEF ScanInv, DoneInv
  <2> QED BY <1>c, <2>3, <2>4, <2>5, <2>6 DEF ScanInv
<1>3. CASE Finish(s, p)
  <2>0. /\ probe[s][p] = "reported" /\ reported' = reported /\ tally' = tally
        /\ finished'[s] = finished[s] + 1
        /\ \A q \in Pairs : probe'[s][q] = IF q = p THEN "over" ELSE probe[s][q]
    BY <1>0, <1>3 DEF Finish, Shape
  <2>1. p \in reported[s]
    BY <1>0, <2>0 DEF ScanInv, ProbeInv
  <2>2. /\ Counted(s)' = Counted(s)
        /\ Completed(s)' = Completed(s) \cup {p} /\ p \notin Completed(s)
    BY <1>f, <2>0, <2>1 DEF Counted, Completed
  <2>3. StopInv(s)'
    BY <1>0, <1>a, <2>2 DEF ScanInv, StopInv
  <2>4. ProbeInv(s)'
    BY <1>0, <1>a, <1>b, <1>f, <2>0, <2>1 DEF ScanInv, ProbeInv
  <2>5. CountInv(s)'
    <3>1. Cardinality(Completed(s) \cup {p}) = Cardinality(Completed(s)) + 1
      BY <1>e, <2>2, FS_AddElement
    <3> QED BY <1>0, <2>0, <2>2, <3>1 DEF ScanInv, CountInv
  <2>6. DoneInv(s)'
    BY <1>0, <1>a, <1>d, <2>0, <2>1 DEF ScanInv, DoneInv
  <2> QED BY <1>c, <2>3, <2>4, <2>5, <2>6 DEF ScanInv
<1> QED BY <1>1, <1>2, <1>3 DEF ProbeStep

LEMMA StepIInv == IInv /\ [Next]_vars => IInv'
<1> SUFFICES ASSUME IInv, [Next]_vars PROVE IInv' OBVIOUS
<1>1. CASE Next
  <2>1. PICK s \in Scans : ScanStep(s)
    BY <1>1 DEF Next
  <2>2. Shape'
    BY <2>1, ShapeStep
  <2>3. ScanInv(s)'
    BY <2>1, RunKeeps, DispatchKeeps, ProbeKeeps DEF ScanStep, RunStep
  <2>4. ASSUME NEW t \in Scans \ {s} PROVE ScanInv(t)'
    BY <2>1, <2>4, OthersKeep, SameKeeps DEF IInv
  <2> QED BY <2>2, <2>3, <2>4 DEF IInv
<1>2. CASE UNCHANGED vars
  <2>1. Shape'
    BY <1>2 DEF IInv, Shape, vars, sweepVars, pastVars
  <2>2. ASSUME NEW t \in Scans PROVE ScanInv(t)'
    <3>1. Same(t)
      BY <1>2 DEF Same, vars, sweepVars, pastVars
    <3> QED BY <3>1, SameKeeps DEF IInv
  <2> QED BY <2>1, <2>2 DEF IInv
<1> QED BY <1>1, <1>2

LEMMA Invariance == Spec => []IInv
BY InitIInv, StepIInv, PTL DEF Spec

-----------------------------------------------------------------------------
(* service.go:219-283: every variable has its type, and the counters of a  *)
(* scan are never ahead of the pairs it has dispatched.                    *)
THEOREM TypeCorrect == Spec => []TypeOK
BY Invariance, TypeFollows, PTL

(* service.go:322-354: after Stop has returned at most one more probe is   *)
(* launched and no row appears whose result had not been accepted by then. *)
THEOREM StopIsFinal == Spec => []StopTakesHold
<1>1. IInv => StopTakesHold
  BY DEF IInv, Shape, ScanInv, StopInv, Counted, StopTakesHold
<1> QED BY <1>1, Invariance, PTL

(* scan:done is emitted when every pair was dispatched and has its row. *)
LEMMA DoneCounts ==
  ASSUME IInv, NEW s \in Scans, phase[s] = "completing" \/ outcome[s] = "done"
  PROVE  tally[s] = Total(s) /\ finished[s] = Total(s) /\ reported[s] = 1..Total(s)
<1>0. Shape /\ ScanInv(s)
  BY DEF IInv
<1>1. reported[s] = 1..Total(s) /\ Total(s) \in Nat /\ Busy(s) = {}
  <2>1. phase[s] \in {"completing", "over", "gone"}
    BY <1>0 DEF ScanInv, PhaseInv
  <2> QED BY <1>0, <2>1, TotalFacts, ScanAssumption DEF ScanInv, DoneInv, ProbeInv, Closed
<1>2. Counted(s) = reported[s] /\ Completed(s) = reported[s]
  BY <1>0, <1>1 DEF Shape, ScanInv, ProbeInv, Busy, Counted, Completed
<1>3. Cardinality(1..Total(s)) = Total(s)
  BY <1>1, FS_Interval
<1> QED BY <1>0, <1>1, <1>2, <1>3 DEF ScanInv, CountInv

(* service.go:373-390: the statistics of scan:done count every pair of the *)
(* request, each with its row.                                             *)
THEOREM DoneIsComplete == Spec => []DoneCountsEveryRow
<1>1. IInv => DoneCountsEveryRow
  BY DoneCounts DEF DoneCountsEveryRow
<1> QED BY <1>1, Invariance, PTL

-----------------------------------------------------------------------------
(* The mapping of LifecycleKept, by name.                                  *)
Status(s) == IF phase[s] \in {"new", "rejected"} THEN "new"
             ELSE IF outcome[s] = "none" THEN "running" ELSE outcome[s]
Statuses == [s \in Scans |-> Status(s)]
Wanted   == [s \in Scans |-> 1..Total(s)]
Abstract == <<Wanted, Statuses, reported, stopped>>

LEMMA InitMaps == Init => Lifecycle!Init
<1> SUFFICES ASSUME Init PROVE Lifecycle!Init OBVIOUS
<1>1. Wanted \in [Scans -> SUBSET Pairs]
  <2>1. \A s \in Scans : Total(s) \in Nat /\ Total(s) <= MaxPairs
    BY InitIInv, TotalFacts, ScanAssumption DEF IInv
  <2> QED BY <2>1, ScanAssumption DEF Wanted, Pairs
<1>2. Statuses = [s \in Scans |-> "new"]
  BY DEF Init, Statuses, Status
<1> QED BY <1>1, <1>2 DEF Init, Lifecycle!Init, Wanted, Statuses, Status

(* A step of a scan that changes its status to v changes no other's. *)
LEMMA StatusMoves ==
  ASSUME IInv, NEW s \in Scans, ScanStep(s)
  PROVE  /\ Wanted' = Wanted
         /\ Statuses' = [Statuses EXCEPT ![s] = Status(s)']
<1>1. request' = request
  BY DEF ScanStep, Start, Stop, RunStep, BuildTargets, Acquire, CheckSlot, Dispatch, SweepEnds,
         Join, EmitTerminal, Unregister, ProbeStep, Resolve, Report, Finish, Tick, StopTicker
<1>2. Wanted' = Wanted
  BY <1>1 DEF Wanted, Total
<1>3. \A t \in Scans \ {s} : Status(t)' = Status(t)
  BY OthersKeep DEF IInv, Same, Status
<1> QED BY <1>2, <1>3 DEF Statuses

LEMMA StepMaps ==
  ASSUME IInv, [Next]_vars
  PROVE  [Lifecycle!Next]_Abstract
<1> SUFFICES ASSUME Next PROVE Lifecycle!Next \/ UNCHANGED Abstract
  <2>1. UNCHANGED vars => UNCHANGED Abstract
    BY DEF vars, pastVars, Abstract, Wanted, Statuses, Status, Total
  <2> QED BY <2>1
<1>1. PICK s \in Scans : ScanStep(s)
  BY DEF Next
<1>0. Shape /\ ScanInv(s) /\ ScanInv(s)'
  BY <1>1, StepIInv DEF IInv
<1>a. Wanted' = Wanted /\ Statuses' = [Statuses EXCEPT ![s] = Status(s)']
  BY <1>1, StatusMoves
<1>b. Statuses[s] = Status(s) /\ Statuses = [Statuses EXCEPT ![s] = Status(s)]
  BY DEF Statuses
<1> USE DEF pastVars
<1>2. CASE Start(s)
  <2>1. Status(s) = "new" /\ Status(s)' \in {"new", "running"} /\ UNCHANGED <<reported, stopped>>
    BY <1>0, <1>2 DEF Start, Shape, Status, ScanInv, PhaseInv
  <2>2. CASE Status(s)' = "new"
    BY <1>a, <1>b, <2>1, <2>2 DEF Abstract
  <2>3. CASE Status(s)' = "running"
    <3>1. Lifecycle!Begin(s)
      BY <1>a, <1>b, <2>1, <2>3 DEF Lifecycle!Begin, Statuses, Status, Wanted
    <3> QED BY <3>1 DEF Lifecycle!Next
  <2> QED BY <2>1, <2>2, <2>3
<1>3. CASE Stop(s)
  <2>1. /\ Status(s) # "new" /\ Status(s)' = Status(s)
        /\ stopped' = stopped \cup {s} /\ reported' = reported
    BY <1>0, <1>3 DEF Stop, Status, ScanInv, PhaseInv, Shape, Outcomes
  <2>2. Lifecycle!Stop(s)
    BY <1>a, <1>b, <2>1 DEF Lifecycle!Stop, Statuses, Status, Wanted
  <2> QED BY <2>2 DEF Lifecycle!Next
<1>4. CASE BuildTargets(s)
  <2>1. Status(s) = "running" /\ UNCHANGED <<reported, stopped>>
    BY <1>0, <1>4 DEF BuildTargets, Status, ScanInv, PhaseInv
  <2>2. CASE request[s] # BadTargets
    <3>1. Status(s)' = Status(s)
      BY <1>0, <1>4, <2>1, <2>2 DEF BuildTargets, Shape, Status, ScanInv, PhaseInv
    <3> QED BY <1>a, <1>b, <2>1, <3>1 DEF Abstract
  <2>3. CASE request[s] = BadTargets
    <3>1. Status(s)' = "error"
      BY <1>0, <1>4, <2>3 DEF BuildTargets, Shape, Status
    <3>2. Wanted[s] = {} /\ reported[s] = {}
      <4>1. Total(s) = 0 /\ next[s] = 1
        BY <1>0, <1>4, <2>3, TotalFacts DEF BuildTargets, ScanInv, PhaseInv
      <4>2. \A p \in Pairs : probe[s][p] = "none"
        BY <1>0, <4>1, ScanAssumption DEF ScanInv, ProbeInv, Pairs
      <4>3. reported[s] = {}
        BY <1>0, <4>2 DEF ScanInv, ProbeInv, Shape
      <4> QED BY <4>1, <4>3 DEF Wanted
    <3>3. Lifecycle!End(s, "error")
      BY <1>a, <1>b, <2>1, <3>1, <3>2 DEF Lifecycle!End, Statuses, Status, Wanted
    <3> QED BY <3>3 DEF Lifecycle!Next
  <2> QED BY <2>2, <2>3
<1>5. CASE Acquire(s) \/ CheckSlot(s) \/ Dispatch(s) \/ SweepEnds(s) \/ Join(s) \/ Unregister(s)
  <2>1. Status(s)' = Status(s) /\ UNCHANGED <<reported, stopped>>
    BY <1>0, <1>5 DEF Acquire, CheckSlot, Dispatch, SweepEnds, Join, Unregister, Shape, Status
  <2> QED BY <1>a, <1>b, <2>1 DEF Abstract
<1>6. CASE EmitTerminal(s)
  <2>0. Status(s) = "running" /\ UNCHANGED <<reported, stopped>>
    BY <1>0, <1>6 DEF EmitTerminal, Status, ScanInv, PhaseInv
  <2>1. CASE phase[s] = "cancelling"
    <3>1. Status(s)' = "cancelled" /\ s \in stopped
      BY <1>0, <1>6, <2>1 DEF EmitTerminal, Shape, Status, ScanInv, StopInv
    <3>2. Lifecycle!End(s, "cancelled")
      BY <1>a, <1>b, <2>0, <3>1 DEF Lifecycle!End, Statuses, Status, Wanted
    <3> QED BY <3>2 DEF Lifecycle!Next
  <2>2. CASE phase[s] = "completing"
    <3>1. Status(s)' = "done"
      BY <1>0, <1>6, <2>2 DEF EmitTerminal, Shape, Status
    <3>2. Wanted[s] # {} /\ reported[s] = Wanted[s]
      BY <1>0, <2>2, TotalFacts DEF ScanInv, DoneInv, Wanted
    <3>3. Lifecycle!End(s, "done")
      BY <1>a, <1>b, <2>0, <3>1, <3>2 DEF Lifecycle!End, Statuses, Status, Wanted
    <3> QED BY <3>3 DEF Lifecycle!Next
  <2> QED BY <1>6, <2>1, <2>2 DEF EmitTerminal
<1>7. ASSUME NEW p \in Pairs, Resolve(s, p) \/ Finish(s, p) PROVE UNCHANGED Abstract
  <2>1. Status(s)' = Status(s) /\ UNCHANGED <<reported, stopped>>
    BY <1>7 DEF Resolve, Finish, Status
  <2> QED BY <1>a, <1>b, <2>1 DEF Abstract
<1>8. ASSUME NEW p \in Pairs, Report(s, p) PROVE Lifecycle!Next
  <2>1. p \in Wanted[s] \ reported[s]
    <3>1. probe[s][p] = "kept"
      BY <1>8 DEF Report
    <3>2. p < next[s] /\ p \notin reported[s] /\ next[s] <= Total(s) + 1
      <4>1. ~(next[s] <= p) /\ p \notin reported[s] /\ next[s] <= Total(s) + 1
        BY <1>0, <3>1 DEF ScanInv, PhaseInv, ProbeInv
      <4>2. next[s] \in Nat /\ p \in Nat
        BY <1>0, ScanAssumption DEF Shape, Pairs
      <4> QED BY <4>1, <4>2
    <3>3. next[s] \in Nat /\ Total(s) \in Nat /\ p \in Nat /\ 1 <= p
      BY <1>0, TotalFacts, ScanAssumption DEF Pairs, Shape
    <3>4. p \in 1..Total(s)
      BY <3>2, <3>3
    <3> QED BY <3>2, <3>4 DEF Wanted
  <2>2. Status(s) = "running"
    <3>1. p \in Busy(s)
      BY <1>8 DEF Report, Busy
    <3>2. ~Closed(s) /\ next[s] # 1
      <4>1. ~(next[s] <= p)
        BY <1>0, <1>8 DEF Report, ScanInv, ProbeInv
      <4> QED BY <1>0, <3>1, <4>1, ScanAssumption DEF ScanInv, ProbeInv, Pairs
    <3> QED BY <1>0, <3>2 DEF Closed, Status, ScanInv, PhaseInv
  <2>3. Status(s)' = Status(s) /\ stopped' = stopped /\ reported' = [reported EXCEPT ![s] = @ \cup {p}]
    BY <1>8 DEF Report, Status
  <2>4. Lifecycle!Report(s, p)
    BY <1>a, <1>b, <2>1, <2>2, <2>3 DEF Lifecycle!Report, Statuses, Status, Wanted
  <2> QED BY <2>4 DEF Lifecycle!Next
<1>9. CASE Tick(s) \/ StopTicker(s)
  <2>1. Status(s)' = Status(s) /\ UNCHANGED <<reported, stopped>>
    BY <1>9 DEF Tick, StopTicker, Status
  <2> QED BY <1>a, <1>b, <2>1 DEF Abstract
<1> QED BY <1>1, <1>2, <1>3, <1>4, <1>5, <1>6, <1>7, <1>8, <1>9 DEF ScanStep, RunStep, ProbeStep

(* service.go:222-229 and 265-266: every scan keeps the promise of         *)
(* ScanLifecycle: rows only before its one terminal event, each once, and  *)
(* an outcome it has earned.                                               *)
THEOREM ImplementsLifecycle == Spec => LifecycleKept
<1>1. [Lifecycle!Next]_Abstract => [Lifecycle!Next]_(Lifecycle!lifecycleVars)
  BY DEF Abstract, Statuses, Status, Wanted, Lifecycle!lifecycleVars
<1>2. IInv /\ [Next]_vars => [Lifecycle!Next]_(Lifecycle!lifecycleVars)
  BY <1>1, StepMaps
<1> QED BY <1>2, InitMaps, Invariance, PTL DEF Spec, LifecycleKept, Lifecycle!Spec

-----------------------------------------------------------------------------
(***************************************************************************)
(* The panel.  What ScanPanel adds to the invariant: how far a Start call  *)
(* is, what the events on their way may be, who is still waited for, and   *)
(* where the rows of the last scan are.                                    *)
(***************************************************************************)
Terminal(e) == e.kind \in {"done", "error", "cancelled"}
Row(e, s, p) == e.kind = "host" /\ e.scan = s /\ e.pair = p
Begun(s) == phase[s] \notin {"new", "rejected"}

CallInv ==
  /\ call \in [Scans -> {"none", "asked", "answered"}]
  /\ latest \in Scans \cup {NoScan} /\ settled \subseteq Scans
  /\ rows \in Seq([scan : Scans, pair : 0..MaxPairs])
  /\ \A s \in Scans :
       /\ phase[s] # "new" => call[s] # "none"
       /\ call[s] = "answered" => phase[s] # "new"
       /\ call[s] = "answered" /\ phase[s] = "rejected" => s \in settled
       /\ s \in settled => phase[s] # "new"
       /\ s \in ticker => Begun(s)

\* An event is one of a scan that has begun and says what the scan did; its
\* outcome was not handled yet, or it is a late progress event.
EventOK(e) ==
  /\ Begun(e.scan)
  /\ e.kind = "host" => e.pair \in reported[e.scan]
  /\ Terminal(e) => outcome[e.scan] = e.kind
  /\ e.kind = "done" => e.done = Total(e.scan) /\ e.total = Total(e.scan)
  /\ e.scan \in settled => e.kind = "progress"

\* Event e before event f: nothing but progress follows a terminal event, and no
\* row comes twice.
Apart(e, f) ==
  e.scan = f.scan =>
    /\ Terminal(e) => f.kind = "progress"
    /\ e.kind = "host" /\ f.kind = "host" => e.pair # f.pair

InQueue(e) == \E i \in 1..Len(queue) : queue[i] = e
QueueInv ==
  /\ \A e \in ScanEvent : InQueue(e) => EventOK(e)
  /\ \A i, j \in 1..Len(queue) : i < j => Apart(queue[i], queue[j])
  /\ \A s \in settled : Begun(s) => outcome[s] # "none"

\* The last scan searched for, if it met no other, is the only one with an answer
\* or an outcome to come.
AloneInv == latest # NoScan /\ latest \notin company => Open \subseteq {latest}

\* Each row a scan has reported is in the queue or, once, in the panel.
Queued(s, p) == \E i \in 1..Len(queue) : Row(queue[i], s, p)
Listed(p) == \E k \in DOMAIN rows : rows[k].pair = p
Listing(s) ==
  /\ call[s] = "asked" =>
       s \notin settled /\ \A p \in reported[s] : Queued(s, p)
  /\ call[s] = "answered" =>
       /\ s \notin settled => activeScan = s
       /\ s \in settled /\ outcome[s] = "done" =>
            status = "done" /\ stats = [done |-> Total(s), total |-> Total(s)]
       /\ \A k \in DOMAIN rows : /\ rows[k].scan = s /\ rows[k].pair \in reported[s]
                                 /\ ~Queued(s, rows[k].pair)
       /\ \A k, l \in DOMAIN rows : rows[k].pair = rows[l].pair => k = l
       /\ \A p \in reported[s] : Queued(s, p) \/ Listed(p)

ListInv == latest # NoScan /\ Quiet(latest) /\ Begun(latest) => Listing(latest)

-----------------------------------------------------------------------------
(* What a step of the service does that the panel can see.                 *)

\* Scan s emits event e.
Emits(s, e) ==
  /\ queue' = Append(queue, e) /\ e.scan = s /\ Begun(s) /\ phase'[s] \notin {"new", "rejected"}
  /\ e.kind = "progress" \/ outcome[s] = "none"
  /\ \/ /\ e.kind = "host" /\ outcome' = outcome
        /\ e.pair \in Pairs \ reported[s]
        /\ reported' = [reported EXCEPT ![s] = @ \cup {e.pair}]
     \/ /\ Terminal(e) /\ reported' = reported
        /\ outcome' = [outcome EXCEPT ![s] = e.kind]
        /\ e.kind = "done" => e.done = Total(s) /\ e.total = Total(s)
     \/ /\ e.kind = "progress" /\ UNCHANGED <<reported, outcome>>

\* A step of scan s: its phase only goes on, and it emits an event or nothing.
ScanMoves(s) ==
  /\ request' = request
  /\ \A t \in Scans \ {s} : phase'[t] = phase[t]
  /\ phase[s] # "new" => phase'[s] # "new"
  /\ phase[s] = "rejected" => phase'[s] = "rejected"
  /\ phase'[s] = "rejected" => phase[s] \in {"new", "rejected"}
  /\ phase[s] = "new" /\ phase'[s] # "new" => Start(s)
  /\ \/ UNCHANGED <<queue, reported, outcome>>
     \/ \E e \in ScanEvent : Emits(s, e)
  /\ ticker' \subseteq ticker \/ (Begun(s) /\ phase'[s] \notin {"new", "rejected"}
                                  /\ ticker' \subseteq ticker \cup {s})

\* An event of the service is one the panel knows.
LEMMA EmitEvent ==
  ASSUME NEW s \in Scans, NEW p \in 0..MaxPairs, NEW n \in 0..MaxPairs, NEW m \in 0..MaxPairs,
         NEW kind \in {"host", "progress", "done", "error", "cancelled"},
         Emit(kind, s, p, n, m)
  PROVE  \E e \in ScanEvent : /\ queue' = Append(queue, e) /\ e.scan = s /\ e.kind = kind
                              /\ e.pair = p /\ e.done = n /\ e.total = m
<1> DEFINE e == [kind |-> kind, scan |-> s, pair |-> p, done |-> n, total |-> m]
<1>1. e \in ScanEvent /\ queue' = Append(queue, e)
  BY DEF ScanEvent, Emit
<1> QED BY <1>1

LEMMA MovesOfScan ==
  ASSUME IInv, \A t \in ticker : Begun(t), NEW s \in Scans, ScanStep(s)
  PROVE  ScanMoves(s)
<1>0. Shape /\ ScanInv(s)
  BY DEF IInv
<1>a. /\ Total(s) \in 0..MaxPairs /\ tally[s] \in 0..MaxPairs /\ finished[s] \in 0..MaxPairs
      /\ 0 \in 0..MaxPairs /\ \A p \in Pairs : p \in 0..MaxPairs
  BY <1>0, TotalFacts, CountsInOrder, ScanAssumption DEF Pairs
<1>b. \A t \in Scans \ {s} : phase'[t] = phase[t]
  BY <1>0, OthersKeep DEF Same
<1> USE DEF sweepVars, pastVars
<1>1. CASE Start(s)
  BY <1>0, <1>1 DEF Start, Shape, ScanMoves
<1>2. CASE Stop(s)
  BY <1>2 DEF Stop, ScanMoves
<1>3. CASE BuildTargets(s)
  <2>0. phase[s] = "launched" /\ outcome[s] = "none" /\ request' = request
        /\ ticker' \subseteq ticker \cup {s}
    BY <1>0, <1>3 DEF BuildTargets, ScanInv, PhaseInv
  <2>1. CASE request[s] = BadTargets
    <3>1. /\ Emit("error", s, 0, 0, 0) /\ phase'[s] = "over" /\ reported' = reported
          /\ outcome' = [outcome EXCEPT ![s] = "error"]
      BY <1>0, <1>3, <2>1 DEF BuildTargets, Shape
    <3>2. PICK e \in ScanEvent : queue' = Append(queue, e) /\ e.scan = s /\ e.kind = "error"
      BY <1>a, <3>1, EmitEvent
    <3>3. Emits(s, e)
      BY <2>0, <3>1, <3>2 DEF Emits, Begun, Terminal
    <3> QED BY <1>b, <2>0, <3>1, <3>3 DEF ScanMoves, Begun
  <2>2. CASE request[s] # BadTargets
    <3>1. phase'[s] = "sweeping" /\ UNCHANGED <<queue, reported, outcome>>
      BY <1>0, <1>3, <2>2 DEF BuildTargets, Shape
    <3> QED BY <1>b, <2>0, <3>1 DEF ScanMoves, Begun
  <2> QED BY <2>1, <2>2
<1>4. CASE Acquire(s) \/ CheckSlot(s) \/ Dispatch(s) \/ SweepEnds(s) \/ Join(s) \/ Unregister(s)
  <2>1. /\ UNCHANGED <<request, ticker, queue, reported, outcome>>
        /\ phase[s] \notin {"new", "rejected"} /\ phase'[s] \notin {"new", "rejected"}
    BY <1>0, <1>4 DEF Acquire, CheckSlot, Dispatch, SweepEnds, Join, Unregister, Shape
  <2> QED BY <1>b, <2>1 DEF ScanMoves
<1>5. CASE EmitTerminal(s)
  <2>0. /\ phase[s] \in {"cancelling", "completing"} /\ phase'[s] = "over" /\ outcome[s] = "none"
        /\ UNCHANGED <<request, ticker, reported>>
    BY <1>0, <1>5 DEF EmitTerminal, Shape, ScanInv, PhaseInv
  <2>1. PICK e \in ScanEvent :
          /\ queue' = Append(queue, e) /\ e.scan = s /\ Terminal(e)
          /\ outcome' = [outcome EXCEPT ![s] = e.kind]
          /\ e.kind = "done" => phase[s] = "completing" /\ e.done = tally[s] /\ e.total = Total(s)
    <3>1. CASE phase[s] = "cancelling"
      <4>1. /\ Emit("cancelled", s, 0, 0, 0)
            /\ outcome' = [outcome EXCEPT ![s] = "cancelled"]
        BY <1>5, <3>1 DEF EmitTerminal
      <4>2. PICK e \in ScanEvent : queue' = Append(queue, e) /\ e.scan = s /\ e.kind = "cancelled"
        BY <1>a, <4>1, EmitEvent
      <4> QED BY <4>1, <4>2 DEF Terminal
    <3>2. CASE phase[s] = "completing"
      <4>1. /\ Emit("done", s, 0, tally[s], Total(s))
            /\ outcome' = [outcome EXCEPT ![s] = "done"]
        BY <1>5, <3>2 DEF EmitTerminal
      <4>2. PICK e \in ScanEvent : /\ queue' = Append(queue, e) /\ e.scan = s /\ e.kind = "done"
                                   /\ e.done = tally[s] /\ e.total = Total(s)
        BY <1>a, <4>1, EmitEvent
      <4> QED BY <3>2, <4>1, <4>2 DEF Terminal
    <3> QED BY <2>0, <3>1, <3>2
  <2>2. phase[s] = "completing" => tally[s] = Total(s)
    BY DoneCounts
  <2>3. Emits(s, e)
    BY <2>0, <2>1, <2>2 DEF Emits, Begun
  <2> QED BY <1>b, <2>0, <2>3 DEF ScanMoves
<1>6. ASSUME NEW p \in Pairs, Resolve(s, p) \/ Finish(s, p) PROVE ScanMoves(s)
  BY <1>6 DEF Resolve, Finish, ScanMoves
<1>7. ASSUME NEW p \in Pairs, Report(s, p) PROVE ScanMoves(s)
  <2>0. /\ UNCHANGED <<request, phase, ticker, outcome>> /\ Emit("host", s, p, 0, 0)
        /\ probe[s][p] = "kept" /\ reported' = [reported EXCEPT ![s] = @ \cup {p}]
    BY <1>7 DEF Report
  <2>1. p \in Busy(s) /\ p \notin reported[s] /\ ~Closed(s)
    BY <1>0, <2>0 DEF Busy, ScanInv, ProbeInv
  <2>2. outcome[s] = "none"
    BY <1>0, <2>1 DEF Closed, ScanInv, PhaseInv
  <2>3. Begun(s)
    <3>1. next[s] # 1
      BY <1>0, <2>0, ScanAssumption DEF ScanInv, ProbeInv, Pairs
    <3> QED BY <1>0, <3>1 DEF ScanInv, PhaseInv, Begun
  <2>4. PICK e \in ScanEvent :
          queue' = Append(queue, e) /\ e.scan = s /\ e.kind = "host" /\ e.pair = p
    BY <1>a, <2>0, EmitEvent
  <2>5. Emits(s, e)
    BY <2>0, <2>1, <2>2, <2>3, <2>4 DEF Emits, Begun
  <2> QED BY <2>0, <2>3, <2>5 DEF ScanMoves, Begun
<1>8. CASE Tick(s)
  <2>0. /\ UNCHANGED <<request, phase, ticker, reported, outcome>> /\ Begun(s)
        /\ Emit("progress", s, 0, finished[s], Total(s))
    BY <1>8 DEF Tick
  <2>1. PICK e \in ScanEvent : queue' = Append(queue, e) /\ e.scan = s /\ e.kind = "progress"
    BY <1>a, <2>0, EmitEvent
  <2>2. Emits(s, e)
    BY <2>0, <2>1 DEF Emits, Begun
  <2> QED BY <2>0, <2>2 DEF ScanMoves, Begun
<1>9. CASE StopTicker(s)
  BY <1>9 DEF StopTicker, ScanMoves
<1> QED BY <1>1, <1>2, <1>3, <1>4, <1>5, <1>6, <1>7, <1>8, <1>9 DEF ScanStep, RunStep, ProbeStep

-----------------------------------------------------------------------------
(* The steps of the panel.                                                 *)

shown == <<call, activeScan, status, rows, stats, settled, early, latest, company>>

\* A step is one of the panel, or one of a scan that the panel does not show:
\* Start is one that was asked for.
LEMMA PanelMoves ==
  ASSUME IInv, CallInv, [PanelNext]_panelVars
  PROVE  \/ /\ UNCHANGED shown
            /\ \/ UNCHANGED vars
               \/ \E s \in Scans : /\ ScanStep(s) /\ ScanMoves(s)
                                   /\ Start(s) => call[s] = "asked"
         \/ \E s \in Scans : Search(s) \/ StartReturns(s)
         \/ Deliver
<1>1. \A s \in Scans : ScanStep(s) => ScanMoves(s)
  BY MovesOfScan DEF CallInv, Shape, IInv
<1>2. CASE Backend
  <2>1. PICK s \in Scans :
          \/ call[s] = "asked" /\ Start(s)
          \/ RunStep(s) \/ (\E p \in Pairs : ProbeStep(s, p))
          \/ Tick(s) \/ StopTicker(s)
    BY <1>2 DEF Backend
  <2>2. UNCHANGED shown
    BY <1>2 DEF Backend, uiVars, shown
  <2>3. ScanStep(s)
    BY <2>1 DEF ScanStep
  <2>4. Start(s) => call[s] = "asked"
    <3>1. CASE RunStep(s)
      BY <3>1 DEF RunStep, BuildTargets, Acquire, CheckSlot, Dispatch, SweepEnds, Join,
                  EmitTerminal, Unregister, Start
    <3>2. ASSUME UNCHANGED phase, Start(s) PROVE FALSE
      BY <3>2 DEF Start, IInv, Shape
    <3>3. CASE (\E p \in Pairs : ProbeStep(s, p)) \/ Tick(s) \/ StopTicker(s)
      <4>1. UNCHANGED phase
        BY <3>3 DEF ProbeStep, Resolve, Report, Finish, Tick, StopTicker
      <4> QED BY <3>2, <4>1
    <3> QED BY <2>1, <3>1, <3>3
  <2> QED BY <1>1, <2>2, <2>3, <2>4
<1>3. ASSUME NEW s \in Scans, StopArrives(s)
      PROVE  /\ UNCHANGED shown
             /\ \/ UNCHANGED vars
                \/ ScanStep(s) /\ ScanMoves(s) /\ ~Start(s)
  <2>1. UNCHANGED shown
    BY <1>3 DEF StopArrives, shown
  <2>2. CASE Stop(s)
    <3>1. ~Start(s)
      BY <2>2 DEF Stop, Start, IInv, Shape
    <3> QED BY <1>1, <2>1, <2>2, <3>1 DEF ScanStep
  <2> QED BY <1>3, <2>1, <2>2 DEF StopArrives
<1>4. CASE ClickStop \/ UNCHANGED panelVars
  BY <1>4 DEF ClickStop, panelVars, uiVars, shown
<1> QED BY <1>2, <1>3, <1>4 DEF PanelNext

\* The service's invariant does not depend on what was delivered.
LEMMA PanelStepIInv == IInv /\ CallInv /\ [PanelNext]_panelVars => IInv'
<1> SUFFICES ASSUME IInv, CallInv, [PanelNext]_panelVars PROVE IInv'
  OBVIOUS
<1>1. ASSUME [Next]_vars PROVE IInv'
  BY <1>1, StepIInv
<1>2. CASE Deliver
  <2>1. /\ UNCHANGED <<request, phase, sweepVars, ticker, ticksLeft, registered,
                       cancelled, pastVars>>
        /\ queue # << >> /\ queue' = Tail(queue)
    BY <1>2 DEF Deliver
  <2>2. queue' \in Seq(ScanEvent)
    BY <2>1 DEF IInv, Shape
  <2>3. Shape'
    BY <2>1, <2>2 DEF IInv, Shape, sweepVars, pastVars
  <2>4. ASSUME NEW t \in Scans PROVE ScanInv(t)'
    <3>1. Same(t)
      BY <2>1 DEF Same, sweepVars, pastVars
    <3> QED BY <3>1, SameKeeps DEF IInv
  <2> QED BY <2>3, <2>4 DEF IInv
<1>3. ASSUME NEW s \in Scans, Search(s) \/ StartReturns(s) PROVE UNCHANGED vars
  BY <1>3 DEF Search, StartReturns
<1> QED BY <1>1, <1>2, <1>3, PanelMoves DEF Next

\* The event that is delivered is the first of the queue.
LEMMA Delivered ==
  ASSUME IInv, QueueInv, CallInv, Deliver
  PROVE  \E e \in ScanEvent :
           /\ e.scan \in Scans /\ EventOK(e) /\ call[e.scan] # "none"
           /\ HandleProgress(e) \/ HandleHost(e) \/ HandleTerminal(e)
           /\ early' = IF call[e.scan] = "asked" THEN early \cup {e.scan} ELSE early
           /\ Len(queue) \in Nat /\ 1 \in 1..Len(queue) /\ queue[1] = e
           /\ Len(queue') = Len(queue) - 1
           /\ \A i \in 1..Len(queue') :
                i + 1 \in 1..Len(queue) /\ queue'[i] = queue[i + 1] /\ Apart(e, queue'[i])
           /\ UNCHANGED <<request, phase, ticker, reported, outcome, call, latest, company>>
<1>1. queue \in Seq(ScanEvent) /\ queue # << >> /\ queue' = Tail(queue)
  BY DEF IInv, Shape, Deliver
<1>2. /\ Len(queue) \in Nat /\ 1 \in 1..Len(queue) /\ queue[1] = Head(queue)
      /\ queue[1] \in ScanEvent /\ Len(queue') = Len(queue) - 1
      /\ \A i \in 1..Len(queue') : i + 1 \in 1..Len(queue) /\ queue'[i] = queue[i + 1] /\ 1 < i + 1
  BY <1>1
<1>3. PICK e \in ScanEvent : e = queue[1]
  BY <1>2
<1>4. EventOK(e) /\ e.scan \in Scans
  BY <1>2, <1>3 DEF QueueInv, InQueue, ScanEvent
<1>5. call[e.scan] # "none"
  BY <1>4 DEF EventOK, Begun, CallInv
<1>6. \A i \in 1..Len(queue') : Apart(e, queue'[i])
  BY <1>2, <1>3 DEF QueueInv
<1>7. /\ HandleProgress(e) \/ HandleHost(e) \/ HandleTerminal(e)
      /\ early' = IF call[e.scan] = "asked" THEN early \cup {e.scan} ELSE early
  BY <1>2, <1>3 DEF Deliver
<1>8. UNCHANGED <<request, phase, ticker, reported, outcome, call, latest, company>>
  BY DEF Deliver, pastVars
<1> QED BY <1>2, <1>3, <1>4, <1>5, <1>6, <1>7, <1>8

LEMMA CallStep == IInv /\ CallInv /\ QueueInv /\ [PanelNext]_panelVars => CallInv'
<1> SUFFICES ASSUME IInv, CallInv, QueueInv, [PanelNext]_panelVars PROVE CallInv'
  OBVIOUS
<1>0. Shape
  BY DEF IInv
<1>1. CASE UNCHANGED shown /\ UNCHANGED vars
  BY <1>1 DEF CallInv, Begun, shown, vars
<1>2. ASSUME UNCHANGED shown, NEW s \in Scans, ScanMoves(s), Start(s) => call[s] = "asked"
      PROVE  CallInv'
  <2>1. UNCHANGED <<call, latest, settled, rows>>
    BY <1>2 DEF shown
  <2>2. ASSUME NEW t \in Scans
        PROVE  /\ phase'[t] # "new" => call[t] # "none"
               /\ call[t] = "answered" => phase'[t] # "new"
               /\ call[t] = "answered" /\ phase'[t] = "rejected" => t \in settled
               /\ t \in settled => phase'[t] # "new"
               /\ t \in ticker' => phase'[t] \notin {"new", "rejected"}
    <3>1. CASE t # s
      BY <1>2, <3>1 DEF CallInv, ScanMoves, Begun
    <3>2. CASE t = s
      BY <1>2, <3>2 DEF CallInv, ScanMoves, Begun
    <3> QED BY <3>1, <3>2
  <2> QED BY <2>1, <2>2 DEF CallInv, Begun
<1>3. ASSUME NEW s \in Scans, Search(s) PROVE CallInv'
  <2>1. /\ UNCHANGED <<phase, ticker, settled, rows>>
        /\ call[s] = "none" /\ call' = [call EXCEPT ![s] = "asked"] /\ latest' = s
    BY <1>3 DEF Search, vars
  <2> QED BY <2>1 DEF CallInv, Begun
<1>4. ASSUME NEW s \in Scans, StartReturns(s) PROVE CallInv'
  <2>1. /\ UNCHANGED <<phase, ticker, latest>> /\ phase[s] # "new"
        /\ call' = [call EXCEPT ![s] = "answered"]
        /\ \/ phase[s] = "rejected" /\ settled' = settled \cup {s} /\ rows' = rows
           \/ phase[s] # "rejected" /\ settled' = settled /\ rows' = << >>
    BY <1>4 DEF StartReturns, vars
  <2>2. \A t \in Scans \ {s} : call'[t] = call[t] /\ (t \in settled' <=> t \in settled)
    BY <2>1 DEF CallInv
  <2>3. call'[s] = "answered" /\ (phase[s] = "rejected" => s \in settled')
    BY <2>1 DEF CallInv
  <2>4. call' \in [Scans -> {"none", "asked", "answered"}] /\ settled' \subseteq Scans
    BY <2>1 DEF CallInv
  <2>5. rows' \in Seq([scan : Scans, pair : 0..MaxPairs])
    <3>1. PICK R : R = [scan : Scans, pair : 0..MaxPairs]
      OBVIOUS
    <3>2. rows \in Seq(R) /\ << >> \in Seq(R)
      BY <3>1 DEF CallInv
    <3>3. rows' = rows \/ rows' = << >>
      BY <2>1
    <3>4. rows' \in Seq(R)
      BY <3>2, <3>3
    <3> QED BY <3>1, <3>4
  <2> QED BY <2>1, <2>2, <2>3, <2>4, <2>5 DEF CallInv, Begun
<1>5. CASE Deliver
  <2>1. PICK e \in ScanEvent :
          /\ e.scan \in Scans /\ EventOK(e)
          /\ HandleProgress(e) \/ HandleHost(e) \/ HandleTerminal(e)
          /\ UNCHANGED <<phase, ticker, call, latest>>
    BY <1>5, Delivered
  <2>2. /\ settled \subseteq settled' /\ settled' \subseteq settled \cup {e.scan}
        /\ rows' = rows \/ rows' = Append(rows, [scan |-> e.scan, pair |-> e.pair])
    BY <2>1 DEF HandleProgress, HandleHost, HandleTerminal
  <2>3. [scan |-> e.scan, pair |-> e.pair] \in [scan : Scans, pair : 0..MaxPairs]
    BY DEF ScanEvent
  <2>4. rows' \in Seq([scan : Scans, pair : 0..MaxPairs])
    <3>1. PICK R : R = [scan : Scans, pair : 0..MaxPairs]
      OBVIOUS
    <3>2. PICK row \in R : row = [scan |-> e.scan, pair |-> e.pair]
      BY <2>3, <3>1
    <3>3. rows \in Seq(R)
      BY <3>1 DEF CallInv
    <3>4. rows' \in Seq(R)
      BY <2>2, <3>2, <3>3
    <3> QED BY <3>1, <3>4
  <2> QED BY <2>1, <2>2, <2>4 DEF CallInv, EventOK, Begun
<1> QED BY <1>1, <1>2, <1>3, <1>4, <1>5, PanelMoves

\* An event is still right after a step that keeps what it is about.
LEMMA EventStays ==
  ASSUME NEW e \in ScanEvent, EventOK(e), request' = request,
         Begun(e.scan) => phase'[e.scan] \notin {"new", "rejected"},
         reported[e.scan] \subseteq reported'[e.scan],
         outcome[e.scan] # "none" => outcome'[e.scan] = outcome[e.scan],
         e.scan \in settled' => e.scan \in settled \/ e.kind = "progress"
  PROVE  EventOK(e)'
<1>1. Total(e.scan)' = Total(e.scan)
  BY DEF Total
<1>2. Terminal(e) => outcome'[e.scan] = e.kind
  BY DEF EventOK, Terminal
<1> QED BY <1>1, <1>2 DEF EventOK, Begun, Terminal

LEMMA QueueStep == IInv /\ CallInv /\ QueueInv /\ [PanelNext]_panelVars => QueueInv'
<1> SUFFICES ASSUME IInv, CallInv, QueueInv, [PanelNext]_panelVars PROVE QueueInv'
  OBVIOUS
<1>0. /\ Shape /\ queue \in Seq(ScanEvent) /\ Len(queue) \in Nat
      /\ \A i \in 1..Len(queue) : queue[i] \in ScanEvent /\ queue[i].scan \in Scans
  <2>1. Shape /\ queue \in Seq(ScanEvent)
    BY DEF IInv, Shape
  <2>2. Len(queue) \in Nat /\ \A i \in 1..Len(queue) : queue[i] \in ScanEvent
    BY <2>1
  <2>3. \A e \in ScanEvent : e.scan \in Scans
    BY DEF ScanEvent
  <2> QED BY <2>1, <2>2, <2>3
<1>1. ASSUME UNCHANGED vars, settled' \subseteq Scans,
             \A t \in settled' : t \in settled \/ ~Begun(t)
      PROVE  QueueInv'
  <2>1. UNCHANGED <<queue, request, phase, reported, outcome>>
    BY <1>1 DEF vars, pastVars
  <2>2. ASSUME NEW e \in ScanEvent, InQueue(e)' PROVE EventOK(e)'
    <3>1. EventOK(e)
      BY <2>1, <2>2 DEF QueueInv, InQueue
    <3>2. e.scan \in settled' => e.scan \in settled
      BY <1>1, <3>1 DEF EventOK
    <3> QED BY <2>1, <3>1, <3>2, EventStays DEF Begun
  <2>3. \A t \in settled' : Begun(t)' => outcome'[t] # "none"
    BY <1>1, <2>1 DEF QueueInv, Begun
  <2>4. \A i, j \in 1..Len(queue') : i < j => Apart(queue'[i], queue'[j])
    BY <2>1 DEF QueueInv
  <2> QED BY <2>2, <2>3, <2>4 DEF QueueInv, Apart, Terminal
<1>2. ASSUME UNCHANGED shown, NEW s \in Scans, ScanMoves(s) PROVE QueueInv'
  <2>0. settled' = settled /\ settled \subseteq Scans
    BY <1>2 DEF shown, CallInv
  <2>1. /\ request' = request
        /\ \A t \in Scans : Begun(t) => phase'[t] \notin {"new", "rejected"}
        /\ \A t \in Scans \ {s} : phase'[t] = phase[t]
    BY <1>2 DEF ScanMoves, Begun
  <2>2. s \in settled => phase[s] # "new"
    BY DEF CallInv
  <2>3. phase[s] # "new" /\ phase'[s] \notin {"new", "rejected"} => Begun(s)
    BY <1>2 DEF ScanMoves, Begun
  <2>4. CASE UNCHANGED <<queue, reported, outcome>>
    <3>1. ASSUME NEW e \in ScanEvent, InQueue(e)' PROVE EventOK(e)'
      <4>1. EventOK(e) /\ e.scan \in Scans
        BY <2>4, <3>1 DEF QueueInv, InQueue, ScanEvent
      <4> QED BY <2>0, <2>1, <2>4, <4>1, EventStays
    <3>2. \A t \in settled' : Begun(t)' => outcome'[t] # "none"
      BY <2>0, <2>1, <2>2, <2>3, <2>4 DEF QueueInv, Begun
    <3>3. \A i, j \in 1..Len(queue') : i < j => Apart(queue'[i], queue'[j])
      BY <2>4 DEF QueueInv
    <3> QED BY <3>1, <3>2, <3>3 DEF QueueInv, Apart, Terminal
  <2>5. ASSUME NEW e \in ScanEvent, Emits(s, e) PROVE QueueInv'
    <3>1. /\ queue' = Append(queue, e) /\ e.scan = s /\ Begun(s)
          /\ phase'[s] \notin {"new", "rejected"}
      BY <2>5 DEF Emits
    <3>2. /\ Len(queue') = Len(queue) + 1 /\ queue'[Len(queue) + 1] = e
          /\ \A i \in 1..Len(queue) : queue'[i] = queue[i]
          /\ \A i \in 1..Len(queue') : i \in 1..Len(queue) \/ i = Len(queue) + 1
      BY <1>0, <3>1
    <3>3. /\ \A t \in Scans : reported[t] \subseteq reported'[t]
          /\ \A t \in Scans : outcome[t] # "none" => outcome'[t] = outcome[t]
      <4>1. reported \in [Scans -> SUBSET Pairs] /\ outcome \in [Scans -> Outcomes]
        BY <1>0 DEF Shape
      <4>2. reported' = reported \/ reported' = [reported EXCEPT ![s] = @ \cup {e.pair}]
        BY <2>5 DEF Emits
      <4>3. outcome' = outcome \/ (outcome[s] = "none" /\ outcome' = [outcome EXCEPT ![s] = e.kind])
        BY <2>5, <3>1 DEF Emits, Terminal
      <4>4. \A t \in Scans : reported[t] \subseteq reported'[t]
        BY <4>1, <4>2
      <4>5. \A t \in Scans : outcome[t] # "none" => outcome'[t] = outcome[t]
        BY <4>1, <4>3
      <4> QED BY <4>4, <4>5
    <3>4. s \in settled => e.kind = "progress"
      BY <2>5, <3>1 DEF Emits, QueueInv
    <3>5. EventOK(e)'
      <4>1. phase'[e.scan] \notin {"new", "rejected"} /\ Total(e.scan)' = Total(e.scan)
        BY <2>1, <3>1 DEF Total
      <4>2. e.kind = "host" => e.pair \in reported'[e.scan]
        BY <1>0, <2>5, <3>1 DEF Emits, Terminal, Shape
      <4>3. Terminal(e) => outcome'[e.scan] = e.kind
        BY <1>0, <2>5, <3>1 DEF Emits, Terminal, Shape
      <4>4. e.kind = "done" => e.done = Total(e.scan) /\ e.total = Total(e.scan)
        BY <2>5, <3>1 DEF Emits, Terminal
      <4> QED BY <2>0, <3>1, <3>4, <4>1, <4>2, <4>3, <4>4 DEF EventOK, Begun, Terminal
    <3>6. ASSUME NEW f \in ScanEvent, InQueue(f) PROVE EventOK(f)' /\ Apart(f, e)
      <4>1. EventOK(f) /\ f.scan \in Scans
        BY <3>6 DEF QueueInv, ScanEvent
      <4>2. EventOK(f)'
        BY <2>0, <2>1, <3>3, <4>1, EventStays
      <4>3. Apart(f, e)
        BY <2>5, <3>1, <4>1 DEF Emits, EventOK, Apart, Terminal
      <4> QED BY <4>2, <4>3
    <3>7. \A i, j \in 1..Len(queue') : i < j => Apart(queue'[i], queue'[j])
      <4>1. ASSUME NEW i \in 1..Len(queue'), NEW j \in 1..Len(queue'), i < j
            PROVE  i \in 1..Len(queue)
        BY <1>0, <3>2, <4>1
      <4>2. \A i, j \in 1..Len(queue) : i < j => Apart(queue'[i], queue'[j])
        BY <3>2 DEF QueueInv
      <4>3. \A i \in 1..Len(queue) : Apart(queue'[i], e)
        BY <1>0, <3>2, <3>6 DEF InQueue
      <4> QED BY <3>2, <4>1, <4>2, <4>3
    <3>8. ASSUME NEW f \in ScanEvent, InQueue(f)' PROVE EventOK(f)'
      <4>1. InQueue(f) \/ f = e
        BY <3>2, <3>8 DEF InQueue
      <4> QED BY <3>5, <3>6, <4>1
    <3>9. \A t \in settled' : Begun(t)' => outcome'[t] # "none"
      BY <2>0, <2>1, <2>2, <2>3, <3>3 DEF QueueInv, Begun
    <3> QED BY <3>7, <3>8, <3>9 DEF QueueInv, Apart, Terminal
  <2> QED BY <1>2, <2>4, <2>5 DEF ScanMoves
<1>3. ASSUME NEW s \in Scans, Search(s) PROVE QueueInv'
  BY <1>1, <1>3 DEF Search, CallInv
<1>4. ASSUME NEW s \in Scans, StartReturns(s) PROVE QueueInv'
  BY <1>1, <1>4 DEF StartReturns, CallInv, Begun
<1>5. CASE Deliver
  <2>1. PICK e \in ScanEvent :
          /\ e.scan \in Scans /\ EventOK(e)
          /\ HandleProgress(e) \/ HandleHost(e) \/ HandleTerminal(e)
          /\ Len(queue) \in Nat /\ Len(queue') = Len(queue) - 1
          /\ \A i \in 1..Len(queue') :
               i + 1 \in 1..Len(queue) /\ queue'[i] = queue[i + 1] /\ Apart(e, queue'[i])
          /\ UNCHANGED <<request, phase, reported, outcome>>
    BY <1>5, Delivered
  <2>2. settled' = settled \/ (Terminal(e) /\ settled' = settled \cup {e.scan})
    BY <2>1 DEF HandleProgress, HandleHost, HandleTerminal, Terminal
  <2>3. ASSUME NEW f \in ScanEvent, InQueue(f)' PROVE EventOK(f)'
    <3>1. InQueue(f) /\ Apart(e, f)
      BY <2>1, <2>3 DEF InQueue
    <3>2. EventOK(f)
      BY <3>1 DEF QueueInv
    <3>3. f.scan \in settled' => f.scan \in settled \/ f.kind = "progress"
      BY <2>2, <3>1 DEF Apart
    <3> QED BY <2>1, <3>2, <3>3, EventStays DEF Begun
  <2>4. \A i, j \in 1..Len(queue') : i < j => Apart(queue'[i], queue'[j])
    <3>1. \A i, j \in 1..Len(queue) : i < j => Apart(queue[i], queue[j])
      BY DEF QueueInv
    <3>2. ASSUME NEW i \in 1..Len(queue'), NEW j \in 1..Len(queue'), i < j
          PROVE  Apart(queue'[i], queue'[j])
      <4>1. i + 1 < j + 1 /\ i + 1 \in 1..Len(queue) /\ j + 1 \in 1..Len(queue)
        BY <2>1, <3>2
      <4>2. queue'[i] = queue[i + 1] /\ queue'[j] = queue[j + 1]
        BY <2>1
      <4> QED BY <3>1, <4>1, <4>2
    <3> QED BY <3>2
  <2>5. \A t \in settled' : Begun(t)' => outcome'[t] # "none"
    BY <2>1, <2>2 DEF QueueInv, EventOK, Terminal, Begun
  <2> QED BY <2>3, <2>4, <2>5 DEF QueueInv, Apart, Terminal
<1> QED BY <1>1, <1>2, <1>3, <1>4, <1>5, PanelMoves DEF shown, CallInv

\* Only a search opens a scan, and then every scan still open is company.
LEMMA AloneStep == IInv /\ CallInv /\ QueueInv /\ AloneInv /\ [PanelNext]_panelVars => AloneInv'
<1> SUFFICES ASSUME IInv, CallInv, QueueInv, AloneInv, [PanelNext]_panelVars PROVE AloneInv'
  OBVIOUS
<1>1. ASSUME UNCHANGED <<latest, company>>, Open' \subseteq Open PROVE AloneInv'
  BY <1>1 DEF AloneInv
<1>2. CASE UNCHANGED shown
  BY <1>1, <1>2 DEF shown, Open
<1>3. ASSUME NEW s \in Scans, Search(s) PROVE AloneInv'
  <2>1. /\ call[s] = "none" /\ call' = [call EXCEPT ![s] = "asked"] /\ settled' = settled
        /\ latest' = s
        /\ company' = IF Open = {} THEN company ELSE company \cup Open \cup {s}
    BY <1>3 DEF Search
  <2>2. Open' \subseteq Open \cup {s}
    BY <2>1 DEF Open, CallInv
  <2> QED BY <2>1, <2>2 DEF AloneInv
<1>4. ASSUME NEW s \in Scans, StartReturns(s) PROVE AloneInv'
  <2>1. /\ call[s] = "asked" /\ call' = [call EXCEPT ![s] = "answered"]
        /\ settled \subseteq settled' /\ UNCHANGED <<latest, company>>
    BY <1>4 DEF StartReturns
  <2>2. Open' \subseteq Open
    BY <2>1 DEF Open, CallInv
  <2> QED BY <1>1, <2>1, <2>2
<1>5. CASE Deliver
  <2>1. PICK e \in ScanEvent :
          /\ HandleProgress(e) \/ HandleHost(e) \/ HandleTerminal(e)
          /\ UNCHANGED <<call, latest, company>>
    BY <1>5, Delivered
  <2>2. settled \subseteq settled'
    BY <2>1 DEF HandleProgress, HandleHost, HandleTerminal
  <2>3. Open' \subseteq Open
    BY <2>1, <2>2 DEF Open
  <2> QED BY <1>1, <2>1, <2>3
<1> QED BY <1>2, <1>3, <1>4, <1>5, PanelMoves

\* How a step that emits e, or delivers it, changes what is queued.
LEMMA QueuedAfterEmit ==
  ASSUME queue \in Seq(ScanEvent), NEW e \in ScanEvent, queue' = Append(queue, e), NEW s, NEW p
  PROVE  Queued(s, p)' <=> Queued(s, p) \/ Row(e, s, p)
<1>1. /\ Len(queue) \in Nat /\ Len(queue') = Len(queue) + 1 /\ queue'[Len(queue) + 1] = e
      /\ \A i \in 1..Len(queue) : queue'[i] = queue[i]
  OBVIOUS
<1>2. /\ \A i \in 1..Len(queue') : i \in 1..Len(queue) \/ i = Len(queue) + 1
      /\ \A i \in 1..Len(queue) : i \in 1..Len(queue')
      /\ Len(queue) + 1 \in 1..Len(queue')
  BY <1>1
<1> QED BY <1>1, <1>2 DEF Queued, Row

LEMMA QueuedAfterDelivery ==
  ASSUME Len(queue) \in Nat, 1 \in 1..Len(queue), NEW e \in ScanEvent, queue[1] = e,
         Len(queue') = Len(queue) - 1,
         \A i \in 1..Len(queue') :
           i + 1 \in 1..Len(queue) /\ queue'[i] = queue[i + 1] /\ Apart(e, queue'[i]),
         NEW s, NEW p
  PROVE  /\ Queued(s, p) <=> Row(e, s, p) \/ Queued(s, p)'
         /\ ~(Row(e, s, p) /\ Queued(s, p)')
<1>1. \A i \in 1..Len(queue) :
        i = 1 \/ (i - 1 \in 1..Len(queue') /\ queue'[i - 1] = queue[i])
  <2>1. ASSUME NEW i \in 1..Len(queue), i # 1
        PROVE  i - 1 \in 1..Len(queue') /\ (i - 1) + 1 = i
    BY <2>1
  <2> QED BY <2>1
<1>2. Queued(s, p) => Row(e, s, p) \/ Queued(s, p)'
  BY <1>1 DEF Queued, Row
<1>3. Row(e, s, p) \/ Queued(s, p)' => Queued(s, p)
  BY DEF Queued, Row
<1>4. ~(Row(e, s, p) /\ Queued(s, p)')
  BY DEF Queued, Row, Apart
<1> QED BY <1>2, <1>3, <1>4

\* A step of the service: what it emits for the last scan is queued.
LEMMA ListStepOfScan ==
  ASSUME IInv, CallInv, QueueInv, ListInv, UNCHANGED shown,
         NEW t \in Scans, ScanMoves(t), Start(t) => call[t] = "asked"
  PROVE  ListInv'
<1>0. /\ queue \in Seq(ScanEvent) /\ reported \in [Scans -> SUBSET Pairs]
      /\ outcome \in [Scans -> Outcomes]
  BY DEF IInv, Shape
<1>1. UNCHANGED <<call, activeScan, status, rows, stats, settled, early, latest, company>>
  BY DEF shown
<1>2. ASSUME NEW s \in Scans, s = latest, Quiet(s), Begun(s)' PROVE Listing(s)'
  <2>0. Total(s)' = Total(s)
    BY DEF ScanMoves, Total
  <2>1. CASE ~Begun(s)
    <3>1. s = t /\ Start(s)
      BY <1>2, <2>1 DEF Begun, ScanMoves
    <3>2. phase[s] = "new" /\ reported' = reported
      BY <3>1 DEF Start, pastVars
    <3>3. call[s] = "asked" /\ s \notin settled
      BY <1>2, <3>1, <3>2 DEF CallInv
    <3>4. reported[s] = {}
      <4>1. ScanInv(s) /\ Shape
        BY DEF IInv
      <4>2. next[s] = 1
        BY <3>2, <4>1 DEF ScanInv, PhaseInv
      <4>3. \A p \in Pairs : probe[s][p] = "none"
        BY <4>1, <4>2, ScanAssumption DEF ScanInv, ProbeInv, Pairs
      <4> QED BY <4>1, <4>3 DEF ScanInv, ProbeInv, Shape
    <3> QED BY <1>1, <3>2, <3>3, <3>4 DEF Listing
  <2>2. CASE Begun(s) /\ UNCHANGED <<queue, reported, outcome>>
    <3>1. Listing(s)
      BY <1>2, <2>2, PanelAssumption DEF ListInv
    <3> QED BY <1>1, <2>0, <2>2, <3>1 DEF Listing, Queued, Row, Listed
  <2>3. ASSUME Begun(s), NEW e \in ScanEvent, Emits(t, e) PROVE Listing(s)'
    <3>1. Listing(s)
      BY <1>2, <2>3, PanelAssumption DEF ListInv
    <3>2. \A p : Queued(s, p)' <=> Queued(s, p) \/ Row(e, s, p)
      BY <1>0, <2>3, QueuedAfterEmit DEF Emits
    <3>3. \A p : Row(e, s, p) => p \notin reported[s]
      BY <2>3 DEF Emits, Row, Terminal
    <3>4. /\ \A p \in reported'[s] : p \in reported[s] \/ Row(e, s, p)
          /\ reported[s] \subseteq reported'[s]
      BY <1>0, <2>3 DEF Emits, Row, Terminal
    <3>5. s \in settled => outcome'[s] = outcome[s]
      <4>1. s \in settled => outcome[s] # "none"
        BY <2>3 DEF QueueInv
      <4>2. outcome' = outcome \/ (outcome[t] = "none" /\ outcome' = [outcome EXCEPT ![t] = e.kind])
        BY <2>3 DEF Emits, Terminal
      <4> QED BY <1>0, <4>1, <4>2
    <3>6. call[s] = "asked" =>
            s \notin settled /\ \A p \in reported'[s] : Queued(s, p)'
      BY <3>1, <3>2, <3>4 DEF Listing
    <3>7. call[s] = "answered" =>
            \A k \in DOMAIN rows : /\ rows[k].scan = s /\ rows[k].pair \in reported'[s]
                                   /\ ~Queued(s, rows[k].pair)'
      <4>1. ASSUME call[s] = "answered", NEW k \in DOMAIN rows
            PROVE  rows[k].scan = s /\ rows[k].pair \in reported[s] /\ ~Queued(s, rows[k].pair)
        BY <3>1, <4>1 DEF Listing
      <4>2. ASSUME call[s] = "answered", NEW k \in DOMAIN rows
            PROVE  rows[k].pair \in reported'[s] /\ ~Queued(s, rows[k].pair)'
        <5>1. PICK p : p = rows[k].pair
          OBVIOUS
        <5>2. p \in reported'[s] /\ ~Queued(s, p)'
          BY <3>2, <3>3, <3>4, <4>1, <4>2, <5>1
        <5> QED BY <1>1, <5>1, <5>2
      <4> QED BY <4>1, <4>2
    <3>8. call[s] = "answered" => \A p \in reported'[s] : Queued(s, p)' \/ Listed(p)
      BY <3>1, <3>2, <3>4 DEF Listing
    <3> QED BY <1>1, <2>0, <3>1, <3>5, <3>6, <3>7, <3>8 DEF Listing, Listed
  <2> QED BY <2>1, <2>2, <2>3 DEF ScanMoves
<1> QED BY <1>1, <1>2 DEF ListInv, Quiet, CallInv

\* The delivery of an event: a row goes from the queue to the panel.
LEMMA ListStepOfDelivery ==
  ASSUME IInv, CallInv, QueueInv, AloneInv, ListInv, Deliver
  PROVE  ListInv'
<1>1. PICK e \in ScanEvent :
        /\ e.scan \in Scans /\ EventOK(e) /\ call[e.scan] # "none"
        /\ HandleProgress(e) \/ HandleHost(e) \/ HandleTerminal(e)
        /\ early' = IF call[e.scan] = "asked" THEN early \cup {e.scan} ELSE early
        /\ Len(queue) \in Nat /\ 1 \in 1..Len(queue) /\ queue[1] = e
        /\ Len(queue') = Len(queue) - 1
        /\ \A i \in 1..Len(queue') :
             i + 1 \in 1..Len(queue) /\ queue'[i] = queue[i + 1] /\ Apart(e, queue'[i])
        /\ UNCHANGED <<request, phase, ticker, reported, outcome, call, latest, company>>
  BY Delivered
<1>2. ASSUME NEW s \in Scans, s = latest, Quiet(s)', Begun(s)' PROVE Listing(s)'
  <2>0. Total(s)' = Total(s) /\ (e.scan = s => call[s] # "asked")
    BY <1>1, <1>2 DEF Total, Quiet
  <2>1. Quiet(s) /\ Listing(s)
    <3>1. Quiet(s) /\ Begun(s)
      BY <1>1, <1>2 DEF Quiet, Begun
    <3> QED BY <1>2, <3>1, PanelAssumption DEF ListInv
  <2>2. \A p : /\ Queued(s, p) <=> Row(e, s, p) \/ Queued(s, p)'
               /\ ~(Row(e, s, p) /\ Queued(s, p)')
    BY <1>1, QueuedAfterDelivery
  <2>3. e.kind = "progress" \/ e.scan = s \/ call[s] = "asked"
    <3>1. SUFFICES ASSUME e.kind # "progress", e.scan # s PROVE FALSE
      OBVIOUS
    <3>2. e.scan \notin settled
      BY <1>1, <3>1 DEF EventOK
    <3>3. e.scan \in Open
      BY <1>1, <3>2 DEF Open, CallInv
    <3> QED BY <1>2, <2>1, <3>1, <3>3, PanelAssumption DEF AloneInv, Quiet
  <2>4. CASE call[s] = "asked"
    <3>1. s \notin settled'
      BY <1>1, <2>0, <2>1, <2>4 DEF Listing, HandleProgress, HandleHost, HandleTerminal
    <3>2. \A p \in reported[s] : Queued(s, p)'
      BY <2>0, <2>1, <2>2, <2>4 DEF Listing, Row
    <3> QED BY <1>1, <2>4, <3>1, <3>2 DEF Listing
  <2>5. CASE e.kind = "progress"
    <3>1. UNCHANGED <<activeScan, status, rows, stats, settled, call, reported, outcome>>
      BY <1>1, <2>5 DEF HandleProgress, HandleHost, HandleTerminal
    <3>2. \A p : Queued(s, p)' <=> Queued(s, p)
      BY <2>2, <2>5 DEF Row
    <3> QED BY <2>0, <2>1, <3>1, <3>2 DEF Listing, Listed
  <2>6. CASE e.kind = "host" /\ e.scan = s /\ call[s] # "asked"
    <3>1. /\ UNCHANGED <<activeScan, status, stats, settled, call, reported, outcome>>
          /\ rows' = IF Relevant(e) THEN Append(rows, [scan |-> e.scan, pair |-> e.pair]) ELSE rows
      BY <1>1, <2>6 DEF HandleProgress, HandleHost, HandleTerminal
    <3>2. SUFFICES ASSUME call[s] = "answered" PROVE Listing(s)'
      BY <2>6, <3>1 DEF Listing
    <3>3. s \notin settled /\ e.pair \in reported[s] /\ Row(e, s, e.pair)
      BY <1>1, <2>6 DEF EventOK, Row
    <3>4. rows' = Append(rows, [scan |-> e.scan, pair |-> e.pair]) /\ activeScan = s
      BY <2>1, <2>6, <3>1, <3>2, <3>3 DEF Listing, Relevant
    <3>5. /\ Len(rows) \in Nat /\ DOMAIN rows = 1..Len(rows)
          /\ DOMAIN rows' = 1..(Len(rows) + 1)
          /\ \A k \in 1..Len(rows) : rows'[k] = rows[k]
          /\ rows'[Len(rows) + 1].scan = s /\ rows'[Len(rows) + 1].pair = e.pair
      <4>1. PICK R : R = [scan : Scans, pair : 0..MaxPairs]
        OBVIOUS
      <4>2. PICK row \in R : row = [scan |-> e.scan, pair |-> e.pair]
        BY <4>1 DEF ScanEvent
      <4>3. rows \in Seq(R) /\ rows' = Append(rows, row)
        BY <3>4, <4>1, <4>2 DEF CallInv
      <4>4. /\ Len(rows) \in Nat /\ DOMAIN rows = 1..Len(rows)
            /\ DOMAIN rows' = 1..(Len(rows) + 1)
            /\ \A k \in 1..Len(rows) : rows'[k] = rows[k]
            /\ rows'[Len(rows) + 1] = row
        BY <4>3
      <4> QED BY <2>6, <4>2, <4>4
    <3>6. /\ \A k \in DOMAIN rows' : k \in DOMAIN rows \/ k = Len(rows) + 1
          /\ \A k \in DOMAIN rows : k \in DOMAIN rows' /\ rows'[k] = rows[k]
          /\ Len(rows) + 1 \in DOMAIN rows'
      BY <3>5
    <3>7. \A k \in DOMAIN rows : /\ rows[k].scan = s /\ rows[k].pair \in reported[s]
                                 /\ ~Queued(s, rows[k].pair) /\ rows[k].pair # e.pair
      BY <2>1, <2>2, <3>2, <3>3 DEF Listing
    <3>8. \A k \in DOMAIN rows' : /\ rows'[k].scan = s /\ rows'[k].pair \in reported[s]
                                  /\ \A p : p = rows'[k].pair => ~Queued(s, p)'
      BY <2>2, <3>3, <3>5, <3>6, <3>7
    <3>9. \A k, l \in DOMAIN rows' : rows'[k].pair = rows'[l].pair => k = l
      <4>1. \A k, l \in DOMAIN rows : rows[k].pair = rows[l].pair => k = l
        BY <2>1, <3>2 DEF Listing
      <4> QED BY <3>5, <3>6, <3>7, <4>1
    <3>10. \A p \in reported[s] : Queued(s, p)' \/ Listed(p)'
      <4>1. ASSUME NEW p \in reported[s], Listed(p) PROVE Listed(p)'
        BY <3>6, <4>1 DEF Listed
      <4>2. ASSUME NEW p \in reported[s], Row(e, s, p) PROVE Listed(p)'
        BY <3>5, <3>6, <4>2 DEF Listed, Row
      <4>3. \A p \in reported[s] : Queued(s, p) \/ Listed(p)
        BY <2>1, <3>2 DEF Listing
      <4> QED BY <2>2, <4>1, <4>2, <4>3
    <3> QED BY <3>1, <3>2, <3>3, <3>4, <3>8, <3>9, <3>10 DEF Listing
  <2>7. CASE Terminal(e) /\ e.scan = s /\ call[s] # "asked"
    <3>1. /\ UNCHANGED <<rows, call, reported, outcome>> /\ status' = e.kind
          /\ e.kind = "done" => stats' = [done |-> e.done, total |-> e.total]
          /\ settled' = settled \cup {s}
      BY <1>1, <2>7 DEF HandleProgress, HandleHost, HandleTerminal, Terminal
    <3>2. \A p : Queued(s, p)' <=> Queued(s, p)
      BY <2>2, <2>7 DEF Row, Terminal
    <3>3. /\ outcome[s] = e.kind
          /\ e.kind = "done" => stats' = [done |-> Total(s), total |-> Total(s)]
      BY <1>1, <2>7, <3>1 DEF EventOK
    <3> QED BY <2>0, <2>1, <2>7, <3>1, <3>2, <3>3 DEF Listing, Listed
  <2> QED BY <2>3, <2>4, <2>5, <2>6, <2>7 DEF ScanEvent, Terminal
<1> QED BY <1>1, <1>2 DEF ListInv, CallInv

LEMMA ListStep ==
  IInv /\ CallInv /\ QueueInv /\ AloneInv /\ ListInv /\ [PanelNext]_panelVars => ListInv'
<1> SUFFICES ASSUME IInv, CallInv, QueueInv, AloneInv, ListInv, [PanelNext]_panelVars
             PROVE  ListInv'
  OBVIOUS
<1>1. CASE UNCHANGED shown /\ UNCHANGED vars
  <2>1. /\ UNCHANGED <<call, activeScan, status, rows, stats, settled, early, latest, company>>
        /\ UNCHANGED <<request, phase, queue, reported, outcome>>
    BY <1>1 DEF shown, vars, pastVars
  <2>2. \A s : Listing(s)' <=> Listing(s)
    BY <2>1 DEF Listing, Queued, Row, Listed, Total
  <2> QED BY <2>1, <2>2 DEF ListInv, Quiet, Begun
<1>2. ASSUME UNCHANGED shown, NEW t \in Scans, ScanMoves(t), Start(t) => call[t] = "asked"
      PROVE  ListInv'
  BY <1>2, ListStepOfScan
<1>3. ASSUME NEW t \in Scans, Search(t) PROVE ListInv'
  BY <1>3 DEF Search, vars, CallInv, ListInv, Begun
<1>4. ASSUME NEW t \in Scans, StartReturns(t) PROVE ListInv'
  <2>0. /\ call[t] = "asked" /\ call' = [call EXCEPT ![t] = "answered"]
        /\ UNCHANGED <<request, phase, queue, reported, outcome, early, latest, company>>
        /\ phase[t] # "rejected" => activeScan' = t /\ rows' = << >> /\ settled' = settled
    BY <1>4 DEF StartReturns, vars, pastVars
  <2>1. ASSUME NEW s \in Scans, s = latest, Quiet(s), Begun(s) PROVE Listing(s)'
    <3>1. Listing(s)
      BY <2>1, PanelAssumption DEF ListInv
    <3>2. t = s
      BY <2>0, <2>1, PanelAssumption DEF AloneInv, Open, Quiet
    <3>3. /\ s \notin settled' /\ activeScan' = s /\ rows' = << >> /\ call'[s] = "answered"
          /\ \A p \in reported'[s] : Queued(s, p)
      BY <2>0, <2>1, <3>1, <3>2 DEF Listing, Begun, CallInv
    <3>4. \A p : Queued(s, p)' <=> Queued(s, p)
      BY <2>0 DEF Queued, Row
    <3>5. DOMAIN rows' = {}
      BY <3>3
    <3> QED BY <3>3, <3>4, <3>5 DEF Listing
  <2> QED BY <2>0, <2>1 DEF ListInv, Quiet, Begun, CallInv
<1>5. CASE Deliver
  BY <1>5, ListStepOfDelivery
<1> QED BY <1>1, <1>2, <1>3, <1>4, <1>5, PanelMoves

LEMMA PanelHolds == PanelSpec => [](IInv /\ CallInv /\ QueueInv /\ AloneInv /\ ListInv)
<1>1. PanelInit => IInv /\ CallInv /\ QueueInv /\ AloneInv /\ ListInv
  <2> SUFFICES ASSUME PanelInit PROVE IInv /\ CallInv /\ QueueInv /\ AloneInv /\ ListInv
    OBVIOUS
  <2>1. IInv
    BY InitIInv DEF PanelInit
  <2>2. /\ phase = [s \in Scans |-> "new"] /\ call = [s \in Scans |-> "none"]
        /\ ticker = {} /\ queue = << >> /\ rows = << >> /\ settled = {} /\ latest = NoScan
    BY DEF PanelInit, Init
  <2>3. CallInv
    <3>1. rows \in Seq([scan : Scans, pair : 0..MaxPairs])
      BY <2>2
    <3> QED BY <2>2, <3>1 DEF CallInv
  <2>4. QueueInv
    <3>1. 1..Len(queue) = {}
      BY <2>2
    <3> QED BY <2>2, <3>1 DEF QueueInv, InQueue
  <2>5. AloneInv /\ ListInv
    BY <2>2 DEF AloneInv, ListInv
  <2> QED BY <2>1, <2>3, <2>4, <2>5
<1>2. IInv /\ CallInv /\ QueueInv /\ AloneInv /\ ListInv /\ [PanelNext]_panelVars
        => (IInv /\ CallInv /\ QueueInv /\ AloneInv /\ ListInv)'
  BY PanelStepIInv, CallStep, QueueStep, AloneStep, ListStep
<1> QED BY <1>1, <1>2, PTL DEF PanelSpec

\* The pairs of the rows are 1 to n, each once: there are n rows.
LEMMA RowsCount ==
  ASSUME NEW n \in Nat, NEW R, NEW r \in Seq(R),
         \A k \in DOMAIN r : r[k].pair \in 1..n,
         \A k, l \in DOMAIN r : r[k].pair = r[l].pair => k = l,
         \A p \in 1..n : \E k \in DOMAIN r : r[k].pair = p
  PROVE  Len(r) = n
<1>1. Len(r) \in Nat /\ DOMAIN r = 1..Len(r)
  OBVIOUS
<1> DEFINE f == [k \in 1..Len(r) |-> r[k].pair]
<1>2. f \in [1..Len(r) -> 1..n] /\ \A k \in 1..Len(r) : f[k] = r[k].pair
  BY <1>1
<1> HIDE DEF f
<1>3. f \in Injection(1..Len(r), 1..n)
  BY <1>1, <1>2 DEF Injection, IsInjective
<1>4. f \in Surjection(1..Len(r), 1..n)
  BY <1>1, <1>2 DEF Surjection
<1>5. ExistsBijection(1..Len(r), 1..n)
  BY <1>3, <1>4 DEF ExistsBijection, Bijection
<1>6. /\ IsFiniteSet(1..Len(r)) /\ Cardinality(1..Len(r)) = Len(r)
      /\ Cardinality(1..n) = n
  <2>1. \A m \in Nat : 1 \in Int /\ m \in Int /\ (IF 1 > m THEN 0 ELSE m - 1 + 1) = m
    OBVIOUS
  <2>2. \A m \in Nat : IsFiniteSet(1..m) /\ Cardinality(1..m) = m
    BY <2>1, FS_Interval
  <2> QED BY <1>1, <2>2
<1> QED BY <1>5, <1>6, FS_Bijection

(* scannerStore.ts:155-168: when a scan that met no other, and whose       *)
(* answer came first, is done, the panel lists each of its pairs once and  *)
(* its statistics agree with the list.                                     *)
THEOREM DoneScansAreListed == PanelSpec => []DoneScanIsListed
<1>1. IInv /\ CallInv /\ QueueInv /\ ListInv => DoneScanIsListed
  <2> SUFFICES ASSUME IInv, CallInv, QueueInv, ListInv,
                      NEW s \in Scans, Quiet(s), s = latest, s \in settled, outcome[s] = "done"
               PROVE  /\ status = "done"
                      /\ Len(rows) = stats.total /\ stats.done = stats.total
                      /\ {rows[i] : i \in DOMAIN rows} = [scan : {s}, pair : 1..Total(s)]
    BY DEF DoneScanIsListed
  <2>0. Total(s) \in 0..MaxPairs /\ reported[s] = 1..Total(s)
    <3>1. Total(s) \in Nat /\ Total(s) <= MaxPairs
      BY TotalFacts, ScanAssumption DEF IInv
    <3>2. Total(s) \in 0..MaxPairs
      BY <3>1, ScanAssumption
    <3> QED BY <3>2, DoneCounts
  <2>1. Begun(s)
    BY DEF IInv, ScanInv, PhaseInv, Begun
  <2>2. Listing(s)
    BY <2>1, PanelAssumption DEF ListInv
  <2>3. call[s] = "answered"
    BY <2>1, <2>2 DEF CallInv, Begun, Listing
  <2>4. status = "done" /\ stats = [done |-> Total(s), total |-> Total(s)]
    BY <2>2, <2>3 DEF Listing
  <2>5. \A p : ~Queued(s, p)
    <3>1. queue \in Seq(ScanEvent)
      BY DEF IInv, Shape
    <3>2. \A i \in 1..Len(queue) : queue[i] \in ScanEvent /\ EventOK(queue[i])
      BY <3>1 DEF QueueInv, InQueue
    <3> QED BY <3>2 DEF Queued, Row, EventOK
  <2>6. /\ \A k \in DOMAIN rows : rows[k].scan = s /\ rows[k].pair \in 1..Total(s)
        /\ \A k, l \in DOMAIN rows : rows[k].pair = rows[l].pair => k = l
        /\ \A p \in 1..Total(s) : \E k \in DOMAIN rows : rows[k].pair = p
    BY <2>0, <2>2, <2>3, <2>5 DEF Listing, Listed
  <2>7. PICK R : R = [scan : Scans, pair : 0..MaxPairs]
    OBVIOUS
  <2>8. rows \in Seq(R) /\ \A k \in DOMAIN rows : rows[k] \in R
    <3>1. rows \in Seq(R)
      BY <2>7 DEF CallInv
    <3> QED BY <3>1
  <2>9. Len(rows) = Total(s)
    <3>1. PICK n \in Nat : n = Total(s)
      BY <2>0
    <3>2. PICK r \in Seq(R) : r = rows
      BY <2>8
    <3>3. /\ \A k \in DOMAIN r : r[k].pair \in 1..n
          /\ \A k, l \in DOMAIN r : r[k].pair = r[l].pair => k = l
          /\ \A p \in 1..n : \E k \in DOMAIN r : r[k].pair = p
      BY <2>6, <3>1, <3>2
    <3>4. Len(r) = n
      BY <3>3, RowsCount
    <3> QED BY <3>1, <3>2, <3>4
  <2>10. ASSUME NEW k \in DOMAIN rows PROVE rows[k] \in [scan : {s}, pair : 1..Total(s)]
    <3>1. rows[k] \in [scan : Scans, pair : 0..MaxPairs]
      BY <2>7, <2>8
    <3> QED BY <2>6, <3>1
  <2>11. ASSUME NEW row \in [scan : {s}, pair : 1..Total(s)]
         PROVE  \E k \in DOMAIN rows : rows[k] = row
    <3>1. PICK k \in DOMAIN rows : rows[k].pair = row.pair
      BY <2>6
    <3>2. rows[k] \in [scan : {s}, pair : 1..Total(s)]
      BY <2>10
    <3>3. rows[k].scan = row.scan
      BY <3>2
    <3>4. rows[k] = row
      BY <3>1, <3>2, <3>3
    <3> QED BY <3>4
  <2>12. {rows[i] : i \in DOMAIN rows} = [scan : {s}, pair : 1..Total(s)]
    <3>1. PICK W : W = [scan : {s}, pair : 1..Total(s)]
      OBVIOUS
    <3>2. /\ \A k \in DOMAIN rows : rows[k] \in W
          /\ \A row \in W : \E k \in DOMAIN rows : rows[k] = row
      BY <2>10, <2>11, <3>1
    <3>3. {rows[i] : i \in DOMAIN rows} = W
      BY <3>2
    <3> QED BY <3>1, <3>3
  <2> QED BY <2>4, <2>9, <2>12
<1> QED BY <1>1, PanelHolds, PTL
=============================================================================
