----------------------------- MODULE ScanService -----------------------------
(***************************************************************************)
(* The network scanner, services/scanner/service.go: Start, Stop and the   *)
(* goroutines of one sweep (the dispatch loop of run, one goroutine per    *)
(* probe, the progress ticker), for several scans side by side.            *)
(*                                                                         *)
(* The target list times the port list is a number of (address, port)      *)
(* pairs, dispatched in order; what a probe finds on the wire is left out, *)
(* and the three result counters are one.                                  *)
(***************************************************************************)
EXTENDS Naturals, Sequences, FiniteSets

CONSTANTS
  Scans,       \* scan ids
  BadTargets,  \* a request whose target list cannot be built
  NotAsked,    \* no request: the scan is never started
  MaxPairs,    \* bound: pairs of one request
  MaxTicks,    \* bound: progress events of one scan
  Plans,       \* bound: what the scans of a behaviour are asked to do, and
               \* how many progress events each emits at most
  Slots        \* clampMaxProbes(req.MaxProbes): 16..256 in the code

Pairs    == 1..MaxPairs
Requests == Pairs \cup {BadTargets, NotAsked}

ASSUME ScanAssumption ==
  /\ MaxPairs \in Nat \ {0} /\ Slots \in Nat \ {0} /\ MaxTicks \in Nat
  /\ BadTargets \notin Nat /\ NotAsked \notin Nat /\ BadTargets # NotAsked
  /\ Plans \subseteq [request : [Scans -> Requests], ticks : 0..MaxTicks]

VARIABLES
  request,     \* per scan: BadTargets, NotAsked or its number of pairs
  phase,       \* per scan: where run is
  slot,        \* per scan: the dispatch loop's semaphore slot
  next,        \* per scan: the next pair to dispatch
  probe,       \* per scan and pair: where the probe's goroutine is
  tally,       \* per scan: ssh + filtered + closed
  finished,    \* per scan: the done counter
  ticker,      \* scans whose progress goroutine runs
  ticksLeft,   \* per scan: progress events it may still emit
  registered,  \* the domain of s.cancels
  cancelled,   \* scans whose context is done
  queue,       \* scan:* events on their way to the frontend
  reported,    \* per scan: pairs whose scan:host was emitted (history)
  outcome,     \* per scan: its terminal event, or "none" (history)
  stopped,     \* scans that Stop has cancelled (history)
  atStop       \* per scan: at its first Stop, the next pair to dispatch and
               \* the pairs whose result was already accepted (history)

sweepVars == <<slot, next, probe, tally, finished>>
pastVars  == <<reported, outcome, stopped, atStop>>
vars == <<request, phase, sweepVars, ticker, ticksLeft, registered, cancelled,
          queue, pastVars>>

Emit(kind, s, pair, done, total) ==
  queue' = Append(queue, [kind |-> kind, scan |-> s, pair |-> pair,
                          done |-> done, total |-> total])

\* Mutant: a probe never gives its slot back.
BusyForever(s) == {p \in Pairs : probe[s][p] # "none"}
Busy(s)   == {p \in Pairs : probe[s][p] \in {"dialing", "kept", "reported"}}
Accepted(s) == {p \in Pairs : probe[s][p] \in {"kept", "reported", "over"}}
Total(s)  == IF request[s] \in Pairs THEN request[s] ELSE 0
Closed(s) == phase[s] \in {"cancelling", "completing", "over", "gone"}

-----------------------------------------------------------------------------
(* Start and Stop.                                                         *)

\* gateCfg and scanAllowed: the setting in config.yaml, or, when the file does
\* not decode, the one read at startup.  Either may be on or off at any time.
GateOpen == {TRUE, FALSE}

Start(s) ==
  /\ phase[s] = "new" /\ request[s] # NotAsked
  /\ \E open \in GateOpen :
       /\ phase' = [phase EXCEPT ![s] = IF open THEN "launched" ELSE "rejected"]
       /\ registered' = IF open THEN registered \cup {s} ELSE registered
  /\ UNCHANGED <<request, sweepVars, ticker, ticksLeft, cancelled, queue, pastVars>>

\* Stop of a scan that is not registered is an error and changes nothing.
Stop(s) ==
  /\ s \in registered
  /\ cancelled' = cancelled \cup {s}
  /\ stopped' = stopped \cup {s}
  /\ atStop' = IF s \in stopped THEN atStop
               ELSE [atStop EXCEPT ![s] = [next |-> next[s], accepted |-> Accepted(s)]]
  /\ UNCHANGED <<request, phase, sweepVars, ticker, ticksLeft, registered, queue,
                 reported, outcome>>

-----------------------------------------------------------------------------
(* run: build the targets, dispatch, wait, end.                            *)

BuildTargets(s) ==
  /\ phase[s] = "launched"
  /\ IF request[s] = BadTargets
     THEN /\ Emit("error", s, 0, 0, 0)
          /\ outcome' = [outcome EXCEPT ![s] = "error"]
          /\ phase' = [phase EXCEPT ![s] = "over"]
          /\ UNCHANGED ticker
     ELSE /\ phase' = [phase EXCEPT ![s] = "sweeping"]
          /\ ticker' = ticker \cup {s}
          /\ UNCHANGED <<queue, outcome>>
  /\ UNCHANGED <<request, sweepVars, ticksLeft, registered, cancelled, reported,
                 stopped, atStop>>

\* sem.Acquire: a slot, or an error when the context is done.
Acquire(s) ==
  /\ phase[s] = "sweeping" /\ slot[s] = "none" /\ next[s] <= Total(s)
  /\ \/ /\ Cardinality(Busy(s)) < Slots
        /\ slot' = [slot EXCEPT ![s] = "held"]
        /\ UNCHANGED phase
     \/ /\ s \in cancelled
        /\ phase' = [phase EXCEPT ![s] = "waiting"]
        /\ UNCHANGED slot
  /\ UNCHANGED <<request, next, probe, tally, finished, ticker, ticksLeft,
                 registered, cancelled, queue, pastVars>>

\* A context done since then gives the slot back and ends both loops.
CheckSlot(s) ==
  /\ phase[s] = "sweeping" /\ slot[s] = "held"
  /\ IF s \in cancelled
     THEN /\ slot' = [slot EXCEPT ![s] = "none"]
          /\ phase' = [phase EXCEPT ![s] = "waiting"]
     ELSE /\ slot' = [slot EXCEPT ![s] = "checked"]
          /\ UNCHANGED phase
  /\ UNCHANGED <<request, next, probe, tally, finished, ticker, ticksLeft,
                 registered, cancelled, queue, pastVars>>

Dispatch(s) ==
  /\ phase[s] = "sweeping" /\ slot[s] = "checked"
  /\ probe' = [probe EXCEPT ![s][next[s]] = "dialing"]
  /\ next' = [next EXCEPT ![s] = @ + 1]
  /\ slot' = [slot EXCEPT ![s] = "none"]
  /\ UNCHANGED <<request, phase, tally, finished, ticker, ticksLeft, registered,
                 cancelled, queue, pastVars>>

SweepEnds(s) ==
  /\ phase[s] = "sweeping" /\ slot[s] = "none" /\ next[s] > Total(s)
  /\ phase' = [phase EXCEPT ![s] = "waiting"]
  /\ UNCHANGED <<request, sweepVars, ticker, ticksLeft, registered, cancelled,
                 queue, pastVars>>

\* Mutant: the probes in flight are not waited for.
JoinAtOnce(s) ==
  /\ phase[s] = "waiting"
  /\ phase' = [phase EXCEPT ![s] = IF s \in cancelled THEN "cancelling" ELSE "completing"]
  /\ UNCHANGED <<request, sweepVars, ticker, ticksLeft, registered, cancelled,
                 queue, pastVars>>

\* Mutant: the context is not looked at before scan:done.
JoinUncancelled(s) ==
  /\ phase[s] = "waiting" /\ Busy(s) = {}
  /\ phase' = [phase EXCEPT ![s] = "completing"]
  /\ UNCHANGED <<request, sweepVars, ticker, ticksLeft, registered, cancelled,
                 queue, pastVars>>

\* wg.Wait, close(progressStop), and the last look at the context.
Join(s) ==
  /\ phase[s] = "waiting" /\ Busy(s) = {}
  /\ phase' = [phase EXCEPT ![s] = IF s \in cancelled THEN "cancelling" ELSE "completing"]
  /\ UNCHANGED <<request, sweepVars, ticker, ticksLeft, registered, cancelled,
                 queue, pastVars>>

EmitTerminal(s) ==
  /\ \/ /\ phase[s] = "cancelling"
        /\ Emit("cancelled", s, 0, 0, 0)
        /\ outcome' = [outcome EXCEPT ![s] = "cancelled"]
     \/ /\ phase[s] = "completing"
        /\ Emit("done", s, 0, tally[s], Total(s))
        /\ outcome' = [outcome EXCEPT ![s] = "done"]
  /\ phase' = [phase EXCEPT ![s] = "over"]
  /\ UNCHANGED <<request, sweepVars, ticker, ticksLeft, registered, cancelled,
                 reported, stopped, atStop>>

\* The deferred function of run.
Unregister(s) ==
  /\ phase[s] = "over"
  /\ phase' = [phase EXCEPT ![s] = "gone"]
  /\ registered' = registered \ {s}
  /\ cancelled' = cancelled \cup {s}
  /\ UNCHANGED <<request, sweepVars, ticker, ticksLeft, queue, pastVars>>

RunStep(s) ==
  \/ BuildTargets(s) \/ Acquire(s) \/ CheckSlot(s) \/ Dispatch(s)
  \/ SweepEnds(s) \/ Join(s) \/ EmitTerminal(s) \/ Unregister(s)

-----------------------------------------------------------------------------
(* The goroutine of one probe.  ProbeSSH has returned: a result of a scan  *)
(* cancelled meanwhile is discarded, any other is counted, emitted, and    *)
(* counted as done; then the slot is released.                             *)

\* Mutant: the result of a cancelled scan is not discarded.
ResolveAlways(s, p) ==
  /\ probe[s][p] = "dialing"
  /\ probe' = [probe EXCEPT ![s][p] = "kept"]
  /\ tally' = [tally EXCEPT ![s] = @ + 1]
  /\ UNCHANGED <<request, phase, slot, next, finished, ticker, ticksLeft,
                 registered, cancelled, queue, pastVars>>

Resolve(s, p) ==
  /\ probe[s][p] = "dialing"
  /\ IF s \in cancelled
     THEN /\ probe' = [probe EXCEPT ![s][p] = "over"]
          /\ UNCHANGED tally
     ELSE /\ probe' = [probe EXCEPT ![s][p] = "kept"]
          /\ tally' = [tally EXCEPT ![s] = @ + 1]
  /\ UNCHANGED <<request, phase, slot, next, finished, ticker, ticksLeft,
                 registered, cancelled, queue, pastVars>>

Report(s, p) ==
  /\ probe[s][p] = "kept"
  /\ Emit("host", s, p, 0, 0)
  /\ probe' = [probe EXCEPT ![s][p] = "reported"]
  /\ reported' = [reported EXCEPT ![s] = @ \cup {p}]
  /\ UNCHANGED <<request, phase, slot, next, tally, finished, ticker, ticksLeft,
                 registered, cancelled, outcome, stopped, atStop>>

Finish(s, p) ==
  /\ probe[s][p] = "reported"
  /\ probe' = [probe EXCEPT ![s][p] = "over"]
  /\ finished' = [finished EXCEPT ![s] = @ + 1]
  /\ UNCHANGED <<request, phase, slot, next, tally, ticker, ticksLeft, registered,
                 cancelled, queue, pastVars>>

ProbeStep(s, p) == Resolve(s, p) \/ Report(s, p) \/ Finish(s, p)

-----------------------------------------------------------------------------
(* The progress goroutine: with the tick and the stop both ready, either   *)
(* is taken, so a progress event may follow the terminal one.              *)

Tick(s) ==
  /\ s \in ticker /\ ticksLeft[s] > 0
  /\ Emit("progress", s, 0, finished[s], Total(s))
  /\ ticksLeft' = [ticksLeft EXCEPT ![s] = @ - 1]
  /\ UNCHANGED <<request, phase, sweepVars, ticker, registered, cancelled,
                 pastVars>>

StopTicker(s) ==
  /\ s \in ticker /\ Closed(s)
  /\ ticker' = ticker \ {s}
  /\ UNCHANGED <<request, phase, sweepVars, ticksLeft, registered, cancelled,
                 queue, pastVars>>

-----------------------------------------------------------------------------
Init ==
  /\ \E plan \in Plans : /\ request = plan.request
                        /\ ticksLeft = [s \in Scans |-> plan.ticks]
  /\ phase = [s \in Scans |-> "new"]
  /\ slot = [s \in Scans |-> "none"]
  /\ next = [s \in Scans |-> 1]
  /\ probe = [s \in Scans |-> [p \in Pairs |-> "none"]]
  /\ tally = [s \in Scans |-> 0] /\ finished = [s \in Scans |-> 0]
  /\ ticker = {}
  /\ registered = {} /\ cancelled = {}
  /\ queue = << >>
  /\ reported = [s \in Scans |-> {}]
  /\ outcome = [s \in Scans |-> "none"]
  /\ stopped = {}
  /\ atStop = [s \in Scans |-> [next |-> 0, accepted |-> {}]]

ScanStep(s) ==
  \/ Start(s) \/ Stop(s) \/ RunStep(s)
  \/ \E p \in Pairs : ProbeStep(s, p)
  \/ Tick(s) \/ StopTicker(s)

Next == \E s \in Scans : ScanStep(s)

Spec == Init /\ [][Next]_vars

-----------------------------------------------------------------------------
(* Properties                                                              *)

Phases == {"new", "rejected", "launched", "sweeping", "waiting", "cancelling",
           "completing", "over", "gone"}
Outcomes == {"none", "done", "error", "cancelled"}
ScanEvent == [kind : {"host", "progress", "done", "error", "cancelled"},
              scan : Scans, pair : 0..MaxPairs, done : 0..MaxPairs,
              total : 0..MaxPairs]

\* Every variable has its type; the counters of a scan stay within its pairs.
TypeOK ==
  /\ request \in [Scans -> Requests]
  /\ phase \in [Scans -> Phases]
  /\ slot \in [Scans -> {"none", "held", "checked"}]
  /\ next \in [Scans -> 1..MaxPairs + 1]
  /\ probe \in [Scans -> [Pairs -> {"none", "dialing", "kept", "reported", "over"}]]
  /\ tally \in [Scans -> 0..MaxPairs] /\ finished \in [Scans -> 0..MaxPairs]
  /\ ticker \subseteq Scans /\ ticksLeft \in [Scans -> 0..MaxTicks]
  /\ registered \subseteq Scans /\ cancelled \subseteq Scans
  /\ queue \in Seq(ScanEvent)
  /\ reported \in [Scans -> SUBSET Pairs]
  /\ outcome \in [Scans -> Outcomes]
  /\ stopped \subseteq Scans
  /\ atStop \in [Scans -> [next : 0..MaxPairs + 1, accepted : SUBSET Pairs]]
  /\ \A s \in Scans : finished[s] <= tally[s] /\ tally[s] < next[s]

\* service.go:322-337 and 350-354: once Stop has returned, the dispatch loop
\* starts at most the one probe it had already cleared, and no row is emitted
\* for a result that had not been accepted by then.
StopTakesHold ==
  \A s \in stopped :
    /\ next[s] <= atStop[s].next + 1
    /\ reported[s] \subseteq atStop[s].accepted

\* service.go:75-82 and 381-390: the statistics of scan:done count every pair
\* of the request, each with its row.
DoneCountsEveryRow ==
  \A s \in Scans :
    outcome[s] = "done" =>
      tally[s] = Total(s) /\ finished[s] = Total(s) /\ reported[s] = 1..Total(s)

Lifecycle == INSTANCE ScanLifecycle WITH
  wanted <- [s \in Scans |-> 1..Total(s)],
  status <- [s \in Scans |->
               IF phase[s] \in {"new", "rejected"} THEN "new"
               ELSE IF outcome[s] = "none" THEN "running" ELSE outcome[s]]

\* service.go:222-229 and 265-266: a scan keeps the promise of ScanLifecycle:
\* rows only before its one terminal event, each once, and an outcome it earned.
LifecycleKept == Lifecycle!Spec
=============================================================================
