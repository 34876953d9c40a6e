------------------------------ MODULE ScanPanel ------------------------------
(***************************************************************************)
(* ScanService together with its frontend: the Search and Stop buttons of  *)
(* NetworkPanel, the event handlers of useScanner and scannerStore.  The   *)
(* answer of a Start call and the events of its scan reach the frontend on *)
(* different paths: either may be first.                                   *)
(***************************************************************************)
EXTENDS ScanService

CONSTANT NoScan   \* activeScanID = null

ASSUME PanelAssumption == NoScan \notin Scans

VARIABLES
  call,        \* per scan: its Start call: not made, asked, or answered
  stopCalls,   \* Stop calls that have not reached the backend
  activeScan,  \* scannerStore.activeScanID
  status,      \* scannerStore.status
  progress,    \* scannerStore.progress: done and total
  rows,        \* scannerStore.rows
  stats,       \* scannerStore.stats: rows counted and total
  settled,     \* scans whose terminal event was handled (history)
  early,       \* scans with an event handled before the answer (history)
  latest,      \* the scan of the last Search (history)
  company      \* scans whose life overlapped another's (history)

uiVars    == <<call, stopCalls, activeScan, status, progress, rows, stats,
               settled, early, latest, company>>
panelVars == <<vars, uiVars>>

NoCount == [done |-> 0, total |-> 0]

\* Scans the user has asked for with an answer or an outcome still to come.
Open == {s \in Scans : call[s] = "asked" \/ (call[s] = "answered" /\ s \notin settled)}

-----------------------------------------------------------------------------
\* Search is disabled only while the status is "scanning".
Search(s) ==
  /\ call[s] = "none" /\ request[s] # NotAsked
  /\ status # "scanning"
  /\ call' = [call EXCEPT ![s] = "asked"]
  /\ latest' = s
  /\ company' = IF Open = {} THEN company ELSE company \cup Open \cup {s}
  /\ UNCHANGED <<vars, stopCalls, activeScan, status, progress, rows, stats,
                 settled, early>>

\* Mutant: the rows of the scan before are kept.
StartReturnsKeepsRows(s) ==
  /\ call[s] = "asked" /\ phase[s] # "new"
  /\ call' = [call EXCEPT ![s] = "answered"]
  /\ activeScan' = s /\ status' = "scanning"
  /\ progress' = NoCount /\ stats' = NoCount
  /\ UNCHANGED <<vars, stopCalls, rows, settled, early, latest, company>>

\* startScan after its await: a new scan, or the rejection as an error.
StartReturns(s) ==
  /\ call[s] = "asked" /\ phase[s] # "new"
  /\ call' = [call EXCEPT ![s] = "answered"]
  /\ IF phase[s] = "rejected"
     THEN /\ activeScan' = NoScan /\ status' = "error"
          /\ settled' = settled \cup {s}
          /\ UNCHANGED <<progress, rows, stats>>
     ELSE /\ activeScan' = s /\ status' = "scanning"
          /\ progress' = NoCount /\ rows' = << >> /\ stats' = NoCount
          /\ UNCHANGED settled
  /\ UNCHANGED <<vars, stopCalls, early, latest, company>>

\* The Stop button is shown while the status is "scanning".
ClickStop ==
  /\ status = "scanning" /\ activeScan # NoScan
  /\ stopCalls' = stopCalls \cup {activeScan}
  /\ UNCHANGED <<vars, call, activeScan, status, progress, rows, stats, settled,
                 early, latest, company>>

\* The call reaches the backend; its error, if any, is handled by nobody.
StopArrives(s) ==
  /\ s \in stopCalls
  /\ stopCalls' = stopCalls \ {s}
  /\ Stop(s) \/ (s \notin registered /\ UNCHANGED vars)
  /\ UNCHANGED <<call, activeScan, status, progress, rows, stats, settled,
                 early, latest, company>>

-----------------------------------------------------------------------------
(* The handlers of scannerStore.                                           *)

\* handleProgress and handleHost drop an event of another scan than the
\* active one, when there is an active one.
Relevant(e) == activeScan \in {NoScan, e.scan}

HandleProgress(e) ==
  /\ e.kind = "progress"
  /\ progress' = IF Relevant(e) THEN [done |-> e.done, total |-> e.total] ELSE progress
  /\ UNCHANGED <<activeScan, status, rows, stats, settled>>

HandleHost(e) ==
  /\ e.kind = "host"
  /\ rows' = IF Relevant(e) THEN Append(rows, [scan |-> e.scan, pair |-> e.pair]) ELSE rows
  /\ UNCHANGED <<activeScan, status, progress, stats, settled>>

\* handleDone, handleError and handleCancelled do not look at the scan id.
HandleTerminal(e) ==
  /\ e.kind \in {"done", "error", "cancelled"}
  /\ activeScan' = NoScan
  /\ status' = e.kind
  /\ stats' = IF e.kind = "done" THEN [done |-> e.done, total |-> e.total] ELSE stats
  /\ settled' = settled \cup {e.scan}
  /\ UNCHANGED <<progress, rows>>

Deliver ==
  /\ queue # << >>
  /\ queue' = Tail(queue)
  /\ LET e == Head(queue) IN
       /\ HandleProgress(e) \/ HandleHost(e) \/ HandleTerminal(e)
       /\ early' = IF call[e.scan] = "asked" THEN early \cup {e.scan} ELSE early
  /\ UNCHANGED <<request, phase, sweepVars, ticker, ticksLeft, registered,
                 cancelled, pastVars, call, stopCalls, latest, company>>

-----------------------------------------------------------------------------
\* The backend: Start once it is asked for; Stop is StopArrives.
Backend ==
  /\ \E s \in Scans :
       \/ call[s] = "asked" /\ Start(s)
       \/ RunStep(s) \/ (\E p \in Pairs : ProbeStep(s, p))
       \/ Tick(s) \/ StopTicker(s)
  /\ UNCHANGED uiVars

PanelInit ==
  /\ Init
  /\ call = [s \in Scans |-> "none"] /\ stopCalls = {}
  /\ activeScan = NoScan /\ status = "idle"
  /\ progress = NoCount /\ rows = << >> /\ stats = NoCount
  /\ settled = {} /\ early = {} /\ latest = NoScan /\ company = {}

PanelNext ==
  \/ Backend
  \/ \E s \in Scans : Search(s) \/ StartReturns(s) \/ StopArrives(s)
  \/ ClickStop
  \/ Deliver

\* Some goroutine of a scan that can run does (a dial ends by its deadline),
\* and the frontend handles what reaches it: less than the Go scheduler and
\* the event loop give.  Nothing is assumed of the user.
SweepStep ==
  /\ \E s \in Scans : \/ call[s] = "asked" /\ Start(s)
                      \/ RunStep(s)
                      \/ \E p \in Pairs : ProbeStep(s, p)
  /\ UNCHANGED uiVars

PanelFairness ==
  /\ WF_panelVars(SweepStep)
  /\ WF_panelVars(\E s \in Scans : StartReturns(s))
  /\ WF_panelVars(Deliver)

PanelSpec == PanelInit /\ [][PanelNext]_panelVars
FairPanelSpec == PanelSpec /\ PanelFairness

-----------------------------------------------------------------------------
(* Properties                                                              *)

\* A scan with no other beside it, whose answer came before its events.
Quiet(s) == s \notin company /\ s \notin early

\* scannerStore.ts:155-168: when a quiet scan is done, the panel lists each of
\* its pairs once and shows statistics that agree with the list.
DoneScanIsListed ==
  \A s \in Scans :
    Quiet(s) /\ s = latest /\ s \in settled /\ outcome[s] = "done" =>
      /\ status = "done"
      /\ Len(rows) = stats.total /\ stats.done = stats.total
      /\ {rows[i] : i \in DOMAIN rows} = [scan : {s}, pair : 1..Total(s)]

\* NetworkPanel.tsx:41-66 and scannerStore.ts:138-142: a quiet scan leaves the
\* panel's "scanning" status again, whether or not it is stopped.
QuietScanSettles ==
  \A s \in Scans : (status = "scanning" /\ activeScan = s)
                     ~> (status # "scanning" \/ ~Quiet(s))

\* scannerStore.test.ts:65-89: "handleError sets status=error with the message
\* and clears the active scan", "handleCancelled sets the terminal status": the
\* panel does not scan for a scan it has seen the end of.
EndedScanIsNotActive == status = "scanning" => activeScan \notin settled
=============================================================================
