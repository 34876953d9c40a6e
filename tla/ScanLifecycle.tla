---------------------------- MODULE ScanLifecycle ----------------------------
(***************************************************************************)
(* What a network scan promises the frontend (the comments of ScanService, *)
(* services/scanner/service.go:222-229 and 265-266): it reports each       *)
(* address and port at most once, then ends exactly once; done means every *)
(* one was reported, cancelled that somebody stopped it, error that it     *)
(* reported nothing.                                                       *)
(***************************************************************************)
CONSTANTS Scans, Pairs

VARIABLES
  wanted,    \* per scan: the pairs of its target list, none if it is invalid
  status,    \* per scan
  reported,  \* per scan: the pairs reported so far
  stopped    \* scans somebody has stopped

lifecycleVars == <<wanted, status, reported, stopped>>

Init ==
  /\ wanted \in [Scans -> SUBSET Pairs]
  /\ status = [s \in Scans |-> "new"]
  /\ reported = [s \in Scans |-> {}]
  /\ stopped = {}

Begin(s) ==
  /\ status[s] = "new"
  /\ status' = [status EXCEPT ![s] = "running"]
  /\ UNCHANGED <<wanted, reported, stopped>>

Report(s, p) ==
  /\ status[s] = "running"
  /\ p \in wanted[s] \ reported[s]
  /\ reported' = [reported EXCEPT ![s] = @ \cup {p}]
  /\ UNCHANGED <<wanted, status, stopped>>

\* A scan is stopped while it runs, or in the moment after its last event.
Stop(s) ==
  /\ status[s] # "new"
  /\ stopped' = stopped \cup {s}
  /\ UNCHANGED <<wanted, status, reported>>

End(s, outcome) ==
  /\ status[s] = "running"
  /\ outcome = "done"      => wanted[s] # {} /\ reported[s] = wanted[s]
  /\ outcome = "cancelled" => s \in stopped
  /\ outcome = "error"     => wanted[s] = {} /\ reported[s] = {}
  /\ status' = [status EXCEPT ![s] = outcome]
  /\ UNCHANGED <<wanted, reported, stopped>>

Next ==
  \E s \in Scans :
    \/ Begin(s) \/ Stop(s)
    \/ \E p \in Pairs : Report(s, p)
    \/ \E o \in {"done", "cancelled", "error"} : End(s, o)

Spec == Init /\ [][Next]_lifecycleVars
=============================================================================
