----------------------------- MODULE MCScanPanel -----------------------------
(* Model values for ScanPanel. *)
EXTENDS ScanPanel, TLC
CONSTANTS s1, s2

Plan(f, n) == [request |-> f, ticks |-> n]

\* One scan of many probes, or two scans of one probe or none.
OneOrTwo == {Plan(s1 :> 3 @@ s2 :> NotAsked, 1)}
              \cup {Plan(f, 0) : f \in [{s1, s2} -> {1, BadTargets}]}
OneAlone == {Plan(s1 :> 1, 0), Plan(s1 :> BadTargets, 0)}
=============================================================================
