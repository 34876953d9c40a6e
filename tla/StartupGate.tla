---------------------------- MODULE StartupGate ----------------------------
(***************************************************************************)
(* Which keychain backend the program uses and whether it asks for the     *)
(* master password, at startup.  Three things run at once: the gate of     *)
(* App.tsx probes the OS backends (NeedsMasterPassword, without a lock);   *)
(* the connection status of the layout reads a key through ring(), which   *)
(* probes under the mutex and caches its choice; and the dialog sets or    *)
(* verifies the password, or asks for another probe.  A probe writes,      *)
(* reads back and removes one canary item, the same for all.               *)
(***************************************************************************)
EXTENDS Naturals

CONSTANTS
  Gets,        \* keys LoadAPIKeys reads
  MaxChanges   \* bound: changes of the OS backend's state

ASSUME GateAssumption == Gets \in Nat \ {0} /\ MaxChanges \in Nat

VARIABLES
  os,        \* the OS backends: none, not working, failing to open, or up
  changes,
  canary,    \* the item pairadmin_probe is in the OS backend
  probe,     \* where each probe is: NeedsMasterPassword's and ring()'s
  cached,    \* Client.cachedRing: the backend chosen
  mu,        \* Client.mu: free, or the client whose ring() holds it
  hash,      \* there is a master password hash file
  held,      \* Client.masterPW is not empty
  client,    \* each reader of keys: where it is in Get
  left,      \* the keys it has still to read
  used,      \* the backend its ring() returned
  gate,      \* App's gate
  mode,      \* the dialog sets a password or unlocks
  asking,    \* who waits for NeedsMasterPassword: nobody, the effect, retry
  answer,    \* its answer
  pending,   \* the dialog's submit: none, the password typed, or verified
  overlapped \* two probes had the canary in hand at once (history)

backend == <<os, changes, canary>>
ringVars == <<cached, mu>>
pwVars  == <<hash, held>>
clients == <<client, left, used>>
uiVars  == <<gate, mode, asking, answer, pending>>
vars    == <<backend, probe, ringVars, pwVars, clients, uiVars, overlapped>>

Backends == {"absent", "broken", "faulty", "up"}
Probers  == {"gate", "ring"}
\* The status probe, the load of a passed gate or retry, the load of a submit.
Clients  == {"status", "proceed", "unlock"}
NoClient == "nobody"

-----------------------------------------------------------------------------
(* The canary probe.  Outcome(p, ok) is what its caller does with it.       *)

\* NeedsMasterPassword answers.
Answer(a) == answer' = a /\ UNCHANGED <<ringVars, clients>>

\* Mutant: the file backend is returned with the mutex still locked.
ChooseLocked(b) ==
  /\ cached' = b /\ mu' = IF b = "file" THEN mu ELSE NoClient
  /\ client' = [client EXCEPT ![mu] = "item"] /\ used' = [used EXCEPT ![mu] = b]
  /\ UNCHANGED <<left, answer>>

\* ring() caches its choice, unlocks and returns it.
Choose(b) ==
  /\ cached' = b /\ mu' = NoClient
  /\ client' = [client EXCEPT ![mu] = "item"] /\ used' = [used EXCEPT ![mu] = b]
  /\ UNCHANGED <<left, answer>>

Outcome(p, ok) ==
  /\ probe' = [probe EXCEPT ![p] = "idle"]
  /\ IF p = "gate" THEN Answer(IF ok THEN "works" ELSE "needs")
                   ELSE Choose(IF ok THEN "os" ELSE "file")

OpenOS(p) ==
  /\ probe[p] = "open"
  /\ CASE os = "absent" -> Outcome(p, FALSE)    \* ErrNoAvailImpl
       [] os = "faulty" ->
            /\ probe' = [probe EXCEPT ![p] = "idle"]
            /\ IF p = "gate" THEN Answer("error") ELSE Choose("file")
       [] OTHER -> /\ probe' = [probe EXCEPT ![p] = "set"]
                   /\ UNCHANGED <<ringVars, clients, answer>>
  /\ UNCHANGED <<backend, pwVars, gate, mode, asking, pending, overlapped>>

InHand(p) == probe[p] \in {"get", "passed", "failed"}

SetCanary(p) ==
  /\ probe[p] = "set"
  /\ IF os = "up"
     THEN /\ canary' = TRUE
          /\ probe' = [probe EXCEPT ![p] = "get"]
          /\ overlapped' = (overlapped \/ \E q \in Probers \ {p} : InHand(q))
          /\ UNCHANGED <<ringVars, clients, answer>>
     ELSE Outcome(p, FALSE) /\ UNCHANGED <<canary, overlapped>>
  /\ UNCHANGED <<os, changes, pwVars, gate, mode, asking, pending>>

\* Mutant: the read-back is not told from a healthy empty backend.
GetCanaryClean(p) ==
  /\ probe[p] = "get"
  /\ probe' = [probe EXCEPT ![p] = "failed"]
  /\ UNCHANGED <<backend, ringVars, pwVars, clients, uiVars, overlapped>>

GetCanary(p) ==
  /\ probe[p] = "get"
  /\ probe' = [probe EXCEPT ![p] = IF os = "up" /\ canary THEN "passed" ELSE "failed"]
  /\ UNCHANGED <<backend, ringVars, pwVars, clients, uiVars, overlapped>>

\* The deferred Remove; its error is ignored.
RemoveCanary(p) ==
  /\ probe[p] \in {"passed", "failed"}
  /\ canary' = (canary /\ os # "up")
  /\ Outcome(p, probe[p] = "passed")
  /\ UNCHANGED <<os, changes, pwVars, gate, mode, asking, pending, overlapped>>

ProbeStep(p) == OpenOS(p) \/ SetCanary(p) \/ GetCanary(p) \/ RemoveCanary(p)

-----------------------------------------------------------------------------
(* Client.Get by the status probe and by LoadAPIKeys.                      *)

\* probeLLMConnection at mount, with a provider configured.
ProbeStatus ==
  /\ client["status"] = "new"
  /\ client' = [client EXCEPT !["status"] = "ring"]
  /\ left' = [left EXCEPT !["status"] = 1]
  /\ UNCHANGED <<backend, probe, ringVars, pwVars, used, uiVars, overlapped>>

\* ring(): the cached choice, or open and probe with the mutex held.
EnterRing(c) ==
  /\ client[c] = "ring" /\ mu = NoClient
  /\ IF cached # "none"
     THEN /\ client' = [client EXCEPT ![c] = "item"] /\ used' = [used EXCEPT ![c] = cached]
          /\ UNCHANGED <<mu, probe>>
     ELSE /\ client' = [client EXCEPT ![c] = "opening"] /\ mu' = c
          /\ probe' = [probe EXCEPT !["ring"] = "open"]
          /\ UNCHANGED used
  /\ UNCHANGED <<backend, cached, pwVars, left, uiVars, overlapped>>

\* A file item of a process that holds no password: ErrNoMasterPassword.
Locked(c) == used[c] = "file" /\ ~held

\* The item is read or its error collected; the last Get of a load ends it,
\* and the gate is passed.
ReadItem(c) ==
  /\ client[c] = "item"
  /\ left' = [left EXCEPT ![c] = @ - 1]
  /\ client' = [client EXCEPT ![c] = IF left[c] > 1 THEN "ring" ELSE "idle"]
  /\ gate' = IF left[c] = 1 /\ c # "status" THEN "ready" ELSE gate
  /\ asking' = IF left[c] = 1 /\ c = "proceed" THEN "nobody" ELSE asking
  /\ UNCHANGED <<backend, probe, ringVars, pwVars, used, mode, answer, pending, overlapped>>

ClientStep(c) == EnterRing(c) \/ ReadItem(c)

Load(c) ==
  /\ client' = [client EXCEPT ![c] = "ring"]
  /\ left' = [left EXCEPT ![c] = Gets]

-----------------------------------------------------------------------------
(* App.tsx.                                                                *)

\* handleRetryOSKeychain, from the dialog's button.  Bound: not again before an earlier
\* retry has ended (the reset after a submit enables the button while one is under way).
Retry ==
  /\ gate = "password" /\ asking = "nobody" /\ pending = "no"
  /\ asking' = "retry" /\ answer' = "none"
  /\ probe' = [probe EXCEPT !["gate"] = "open"]
  /\ UNCHANGED <<backend, ringVars, pwVars, clients, gate, mode, pending, overlapped>>

\* The keychain works: loadAndProceed, awaited by its caller.
Works ==
  /\ asking # "nobody" /\ answer = "works"
  /\ answer' = "none" /\ Load("proceed")
  /\ UNCHANGED <<backend, probe, ringVars, pwVars, used, gate, mode, asking,
                 pending, overlapped>>

\* The effect opens the dialog, in the mode HasMasterPassword tells.
NeedsPassword ==
  /\ asking = "effect" /\ answer = "needs"
  /\ gate' = "password" /\ mode' = IF hash THEN "unlock" ELSE "set"
  /\ asking' = "nobody" /\ answer' = "none"
  /\ UNCHANGED <<backend, probe, ringVars, pwVars, clients, pending, overlapped>>

\* The effect goes on without the gate when the check itself fails.
CheckFails ==
  /\ asking = "effect" /\ answer = "error"
  /\ gate' = "ready" /\ asking' = "nobody" /\ answer' = "none"
  /\ UNCHANGED <<backend, probe, ringVars, pwVars, clients, mode, pending, overlapped>>

\* The dialog stays open after a retry that did not help.
StillNeeded ==
  /\ asking = "retry" /\ answer \in {"needs", "error"}
  /\ asking' = "nobody" /\ answer' = "none"
  /\ UNCHANGED <<backend, probe, ringVars, pwVars, clients, gate, mode, pending, overlapped>>

AppStep == Works \/ NeedsPassword \/ CheckFails \/ StillNeeded

-----------------------------------------------------------------------------
(* The dialog.                                                             *)

\* handleSubmit looks at pending alone: a retry may be under way.  Bound: not
\* again before the load of an earlier submit has ended.
Submit ==
  /\ gate = "password" /\ pending = "no" /\ client["unlock"] = "idle"
  /\ pending' \in {"right", "wrong"}
  /\ UNCHANGED <<backend, probe, ringVars, pwVars, clients, gate, mode, asking,
                 answer, overlapped>>

\* The typed password is taken: there is none yet, or it matches the hash.
Accepted == IF mode = "set" THEN ~hash ELSE pending = "right"

\* Mutant: the answer of VerifyMasterPassword is not looked at.
TakePasswordUnread ==
  /\ pending \in {"right", "wrong"}
  /\ pending' = "taken" /\ hash' = TRUE
  /\ held' = (held \/ Accepted)
  /\ UNCHANGED <<backend, probe, ringVars, clients, gate, mode, asking, answer, overlapped>>

\* SetMasterPassword or VerifyMasterPassword, up to invalidateRingCache; the
\* hash file may fail to be written.
TakePassword ==
  /\ pending \in {"right", "wrong"}
  /\ \/ Accepted /\ hash' = TRUE /\ held' = TRUE /\ pending' = "taken"
     \/ (~Accepted \/ mode = "set") /\ pending' = "no" /\ UNCHANGED pwVars
  /\ UNCHANGED <<backend, probe, ringVars, clients, gate, mode, asking, answer, overlapped>>

\* invalidateRingCache waits for the mutex; then onSuccess.
InvalidateAndLoad ==
  /\ pending = "taken" /\ mu = NoClient
  /\ cached' = "none" /\ pending' = "no"
  /\ Load("unlock")
  /\ UNCHANGED <<backend, probe, mu, pwVars, used, gate, mode, asking, answer, overlapped>>

DialogStep == TakePassword \/ InvalidateAndLoad

\* The desktop session's keychain appears, locks up or goes away.
ChangeOS(b) ==
  /\ b # os /\ changes < MaxChanges
  /\ os' = b /\ changes' = changes + 1
  /\ UNCHANGED <<canary, probe, ringVars, pwVars, clients, uiVars, overlapped>>

-----------------------------------------------------------------------------
Init ==
  /\ os \in Backends /\ changes = 0 /\ canary = FALSE
  /\ probe = [p \in Probers |-> IF p = "gate" THEN "open" ELSE "idle"]
  /\ cached = "none" /\ mu = NoClient
  /\ hash \in BOOLEAN /\ held = FALSE
  /\ client = [c \in Clients |-> IF c = "status" THEN "new" ELSE "idle"]
  /\ left = [c \in Clients |-> 0] /\ used = [c \in Clients |-> "none"]
  /\ gate = "checking" /\ mode = "unlock"
  /\ asking = "effect" /\ answer = "none" /\ pending = "no"
  /\ overlapped = FALSE

Next ==
  \/ \E p \in Probers : ProbeStep(p)
  \/ \E c \in Clients : ClientStep(c)
  \/ ProbeStatus \/ Retry \/ AppStep \/ Submit \/ DialogStep
  \/ \E b \in Backends : ChangeOS(b)

\* Calls of the backend run and their answers are handled; nothing is assumed
\* of the user or of the OS keychain's state.
Fairness ==
  /\ \A p \in Probers : WF_vars(ProbeStep(p))
  /\ \A c \in Clients : SF_vars(ClientStep(c))
  /\ WF_vars(AppStep) /\ SF_vars(DialogStep)

Spec == Init /\ [][Next]_vars /\ Fairness

-----------------------------------------------------------------------------
(* Properties.                                                             *)

\* Every variable keeps its type; the mutex is held exactly while a ring()
\* opens and probes.
TypeOK ==
  /\ os \in Backends /\ changes \in 0..MaxChanges /\ canary \in BOOLEAN
  /\ probe \in [Probers -> {"idle", "open", "set", "get", "passed", "failed"}]
  /\ cached \in {"none", "os", "file"} /\ mu \in Clients \cup {NoClient}
  /\ \A c \in Clients : (mu = c) <=> (client[c] = "opening")
  /\ (mu # NoClient) <=> (probe["ring"] # "idle")
  /\ hash \in BOOLEAN /\ held \in BOOLEAN
  /\ client \in [Clients -> {"new", "idle", "ring", "opening", "item"}]
  /\ left \in [Clients -> 0..Gets] /\ used \in [Clients -> {"none", "os", "file"}]
  /\ gate \in {"checking", "password", "ready"} /\ mode \in {"set", "unlock"}
  /\ asking \in {"nobody", "effect", "retry"}
  /\ answer \in {"none", "needs", "works", "error"}
  /\ pending \in {"no", "right", "wrong", "taken"} /\ overlapped \in BOOLEAN

\* As long as no two probes met on the canary, a keychain that has worked all
\* along is found to: the gate does not ask and ring() does not fall back.
WorkingKeychainIsFound ==
  os = "up" /\ changes = 0 /\ ~overlapped => gate # "password" /\ cached # "file"

\* settings_service.go 212-217: the load of the API keys runs only once the
\* backend can be read.  With probes that do not meet and a keychain that does
\* not change, no Get of a load fails for want of the master password.
LoadIsUnlocked ==
  [][\A c \in Clients \ {"status"} :
       ReadItem(c) /\ changes = 0 /\ ~overlapped => ~Locked(c)]_vars

\* The gate always comes to a decision, and a password that was taken gets the
\* user past it: a probe in the mutex, a retry and a load delay it only.
GateDecides == <>(gate # "checking")
PasswordPassesGate == (pending = "taken") ~> (gate = "ready")

\* App.tsx 66, keychain.go 147-149: a functional OS keychain is used and no
\* master password involved.
HealthyKeychainIsUsed ==
  os = "up" /\ changes = 0 => gate # "password" /\ cached # "file"

\* App.tsx 35-36: once a retry has found the keychain the program proceeds
\* exactly like the normal gate-pass path, with the keys of that keychain.
RetryLoadsFromKeychain ==
  [][ReadItem("proceed") /\ asking = "retry" /\ os = "up" /\ ~overlapped
       => used["proceed"] = "os"]_vars
=============================================================================
