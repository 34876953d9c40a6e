-------------------------- MODULE StartupGateProofs --------------------------
(***************************************************************************)
(* Theorems about StartupGate: its types, that a keychain that works is    *)
(* found, and that keys are loaded unlocked.                               *)
(***************************************************************************)
EXTENDS StartupGate, TLAPS

(***************************************************************************)
(* The inductive invariant.  CallInv: one thing at a time is under way of  *)
(* the gate's probe, its answer and the load it leads to, and of a submit  *)
(* and its load; who loads after a submit has the password.  EarlyInv:     *)
(* until the keychain changes, a probe that passed has found it up.        *)
(* HealthInv: and as long as no two probes meet, one that is up is not     *)
(* taken for another.                                                      *)
(***************************************************************************)
CallInv ==
  /\ answer # "none" => probe["gate"] = "idle"
  /\ asking = "nobody" => probe["gate"] = "idle" /\ answer = "none"
  /\ client["proceed"] # "idle" => asking # "nobody" /\ probe["gate"] = "idle" /\ answer = "none"
  /\ pending # "no" => client["unlock"] = "idle"
  /\ client["unlock"] # "idle" \/ pending = "taken" => held
  /\ \A c \in Clients : client[c] = "new" => c = "status"
  /\ \A c \in Clients : client[c] \in {"ring", "opening", "item"} => left[c] >= 1

EarlyInv ==
  changes = 0 =>
    /\ \A p \in Probers : probe[p] = "passed" => os = "up"
    /\ answer = "works" \/ client["proceed"] # "idle" => os = "up"

OneInHand == ~overlapped => \A p, q \in Probers : InHand(p) /\ InHand(q) => p = q

HealthInv ==
  os = "up" /\ changes = 0 /\ ~overlapped =>
    /\ \A p \in Probers : probe[p] # "failed" /\ (probe[p] = "get" => canary)
    /\ answer \in {"none", "works"}
    /\ gate # "password" /\ cached # "file"
    /\ \A c \in Clients : used[c] # "file"

IInv == TypeOK /\ CallInv /\ EarlyInv /\ OneInHand /\ HealthInv

-----------------------------------------------------------------------------
LEMMA InitIInv == Init => IInv
<1> SUFFICES ASSUME Init PROVE IInv OBVIOUS
<1> USE GateAssumption DEF Init, Probers, Clients, NoClient
<1>1. TypeOK
  <2>1. hash \in BOOLEAN /\ held \in BOOLEAN /\ canary \in BOOLEAN /\ overlapped \in BOOLEAN
    OBVIOUS
  <2> QED BY <2>1 DEF TypeOK, Backends
<1>2. CallInv /\ EarlyInv /\ OneInHand /\ HealthInv
  BY DEF CallInv, EarlyInv, OneInHand, HealthInv, InHand
<1> QED BY <1>1, <1>2 DEF IInv

(* A probe opens the backend. *)
LEMMA OpenKeeps ==
  ASSUME IInv, NEW r \in Probers, OpenOS(r)
  PROVE  IInv'
<1> USE GateAssumption DEF IInv, Probers, Clients, NoClient,
      backend, ringVars, pwVars, clients, uiVars,
      OpenOS, Outcome, Answer, Choose
<1>1. TypeOK'
  BY DEF TypeOK, Backends
<1>2. CallInv'
  BY DEF TypeOK, CallInv
<1>3. EarlyInv'
  BY DEF TypeOK, CallInv, EarlyInv
<1>4. OneInHand'
  BY DEF TypeOK, OneInHand, InHand
<1>5. HealthInv'
  BY DEF TypeOK, CallInv, EarlyInv, OneInHand, InHand, HealthInv
<1> QED BY <1>1, <1>2, <1>3, <1>4, <1>5

(* It stores the canary. *)
LEMMA SetKeeps ==
  ASSUME IInv, NEW r \in Probers, SetCanary(r)
  PROVE  IInv'
<1> USE GateAssumption DEF IInv, Probers, Clients, NoClient,
      backend, ringVars, pwVars, clients, uiVars,
      SetCanary, Outcome, Answer, Choose
<1>1. TypeOK'
  <2>1. canary' \in BOOLEAN /\ overlapped' \in BOOLEAN
    <3>1. CASE os = "up"
      BY <3>1 DEF TypeOK
    <3>2. CASE os # "up"
      BY <3>2 DEF TypeOK
    <3> QED BY <3>1, <3>2
  <2> QED BY <2>1 DEF TypeOK, Backends
<1>2. CallInv'
  BY DEF TypeOK, CallInv
<1>3. EarlyInv'
  BY DEF TypeOK, CallInv, EarlyInv
<1>4. OneInHand'
  <2>1. CASE os = "up"
    <3>1. overlapped' = (overlapped \/ \E q \in Probers \ {r} : InHand(q))
      BY <2>1
    <3>2. \A q \in Probers \ {r} : InHand(q)' <=> InHand(q)
      BY <2>1 DEF TypeOK, InHand
    <3> QED BY <3>1, <3>2 DEF OneInHand
  <2>2. CASE os # "up"
    <3>1. overlapped' = overlapped
      BY <2>2
    <3>2. \A q \in Probers : InHand(q)' => InHand(q)
      BY <2>2 DEF TypeOK, InHand
    <3> QED BY <3>1, <3>2 DEF OneInHand
  <2> QED BY <2>1, <2>2
<1>5. HealthInv'
  BY DEF TypeOK, CallInv, EarlyInv, OneInHand, InHand, HealthInv
<1> QED BY <1>1, <1>2, <1>3, <1>4, <1>5

(* It reads the canary back. *)
LEMMA GetKeeps ==
  ASSUME IInv, NEW r \in Probers, GetCanary(r)
  PROVE  IInv'
<1> USE GateAssumption DEF IInv, Probers, Clients, NoClient,
      backend, ringVars, pwVars, clients, uiVars,
      GetCanary
<1>1. TypeOK'
  BY DEF TypeOK, Backends
<1>2. CallInv'
  BY DEF TypeOK, CallInv
<1>3. EarlyInv'
  BY DEF TypeOK, CallInv, EarlyInv
<1>4. OneInHand'
  BY DEF TypeOK, OneInHand, InHand
<1>5. HealthInv'
  BY DEF TypeOK, CallInv, EarlyInv, OneInHand, InHand, HealthInv
<1> QED BY <1>1, <1>2, <1>3, <1>4, <1>5

(* It removes the canary and answers. *)
LEMMA RemoveKeeps ==
  ASSUME IInv, NEW r \in Probers, RemoveCanary(r)
  PROVE  IInv'
<1> USE GateAssumption DEF IInv, Probers, Clients, NoClient,
      backend, ringVars, pwVars, clients, uiVars,
      RemoveCanary, Outcome, Answer, Choose
<1>1. TypeOK'
  BY DEF TypeOK, Backends
<1>2. CallInv'
  BY DEF TypeOK, CallInv
<1>3. EarlyInv'
  BY DEF TypeOK, CallInv, EarlyInv
<1>4. OneInHand'
  BY DEF TypeOK, OneInHand, InHand
<1>5. HealthInv'
  BY DEF TypeOK, CallInv, EarlyInv, OneInHand, InHand, HealthInv
<1> QED BY <1>1, <1>2, <1>3, <1>4, <1>5

(* A reader gets the cached ring, or takes the mutex and probes. *)
LEMMA EnterKeeps ==
  ASSUME IInv, NEW d \in Clients, EnterRing(d)
  PROVE  IInv'
<1> USE GateAssumption DEF IInv, Probers, Clients, NoClient,
      backend, ringVars, pwVars, clients, uiVars,
      EnterRing
<1>1. TypeOK'
  BY DEF TypeOK, Backends
<1>2. CallInv'
  BY DEF TypeOK, CallInv
<1>3. EarlyInv'
  BY DEF TypeOK, CallInv, EarlyInv
<1>4. OneInHand'
  BY DEF TypeOK, OneInHand, InHand
<1>5. HealthInv'
  BY DEF TypeOK, CallInv, EarlyInv, OneInHand, InHand, HealthInv
<1> QED BY <1>1, <1>2, <1>3, <1>4, <1>5

(* A reader reads one key. *)
LEMMA ReadKeeps ==
  ASSUME IInv, NEW d \in Clients, ReadItem(d)
  PROVE  IInv'
<1> USE GateAssumption DEF IInv, Probers, Clients, NoClient,
      backend, ringVars, pwVars, clients, uiVars,
      ReadItem
<1>1. TypeOK'
  <2>1. left[d] \in 1..Gets /\ left' \in [Clients -> 0..Gets]
    BY DEF TypeOK, CallInv
  <2>2. client' \in [Clients -> {"new", "idle", "ring", "opening", "item"}]
    BY DEF TypeOK
  <2>3. \A c \in Clients : (mu' = c) <=> (client'[c] = "opening")
    BY DEF TypeOK
  <2> QED BY <2>1, <2>2, <2>3 DEF TypeOK, Backends
<1>2. CallInv'
  BY DEF TypeOK, CallInv
<1>3. EarlyInv'
  BY DEF TypeOK, CallInv, EarlyInv
<1>4. OneInHand'
  BY DEF TypeOK, OneInHand, InHand
<1>5. HealthInv'
  BY DEF TypeOK, CallInv, EarlyInv, OneInHand, InHand, HealthInv
<1> QED BY <1>1, <1>2, <1>3, <1>4, <1>5

(* The frontend handles an answer of the gate's probe, or starts another. *)
LEMMA AppKeeps ==
  ASSUME IInv, ProbeStatus \/ Retry \/ AppStep
  PROVE  IInv'
<1> USE GateAssumption DEF IInv, Probers, Clients, NoClient,
      backend, ringVars, pwVars, clients, uiVars,
      ProbeStatus, Retry, AppStep, Works, NeedsPassword, CheckFails, StillNeeded, Load
<1>1. TypeOK'
  <2>1. CASE ProbeStatus
    <3>1. /\ client' \in [Clients -> {"new", "idle", "ring", "opening", "item"}]
          /\ left' \in [Clients -> 0..Gets]
      BY <2>1 DEF TypeOK
    <3>2. \A c \in Clients : (mu' = c) <=> (client'[c] = "opening")
      BY <2>1 DEF TypeOK, CallInv
    <3> QED BY <2>1, <3>1, <3>2 DEF TypeOK, Backends
  <2>2. CASE Retry
    BY <2>2 DEF TypeOK, Backends
  <2>3. CASE Works
    <3>1. /\ client' \in [Clients -> {"new", "idle", "ring", "opening", "item"}]
          /\ left' \in [Clients -> 0..Gets]
      BY <2>3 DEF TypeOK
    <3>2. \A c \in Clients : (mu' = c) <=> (client'[c] = "opening")
      BY <2>3 DEF TypeOK, CallInv
    <3> QED BY <2>3, <3>1, <3>2 DEF TypeOK, Backends
  <2>4. CASE NeedsPassword
    BY <2>4 DEF TypeOK, Backends
  <2>5. CASE CheckFails
    BY <2>5 DEF TypeOK, Backends
  <2>6. CASE StillNeeded
    BY <2>6 DEF TypeOK, Backends
  <2> QED BY <2>1, <2>2, <2>3, <2>4, <2>5, <2>6
<1>2. CallInv'
  BY DEF TypeOK, CallInv
<1>3. EarlyInv'
  BY DEF TypeOK, CallInv, EarlyInv
<1>4. OneInHand'
  BY DEF TypeOK, OneInHand, InHand
<1>5. HealthInv'
  BY DEF TypeOK, CallInv, EarlyInv, OneInHand, InHand, HealthInv
<1> QED BY <1>1, <1>2, <1>3, <1>4, <1>5

(* The dialog submits a password. *)
LEMMA DialogKeeps ==
  ASSUME IInv, Submit \/ DialogStep
  PROVE  IInv'
<1> USE GateAssumption DEF IInv, Probers, Clients, NoClient,
      backend, ringVars, pwVars, clients, uiVars,
      Submit, DialogStep, TakePassword, Accepted, InvalidateAndLoad, Load
<1>1. TypeOK'
  <2>1. CASE Submit
    BY <2>1 DEF TypeOK, Backends
  <2>2. CASE TakePassword
    <3>1. hash' \in BOOLEAN /\ held' \in BOOLEAN
      BY <2>2 DEF TypeOK
    <3> QED BY <2>2, <3>1 DEF TypeOK, Backends
  <2>3. CASE InvalidateAndLoad
    <3>1. /\ client' \in [Clients -> {"new", "idle", "ring", "opening", "item"}]
          /\ left' \in [Clients -> 0..Gets]
      BY <2>3 DEF TypeOK
    <3>2. \A c \in Clients : (mu' = c) <=> (client'[c] = "opening")
      BY <2>3 DEF TypeOK, CallInv
    <3> QED BY <2>3, <3>1, <3>2 DEF TypeOK, Backends
  <2> QED BY <2>1, <2>2, <2>3
<1>2. CallInv'
  BY DEF TypeOK, CallInv
<1>3. EarlyInv'
  BY DEF TypeOK, CallInv, EarlyInv
<1>4. OneInHand'
  BY DEF TypeOK, OneInHand, InHand
<1>5. HealthInv'
  BY DEF TypeOK, CallInv, EarlyInv, OneInHand, InHand, HealthInv
<1> QED BY <1>1, <1>2, <1>3, <1>4, <1>5

(* The desktop's keychain changes. *)
LEMMA ChangeKeeps ==
  ASSUME IInv, NEW b \in Backends, ChangeOS(b)
  PROVE  IInv'
<1> USE GateAssumption DEF IInv, Probers, Clients, NoClient,
      backend, ringVars, pwVars, clients, uiVars,
      ChangeOS
<1>1. TypeOK'
  BY DEF TypeOK, Backends
<1>2. CallInv'
  BY DEF TypeOK, CallInv
<1>3. EarlyInv'
  BY DEF TypeOK, CallInv, EarlyInv
<1>4. OneInHand'
  BY DEF TypeOK, OneInHand, InHand
<1>5. HealthInv'
  BY DEF TypeOK, CallInv, EarlyInv, OneInHand, InHand, HealthInv
<1> QED BY <1>1, <1>2, <1>3, <1>4, <1>5

LEMMA StepIInv == IInv /\ [Next]_vars => IInv'
<1> SUFFICES ASSUME IInv, [Next]_vars PROVE IInv' OBVIOUS
<1>1. CASE \E p \in Probers : ProbeStep(p)
  BY <1>1, OpenKeeps, SetKeeps, GetKeeps, RemoveKeeps DEF ProbeStep
<1>2. CASE \E c \in Clients : ClientStep(c)
  BY <1>2, EnterKeeps, ReadKeeps DEF ClientStep
<1>3. CASE ProbeStatus \/ Retry \/ AppStep
  BY <1>3, AppKeeps
<1>4. CASE Submit \/ DialogStep
  BY <1>4, DialogKeeps
<1>5. CASE \E b \in Backends : ChangeOS(b)
  BY <1>5, ChangeKeeps
<1>6. CASE UNCHANGED vars
  <2> USE <1>6 DEF vars, backend, ringVars, pwVars, clients, uiVars
  <2>1. TypeOK'
    BY DEF IInv, TypeOK
  <2>2. CallInv' /\ EarlyInv'
    BY DEF IInv, CallInv, EarlyInv
  <2>3. OneInHand' /\ HealthInv'
    BY DEF IInv, OneInHand, InHand, HealthInv
  <2> QED BY <2>1, <2>2, <2>3 DEF IInv
<1> QED BY <1>1, <1>2, <1>3, <1>4, <1>5, <1>6 DEF Next

LEMMA Invariance == Spec => []IInv
BY InitIInv, StepIInv, PTL DEF Spec

-----------------------------------------------------------------------------
(* Every variable of the startup keeps its type, and the mutex is held     *)
(* exactly while a ring() opens and probes (keychain.go 165-201).          *)
THEOREM TypeCorrect == Spec => []TypeOK
<1>1. IInv => TypeOK
  BY DEF IInv
<1> QED BY <1>1, Invariance, PTL

(* keychain.go 120-160, App.tsx 44-70: as long as no two probes met on the *)
(* canary, a keychain that has worked all along is found to work: nobody   *)
(* is asked for a password and ring() does not fall back on the file.      *)
THEOREM KeychainIsFound == Spec => []WorkingKeychainIsFound
<1>1. IInv => WorkingKeychainIsFound
  BY DEF IInv, HealthInv, WorkingKeychainIsFound
<1> QED BY <1>1, Invariance, PTL

(* settings_service.go 212-217: with probes that do not meet and a keychain *)
(* that does not change, the load of the API keys that follows a passed    *)
(* gate or an accepted password is never refused for want of one.          *)
THEOREM LoadsUnlocked == Spec => LoadIsUnlocked
<1>1. IInv /\ [Next]_vars =>
        [\A c \in Clients \ {"status"} :
           ReadItem(c) /\ changes = 0 /\ ~overlapped => ~Locked(c)]_vars
  <2> SUFFICES ASSUME IInv, NEW c \in Clients \ {"status"}, ReadItem(c), changes = 0, ~overlapped,
                      used[c] = "file", ~held
               PROVE  FALSE
    BY DEF Locked
  <2>1. CASE c = "proceed"
    BY <2>1 DEF IInv, EarlyInv, HealthInv, ReadItem
  <2>2. CASE c = "unlock"
    BY <2>2 DEF IInv, CallInv, ReadItem
  <2> QED BY <2>1, <2>2 DEF Clients
<1> QED BY <1>1, Invariance, PTL DEF Spec, LoadIsUnlocked
==============================================================================
