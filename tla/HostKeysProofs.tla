----------------------------- MODULE HostKeysProofs -----------------------------
(***************************************************************************)
(* Proofs about the connections that the New Terminal dialog makes, for    *)
(* any connections, hosts, keys, records and interleavings: first of their *)
(* host keys, then of the records they are saved in and their passwords.   *)
(***************************************************************************)
EXTENDS ConnectDialog, TLAPS

-----------------------------------------------------------------------------
(* The inductive invariant. *)

Dials == [Conns -> [stage : Stages, host : Hosts \cup {None}, trust : BOOLEAN,
                    key : Keys \cup {None}, loaded : Known]]

\* A connection that has presented a key did so for a host.
DialInv ==
    \A c \in Conns : dial[c].stage # "idle" => dial[c].host \in Hosts /\ dial[c].key \in Keys

\* As long as no file was loaded beside a save: one connection at most is about to save,
\* the map it has loaded is the file, and the file holds what each host was accepted with.
TrustInv ==
    /\ \A c, d \in Saving : c = d
    /\ trusted = known
    /\ \A c \in Saving : dial[c].loaded = known /\ known[dial[c].host] = None
    /\ \A c \in Conns : dial[c].stage = "accepted" => dial[c].key = trusted[dial[c].host]

\* With the setting on, what is or is about to be in the file was accepted by the user.
PromptInv ==
    /\ \A h \in Hosts : known[h] # None => h \in accepted
    /\ \A c \in Conns : dial[c].stage # "idle" /\ dial[c].trust => dial[c].host \in accepted
    /\ \A c \in Saving : /\ dial[c].trust
                         /\ \A h \in Hosts : dial[c].loaded[h] # None => h \in accepted

KeysInv == /\ KeysTypeOK /\ DialInv
           /\ overlapped \/ TrustInv
           /\ ~promptNew \/ PromptInv

\* Rows and parameters of a remote kind name a host.
Named(row) == row.kind # "local" => row.host \in Hosts
Rows       == {row \in Row : Named(row)}
Calls      == {p \in Params : Named(p)}
Jobs       == [pc : {"new", "check", "open", "dial", "save", "secret", "touch", "over"},
               p : Calls \cup {None}, trust : BOOLEAN, used : Remote,
               target : Ids \cup {None}, stale : BOOLEAN]

DialogType == [open : BOOLEAN, step : {"type", "form", "hostKeyConfirm"},
               seen : BOOLEAN, status : {"idle", "connecting", "error"},
               prompt : BOOLEAN, warning : BOOLEAN]

\* The connection attempts: one under way has its parameters, and is trusted for an
\* accepted host only.
JobInv ==
    /\ job \in [Conns -> Jobs]
    /\ \A c \in Conns : job[c].pc \notin {"new", "over"} => job[c].p \in Calls
    /\ \A c \in Conns : job[c].trust => job[c].p.host \in accepted

FormInv ==
    /\ dialog \in DialogType /\ form \in Row /\ reconnect \in Ids \cup {None}
    /\ confirm # None => confirm.p \in Calls /\ confirm.target \in Ids \cup {None}

RecentsInv == \A i \in Ids : recents[i] # None => recents[i].row \in Rows

StoreInv ==
    /\ saved \in [Ids -> Rows \cup {None}]
    /\ secretOf \in [Ids -> Remote]

IInv == KeysInv /\ JobInv /\ FormInv /\ RecentsInv /\ StoreInv

-----------------------------------------------------------------------------
(* The keys. *)

LEMMA NoneIsNothingElse ==
  /\ None \notin Conns /\ None \notin Hosts /\ None \notin Keys /\ None \notin Ids
  /\ "local" \notin Kinds
BY NoneAssumption, DialogAssumption

LEMMA KeysKept ==
  ASSUME KeysInv, UNCHANGED keyVars, accepted \subseteq accepted'
  PROVE  KeysInv'
BY DEF KeysInv, KeysTypeOK, DialInv, TrustInv, PromptInv, Saving, keyVars

\* A connection that is not about to save before or after the step changes nothing of
\* the file and of what was accepted.
LEMMA PresentStep ==
  ASSUME KeysInv, UNCHANGED accepted, NEW c \in Conns, NEW h \in Hosts, NEW trust \in BOOLEAN,
         trust => h \in accepted, Present(c, h, trust)
  PROVE  KeysInv'
<1>1. /\ dial[c].stage = "idle"
      /\ dial' = [dial EXCEPT ![c] = [stage |-> "verify", host |-> h, trust |-> trust,
                                      key |-> serverKey[h], loaded |-> Empty]]
      /\ UNCHANGED <<known, serverKey, promptNew, trusted, overlapped>>
  BY DEF Present
<1>2. serverKey[h] \in Keys /\ Empty \in Known
  BY DEF KeysInv, KeysTypeOK, Known, Empty
<1>3. KeysTypeOK'
  BY <1>1, <1>2 DEF KeysInv, KeysTypeOK, Stages
<1>4. /\ dial'[c].stage = "verify" /\ dial'[c].host = h /\ dial'[c].key = serverKey[h]
      /\ dial'[c].trust = trust
      /\ \A d \in Conns \ {c} : dial'[d] = dial[d]
  BY <1>1 DEF KeysInv, KeysTypeOK
<1>5. Saving' = Saving
  BY <1>1, <1>4 DEF Saving
<1>6. DialInv'
  BY <1>2, <1>4 DEF KeysInv, DialInv
<1>7. TrustInv => TrustInv'
  BY <1>1, <1>4, <1>5 DEF TrustInv, Saving
<1>8. PromptInv => PromptInv'
  BY <1>1, <1>4, <1>5 DEF PromptInv, Saving
<1> QED
  BY <1>1, <1>3, <1>6, <1>7, <1>8 DEF KeysInv

LEMMA VerifyStep ==
  ASSUME KeysInv, UNCHANGED accepted, NEW c \in Conns, Verify(c)
  PROVE  KeysInv'
<1> USE NoneIsNothingElse
<1> DEFINE h == dial[c].host
           key == dial[c].key
<1>1. /\ dial[c].stage = "verify" /\ h \in Hosts /\ key \in Keys /\ key # None
      /\ UNCHANGED <<known, serverKey, promptNew>>
      /\ overlapped' = (overlapped \/ Saving # {})
  BY DEF Verify, KeysInv, DialInv
<1>2. PICK hosts \in LoadKnownHosts :
        /\ dial' = [dial EXCEPT ![c].stage = Verdict(dial[c], hosts),
                                ![c].loaded = IF Verdict(dial[c], hosts) = "pin" THEN hosts ELSE Empty]
        /\ IF Verdict(dial[c], hosts) = "accepted" THEN Accept(h, key) ELSE UNCHANGED trusted
  BY DEF Verify
<1>3. hosts \in Known /\ Empty \in Known /\ (hosts = known \/ (hosts = Empty /\ Saving # {}))
  BY <1>2 DEF LoadKnownHosts, KeysInv, KeysTypeOK, Known, Empty
<1> DEFINE stage == Verdict(dial[c], hosts)
<1>4. /\ stage \in {"accepted", "refused", "pin"}
      /\ stage = "accepted" => hosts[h] = key
      /\ stage = "pin" => hosts[h] = None /\ (promptNew => dial[c].trust)
  BY DEF Verdict
<1>5. /\ dial'[c].stage = stage /\ dial'[c].host = h /\ dial'[c].key = key
      /\ dial'[c].trust = dial[c].trust /\ (stage = "pin" => dial'[c].loaded = hosts)
      /\ \A d \in Conns \ {c} : dial'[d] = dial[d]
  BY <1>2 DEF KeysInv, KeysTypeOK
<1>6. trusted' \in Known
  BY <1>1, <1>2 DEF Accept, KeysInv, KeysTypeOK, Known
<1>7. KeysTypeOK'
  <2> DEFINE loaded == IF stage = "pin" THEN hosts ELSE Empty
  <2>1. loaded \in Known /\ stage \in Stages
    BY <1>3, <1>4 DEF Stages
  <2>2. dial' = [dial EXCEPT ![c].stage = stage, ![c].loaded = loaded]
    BY <1>2
  <2> HIDE DEF stage, loaded
  <2>3. dial \in Dials
    BY DEF KeysInv, KeysTypeOK, Dials
  <2>4. dial' \in Dials
    BY <2>1, <2>2, <2>3 DEF Dials
  <2>5. overlapped' \in BOOLEAN
    BY <1>1
  <2> QED
    BY <1>1, <1>6, <2>4, <2>5 DEF KeysInv, KeysTypeOK, Dials
<1>8. DialInv'
  BY <1>1, <1>5 DEF KeysInv, DialInv
<1>9. ASSUME ~overlapped' PROVE TrustInv'
  <2>1. Saving = {} /\ TrustInv /\ hosts = known
    BY <1>1, <1>3, <1>9 DEF KeysInv, KeysTypeOK
  <2>2. trusted' = known
    <3>1. CASE stage = "accepted"
      <4>1. trusted[h] = key /\ trusted[h] # None
        BY <1>1, <1>4, <2>1, <3>1 DEF TrustInv
      <4> QED
        BY <1>1, <1>2, <2>1, <3>1, <4>1 DEF Accept, TrustInv, KeysInv, KeysTypeOK, Known
    <3>2. CASE stage # "accepted"
      BY <1>2, <2>1, <3>2 DEF TrustInv
    <3> QED
      BY <3>1, <3>2
  <2>3. Saving' \subseteq {c} /\ (c \in Saving' => stage = "pin")
    BY <1>5, <2>1 DEF Saving
  <2>4. \A d \in Conns : dial'[d].stage = "accepted" => dial'[d].key = trusted'[dial'[d].host]
    BY <1>1, <1>4, <1>5, <2>1, <2>2 DEF TrustInv
  <2> QED
    BY <1>1, <1>4, <1>5, <2>1, <2>2, <2>3, <2>4 DEF TrustInv
<1>10. ASSUME promptNew, PromptInv PROVE PromptInv'
  <2>1. \A g \in Hosts : hosts[g] # None => g \in accepted
    BY <1>3, <1>10 DEF PromptInv, Empty
  <2>2. \A d \in Saving' : (d = c /\ stage = "pin") \/ (d \in Saving /\ d # c)
    BY <1>5 DEF Saving
  <2> QED
    BY <1>1, <1>4, <1>5, <1>10, <2>1, <2>2 DEF PromptInv, Saving
<1> QED
  BY <1>1, <1>7, <1>8, <1>9, <1>10 DEF KeysInv, KeysTypeOK

LEMMA PinStep ==
  ASSUME KeysInv, UNCHANGED accepted, NEW c \in Conns, Pin(c)
  PROVE  KeysInv'
<1> USE NoneIsNothingElse
<1> DEFINE h == dial[c].host
           key == dial[c].key
           loaded == dial[c].loaded
<1>1. /\ c \in Saving /\ dial[c].stage = "pin" /\ h \in Hosts /\ key \in Keys /\ key # None
      /\ known' = [loaded EXCEPT ![h] = key]
      /\ dial' = [dial EXCEPT ![c].stage = "accepted", ![c].loaded = Empty]
      /\ trusted' = [trusted EXCEPT ![h] = IF @ = None THEN key ELSE @]
      /\ UNCHANGED <<serverKey, promptNew, overlapped>>
  BY DEF Pin, Accept, Saving, KeysInv, DialInv
<1>2. loaded \in Known /\ Empty \in Known
  BY DEF KeysInv, KeysTypeOK, Known, Empty
<1>3. KeysTypeOK'
  <2>1. dial' \in Dials
    <3>1. dial \in Dials
      BY DEF KeysInv, KeysTypeOK, Dials
    <3>2. [dial[c] EXCEPT !.stage = "accepted", !.loaded = Empty]
            \in [stage : Stages, host : Hosts \cup {None}, trust : BOOLEAN,
                 key : Keys \cup {None}, loaded : Known]
      BY <1>2, <3>1 DEF Dials, Stages
    <3>3. dial' = [dial EXCEPT ![c] = [dial[c] EXCEPT !.stage = "accepted", !.loaded = Empty]]
      BY <1>1, <3>1 DEF Dials
    <3> QED
      BY <3>1, <3>2, <3>3 DEF Dials
  <2>2. known' \in Known /\ trusted' \in Known
    BY <1>1, <1>2 DEF KeysInv, KeysTypeOK, Known
  <2> QED
    BY <1>1, <2>1, <2>2 DEF KeysInv, KeysTypeOK, Dials
<1>4. /\ dial'[c].stage = "accepted" /\ dial'[c].host = h /\ dial'[c].key = key
      /\ dial'[c].trust = dial[c].trust
      /\ \A d \in Conns \ {c} : dial'[d] = dial[d]
  BY <1>1 DEF KeysInv, KeysTypeOK
<1>5. Saving' = Saving \ {c}
  BY <1>4 DEF Saving
<1>6. DialInv'
  BY <1>1, <1>4 DEF KeysInv, DialInv
<1>7. ASSUME TrustInv PROVE TrustInv'
  <2>1. Saving' = {} /\ loaded = known /\ known[h] = None /\ trusted = known
    BY <1>1, <1>5, <1>7 DEF TrustInv
  <2>2. trusted' = known'
    BY <1>1, <1>2, <2>1 DEF Known
  <2>3. \A g \in Hosts : trusted'[g] = IF g = h THEN key ELSE trusted[g]
    BY <1>1, <1>2, <2>1 DEF Known
  <2>4. \A d \in Conns : dial'[d].stage = "accepted" => dial'[d].key = trusted'[dial'[d].host]
    <3> SUFFICES ASSUME NEW d \in Conns, dial'[d].stage = "accepted"
                 PROVE  dial'[d].key = trusted'[dial'[d].host]
      OBVIOUS
    <3>1. CASE d = c
      BY <1>1, <1>4, <2>3, <3>1
    <3>2. CASE d # c
      <4>1. dial[d].stage = "accepted" /\ dial[d].host \in Hosts /\ dial[d].key \in Keys
        BY <1>4, <3>2 DEF KeysInv, DialInv
      <4>2. dial[d].key = trusted[dial[d].host] /\ dial[d].host # h
        BY <1>7, <2>1, <4>1 DEF TrustInv
      <4> QED
        BY <1>4, <2>3, <3>2, <4>1, <4>2
    <3> QED
      BY <3>1, <3>2
  <2> QED
    BY <2>1, <2>2, <2>4 DEF TrustInv
<1>8. ASSUME promptNew, PromptInv PROVE PromptInv'
  <2>1. h \in accepted /\ \A g \in Hosts : loaded[g] # None => g \in accepted
    BY <1>1, <1>8 DEF PromptInv
  <2>2. \A g \in Hosts : known'[g] # None => g \in accepted
    BY <1>1, <1>2, <2>1 DEF Known
  <2> QED
    BY <1>4, <1>5, <1>8, <2>1, <2>2 DEF PromptInv, Saving
<1> QED
  BY <1>1, <1>3, <1>6, <1>7, <1>8 DEF KeysInv

LEMMA PinFailsStep ==
  ASSUME KeysInv, UNCHANGED accepted, NEW c \in Conns, PinFails(c)
  PROVE  KeysInv'
<1>1. /\ dial[c].stage = "pin"
      /\ dial' = [dial EXCEPT ![c].stage = "refused", ![c].loaded = Empty]
      /\ UNCHANGED <<known, serverKey, promptNew, trusted, overlapped>>
  BY DEF PinFails
<1>2. KeysTypeOK'
  <2>1. Empty \in Known /\ dial \in Dials
    BY DEF KeysInv, KeysTypeOK, Known, Empty, Dials
  <2>2. [dial[c] EXCEPT !.stage = "refused", !.loaded = Empty]
          \in [stage : Stages, host : Hosts \cup {None}, trust : BOOLEAN,
               key : Keys \cup {None}, loaded : Known]
    BY <2>1 DEF Dials, Stages
  <2>3. dial' = [dial EXCEPT ![c] = [dial[c] EXCEPT !.stage = "refused", !.loaded = Empty]]
    BY <1>1, <2>1 DEF Dials
  <2>4. dial' \in Dials
    BY <2>1, <2>2, <2>3 DEF Dials
  <2> QED
    BY <1>1, <2>4 DEF KeysInv, KeysTypeOK, Dials
<1>3. /\ dial'[c].stage = "refused" /\ dial'[c].host = dial[c].host /\ dial'[c].key = dial[c].key
      /\ dial'[c].trust = dial[c].trust
      /\ \A d \in Conns \ {c} : dial'[d] = dial[d]
  BY <1>1 DEF KeysInv, KeysTypeOK
<1>4. Saving' = Saving \ {c}
  BY <1>3 DEF Saving
<1>5. DialInv'
  BY <1>1, <1>3 DEF KeysInv, DialInv
<1>6. ASSUME TrustInv PROVE TrustInv'
  <2>1. \A d \in Saving' : d \in Saving /\ dial'[d] = dial[d]
    BY <1>3, <1>4 DEF Saving
  <2>2. \A d \in Conns : dial'[d].stage = "accepted" => dial'[d] = dial[d]
    BY <1>3
  <2>3. /\ \A d, e \in Saving' : d = e
        /\ trusted' = known'
    BY <1>1, <1>6, <2>1 DEF TrustInv
  <2>4. ASSUME NEW d \in Saving'
        PROVE  dial'[d].loaded = known' /\ known'[dial'[d].host] = None
    <3>1. dial[d].loaded = known /\ known[dial[d].host] = None
      BY <1>6, <2>1 DEF TrustInv
    <3> QED
      BY <1>1, <2>1, <3>1
  <2>5. ASSUME NEW d \in Conns, dial'[d].stage = "accepted"
        PROVE  dial'[d].key = trusted'[dial'[d].host]
    <3>1. dial'[d] = dial[d]
      BY <2>2, <2>5
    <3>2. dial[d].key = trusted[dial[d].host]
      BY <1>6, <2>5, <3>1 DEF TrustInv
    <3> QED
      BY <1>1, <3>1, <3>2
  <2> QED
    BY <2>3, <2>4, <2>5 DEF TrustInv
<1>7. ASSUME PromptInv PROVE PromptInv'
  <2>1. \A d \in Saving' : d \in Saving /\ dial'[d] = dial[d]
    BY <1>3, <1>4 DEF Saving
  <2>2. \A d \in Conns : dial'[d].stage # "idle" => /\ dial[d].stage # "idle"
                                                  /\ dial'[d].trust = dial[d].trust
                                                  /\ dial'[d].host = dial[d].host
    BY <1>1, <1>3
  <2>3. \A h \in Hosts : known'[h] # None => h \in accepted'
    BY <1>1, <1>7 DEF PromptInv
  <2>4. \A d \in Conns : dial'[d].stage # "idle" /\ dial'[d].trust => dial'[d].host \in accepted'
    BY <1>7, <2>2 DEF PromptInv
  <2>5. \A d \in Saving' : /\ dial'[d].trust
                           /\ \A h \in Hosts : dial'[d].loaded[h] # None => h \in accepted'
    BY <1>7, <2>1 DEF PromptInv
  <2> QED
    BY <2>3, <2>4, <2>5 DEF PromptInv
<1> QED
  BY <1>1, <1>2, <1>5, <1>6, <1>7 DEF KeysInv

LEMMA RekeyStep ==
  ASSUME KeysInv, UNCHANGED accepted, NEW h \in Hosts, NEW key \in Keys, Rekey(h, key)
  PROVE  KeysInv'
BY DEF Rekey, KeysInv, KeysTypeOK, DialInv, TrustInv, PromptInv, Saving

-----------------------------------------------------------------------------
(* The dialog. *)

LEMMA JobSet ==
  ASSUME JobInv, NEW c \in Conns, NEW j \in Jobs, job' = [job EXCEPT ![c] = j],
         j.pc \notin {"new", "over"} => j.p \in Calls,
         j.trust => j.p.host \in accepted',
         accepted \subseteq accepted'
  PROVE  JobInv'
BY DEF JobInv

LEMMA JobKept ==
  ASSUME JobInv, UNCHANGED job, accepted \subseteq accepted'
  PROVE  JobInv'
BY DEF JobInv

LEMMA NoJobIsJob == NoJob \in Jobs /\ NoJob.pc = "new" /\ ~NoJob.trust
BY DEF NoJob, Jobs, Remote

LEMMA OverJob ==
  ASSUME JobInv, NEW c \in Conns, Over(c), UNCHANGED accepted
  PROVE  JobInv'
<1> DEFINE j == [NoJob EXCEPT !.pc = "over"]
<1>1. j \in Jobs /\ j.pc = "over" /\ ~j.trust
  BY DEF NoJob, Jobs, Remote
<1>2. job' = [job EXCEPT ![c] = j]
  BY DEF Over
<1> HIDE DEF j
<1> QED
  BY <1>1, <1>2, JobSet

LEMMA GotoJob ==
  ASSUME JobInv, NEW c \in Conns, UNCHANGED accepted, job[c].p \in Calls,
         NEW pc \in {"save", "secret", "touch", "over"}, Goto(c, pc)
  PROVE  JobInv'
<1> DEFINE j == [job[c] EXCEPT !.pc = pc]
<1>1. j \in Jobs /\ j.p = job[c].p /\ j.trust = job[c].trust
  BY DEF JobInv, Jobs
<1>2. job' = [job EXCEPT ![c] = j]
  BY DEF Goto
<1>3. j.trust => j.p.host \in accepted
  BY <1>1 DEF JobInv
<1> HIDE DEF j
<1> QED
  BY <1>1, <1>2, <1>3, JobSet

\* An attempt starts, at once or with a look at the key.
LEMMA ConnectingJob ==
  ASSUME JobInv, dialog \in DialogType, NEW c \in Conns, NEW p \in Calls, NEW trust \in BOOLEAN,
         NEW target \in Ids \cup {None}, trust => p.host \in accepted',
         accepted \subseteq accepted', Connecting(c, p, trust, target)
  PROVE  JobInv' /\ dialog' \in DialogType
<1> DEFINE j == [NoJob EXCEPT !.pc = "open", !.p = p, !.trust = trust,
                              !.target = target, !.stale = dialog.warning]
<1>1. NoJob \in Jobs /\ dialog.warning \in BOOLEAN
  BY NoJobIsJob DEF DialogType
<1>2. j \in Jobs /\ j.p = p /\ j.trust = trust
  BY <1>1 DEF Jobs
<1>3. job' = [job EXCEPT ![c] = j]
  BY DEF Connecting
<1>4. dialog' \in DialogType
  BY DEF Connecting, DialogType
<1> HIDE DEF j
<1>5. JobInv'
  BY <1>2, <1>3, JobSet
<1> QED
  BY <1>4, <1>5

LEMMA MaybeConnectJob ==
  ASSUME JobInv, dialog \in DialogType, NEW c \in Conns, NEW p \in Calls,
         NEW target \in Ids \cup {None}, UNCHANGED accepted, MaybeConnect(c, p, target)
  PROVE  JobInv' /\ dialog' \in DialogType
<1>1. CASE Connecting(c, p, FALSE, target)
  BY <1>1, ConnectingJob
<1>2. CASE UNCHANGED dialog /\ job' = [job EXCEPT ![c] = [NoJob EXCEPT !.pc = "check", !.p = p,
                                                                      !.target = target]]
  <2> DEFINE j == [NoJob EXCEPT !.pc = "check", !.p = p, !.target = target]
  <2>1. j \in Jobs /\ j.p = p /\ ~j.trust
    BY NoJobIsJob DEF Jobs
  <2>2. job' = [job EXCEPT ![c] = j]
    BY <1>2
  <2> HIDE DEF j
  <2> QED
    BY <1>2, <2>1, <2>2, JobSet
<1> QED
  BY <1>1, <1>2 DEF MaybeConnect

LEMMA ListedRows ==
  ASSUME StoreInv, Refresh
  PROVE  RecentsInv'
BY DEF StoreInv, Refresh, Listing, RecentsInv, NoRows

\* The dialog closes, or lives on with a warning.
LEMMA ShutForms ==
  ASSUME FormInv, Shut
  PROVE  FormInv' /\ RecentsInv'
<1>1. dialog' \in DialogType
  BY DEF FormInv, Shut, DialogType
<1>2. form' \in Row /\ reconnect' = None /\ confirm' = None
  BY DEF Shut, Reset, Local, Row, Remote
<1> QED
  BY <1>1, <1>2 DEF FormInv, RecentsInv, Shut, NoRows

LEMMA FinishStep ==
  ASSUME JobInv, FormInv, RecentsInv, NEW c \in Conns, NEW warned \in BOOLEAN, Finish(c, warned),
         UNCHANGED accepted
  PROVE  JobInv' /\ FormInv' /\ RecentsInv'
<1>1. JobInv'
  BY OverJob DEF Finish
<1>2. CASE Shut
  BY <1>1, <1>2, ShutForms
<1>3. CASE /\ dialog' = [dialog EXCEPT !.warning = @ \/ warned]
           /\ UNCHANGED <<form, reconnect, confirm, recents>>
  BY <1>1, <1>3 DEF FormInv, RecentsInv, DialogType
<1> QED
  BY <1>2, <1>3 DEF Finish

-----------------------------------------------------------------------------
(* One lemma per group of actions. *)

LEMMA InitHolds == Init => IInv
<1> SUFFICES ASSUME Init PROVE IInv
  OBVIOUS
<1> USE NoneIsNothingElse
<1>1. KeysTypeOK /\ ~overlapped /\ known = Empty /\ trusted = Empty
  BY DEF Init, KeysInit, KeysTypeOK, Known, Empty, NoDial, Stages
<1>2. \A c \in Conns : dial[c].stage = "idle"
  BY DEF Init, KeysInit, NoDial
<1>3. Saving = {} /\ DialInv /\ TrustInv
  BY <1>1, <1>2 DEF Saving, DialInv, TrustInv
<1>4. PromptInv
  BY <1>1, <1>2, <1>3 DEF PromptInv, Empty
<1>5. JobInv
  BY NoJobIsJob DEF Init, JobInv
<1>6. FormInv
  BY DEF Init, FormInv, DialogType, Local, Row, Remote
<1>7. saved \in [Ids -> Rows \cup {None}]
  BY DialogAssumption DEF Init, Rows, Row, Named, Remote
<1>8. RecentsInv /\ StoreInv
  BY <1>7 DEF Init, RecentsInv, StoreInv, NoRows
<1> QED
  BY <1>1, <1>3, <1>4, <1>5, <1>6, <1>8 DEF Init, IInv, KeysInv

\* What the user does without starting a connection.
LEMMA FormsStep ==
  ASSUME IInv,
         \/ \E h \in Remote : Open(h)
         \/ Close \/ SettingsAnswer \/ Back \/ (\E k \in Kinds : SelectKind(k))
         \/ (\E i \in Ids : FormForHost(i)) \/ RejectHostKey
  PROVE  IInv'
<1> USE NoneIsNothingElse
<1>1. UNCHANGED <<keyVars, job, saved, secretOf, accepted>>
  BY DEF Open, Close, SettingsAnswer, Back, SelectKind, FormForHost, RejectHostKey, dataVars, history
<1>2. KeysInv' /\ JobInv'
  BY <1>1, KeysKept, JobKept DEF IInv
<1>3. FormInv' /\ RecentsInv'
  <2>1. ASSUME NEW h \in Remote, Open(h) PROVE FormInv' /\ RecentsInv'
    <3>1. dialog' \in DialogType /\ form' \in Row /\ reconnect' = None /\ confirm' = None
      BY <2>1, DialogAssumption DEF IInv, FormInv, Open, Reset, DialogType, Local, Row, Remote
    <3> QED
      BY <2>1, <3>1, ListedRows DEF IInv, FormInv, Open
  <2>2. CASE Close
    BY <2>2, ShutForms DEF IInv, Close
  <2>3. CASE SettingsAnswer
    BY <2>3 DEF IInv, KeysInv, KeysTypeOK, FormInv, RecentsInv, SettingsAnswer, DialogType
  <2>4. CASE Back
    BY <2>4 DEF IInv, FormInv, RecentsInv, Back, DialogType
  <2>5. ASSUME NEW k \in Kinds, SelectKind(k) PROVE FormInv' /\ RecentsInv'
    BY <2>5 DEF IInv, FormInv, RecentsInv, SelectKind, DialogType, Row
  <2>6. ASSUME NEW i \in Ids, FormForHost(i) PROVE FormInv' /\ RecentsInv'
    <3>1. recents[i].row \in Row
      BY <2>6 DEF IInv, RecentsInv, FormForHost, RowReady, Rows
    <3> QED
      BY <2>6, <3>1 DEF IInv, FormInv, RecentsInv, FormForHost, ApplyHostToForm, DialogType
  <2>7. CASE RejectHostKey
    BY <2>7 DEF IInv, FormInv, RecentsInv, RejectHostKey, DialogType
  <2> QED
    BY <2>1, <2>2, <2>3, <2>4, <2>5, <2>6, <2>7
<1> QED
  BY <1>1, <1>2, <1>3 DEF IInv, StoreInv

\* A key is only trusted when the user has just accepted it.
LEMMA StartStep ==
  ASSUME IInv, NEW c \in Conns,
         \/ SelectLocal(c) \/ AcceptHostKey(c)
         \/ \E i \in Ids : ConnectLocalSaved(i, c) \/ Reconnect(i, c)
         \/ \E h \in Hosts, secret, save \in BOOLEAN : Connect(c, h, secret, save)
  PROVE  IInv'
<1> USE NoneIsNothingElse
<1>1. UNCHANGED <<keyVars, saved, secretOf, recents>> /\ accepted \subseteq accepted'
  BY DEF SelectLocal, AcceptHostKey, ConnectLocalSaved, Reconnect, Connect, dataVars, history
<1>2. dialog \in DialogType /\ RecentsInv'
  BY <1>1 DEF IInv, FormInv, RecentsInv
<1>3. ASSUME NEW secret \in BOOLEAN, NEW save \in BOOLEAN, NEW id \in Ids \cup {None},
             NEW row \in Rows
      PROVE  ParamsOf(row, secret, save, id) \in Calls
  BY DEF ParamsOf, Calls, Params, Rows, Row, Named
<1>4. JobInv' /\ FormInv'
  <2>1. CASE SelectLocal(c)
    <3>1. ParamsOf(Local, FALSE, FALSE, None) \in Calls
      BY <1>3 DEF Local, Rows, Row, Named, Remote
    <3>2. /\ Connecting(c, ParamsOf(Local, FALSE, FALSE, None), FALSE, None)
          /\ UNCHANGED <<form, reconnect, confirm>>
      BY <2>1 DEF SelectLocal
    <3> QED
      BY <1>1, <1>2, <3>1, <3>2, ConnectingJob DEF IInv, FormInv
  <2>2. CASE AcceptHostKey(c)
    <3>1. /\ confirm.p \in Calls /\ confirm.target \in Ids \cup {None}
          /\ confirm.p.host \in accepted'
          /\ Connecting(c, confirm.p, TRUE, confirm.target)
          /\ UNCHANGED <<form, reconnect, confirm>>
      BY <2>2 DEF IInv, FormInv, AcceptHostKey, AtConfirm
    <3> QED
      BY <1>1, <1>2, <3>1, ConnectingJob DEF IInv, FormInv
  <2>3. ASSUME NEW i \in Ids, ConnectLocalSaved(i, c) PROVE JobInv' /\ FormInv'
    <3>1. ParamsOf(Local, FALSE, FALSE, i) \in Calls
      BY <1>3 DEF Local, Rows, Row, Named, Remote
    <3>2. /\ Connecting(c, ParamsOf(Local, FALSE, FALSE, i), FALSE, i)
          /\ UNCHANGED <<form, reconnect, confirm>>
      BY <2>3 DEF ConnectLocalSaved
    <3> QED
      BY <1>1, <1>2, <3>1, <3>2, ConnectingJob DEF IInv, FormInv
  <2>4. ASSUME NEW i \in Ids, Reconnect(i, c) PROVE JobInv' /\ FormInv'
    <3> DEFINE row == recents[i].row
    <3>1. row \in Rows
      BY <2>4 DEF IInv, RecentsInv, Reconnect, RowReady
    <3>2. /\ MaybeConnect(c, ParamsOf(row, FALSE, FALSE, i), i)
          /\ form' = row /\ UNCHANGED <<reconnect, confirm, accepted>>
      BY <2>4 DEF Reconnect, ApplyHostToForm
    <3> HIDE DEF row
    <3>3. ParamsOf(row, FALSE, FALSE, i) \in Calls
      BY <1>3, <3>1
    <3>4. JobInv' /\ dialog' \in DialogType
      BY <1>2, <3>2, <3>3, MaybeConnectJob DEF IInv
    <3> QED
      BY <3>1, <3>2, <3>4 DEF IInv, FormInv, Rows
  <2>5. ASSUME NEW h \in Hosts, NEW secret \in BOOLEAN, NEW save \in BOOLEAN,
               Connect(c, h, secret, save)
        PROVE  JobInv' /\ FormInv'
    <3>1. form' \in Rows /\ UNCHANGED <<reconnect, confirm, accepted>>
      BY <2>5 DEF IInv, FormInv, Connect, Edit, CanConnect, Rows, Row, Named, Remote
    <3>2. PICK target \in Ids \cup {None} :
            MaybeConnect(c, ParamsOf(form', secret, save, reconnect), target)
      BY <2>5 DEF IInv, FormInv, Connect
    <3>3. ParamsOf(form', secret, save, reconnect) \in Calls
      BY <1>3, <3>1 DEF IInv, FormInv
    <3>4. JobInv' /\ dialog' \in DialogType
      BY <1>2, <3>1, <3>2, <3>3, MaybeConnectJob DEF IInv
    <3> QED
      BY <3>1, <3>4 DEF IInv, FormInv, Rows
  <2> QED
    BY <2>1, <2>2, <2>3, <2>4, <2>5
<1> QED
  BY <1>1, <1>2, <1>4, KeysKept DEF IInv, StoreInv

\* CheckHostKeyTrust answers: the call goes on without trust, or waits for the user.
LEMMA CheckStep == ASSUME IInv, NEW c \in Conns, CheckAnswer(c) PROVE IInv'
<1> DEFINE p == job[c].p
           target == job[c].target
<1>1. p \in Calls /\ target \in Ids \cup {None} /\ dialog \in DialogType
  BY DEF CheckAnswer, IInv, JobInv, FormInv, Jobs
<1>2. UNCHANGED <<keyVars, form, reconnect, recents, saved, secretOf, accepted>>
  BY DEF CheckAnswer, dataVars, history
<1>3. JobInv' /\ FormInv'
  <2>1. CASE Connecting(c, p, FALSE, target) /\ UNCHANGED confirm
    <3>1. JobInv' /\ dialog' \in DialogType
      BY <1>1, <1>2, <2>1, ConnectingJob DEF IInv
    <3> QED
      BY <1>2, <2>1, <3>1 DEF IInv, FormInv
  <2>2. ASSUME NEW changed,
               \/ /\ confirm' = [p |-> p, target |-> target, changed |-> changed]
                  /\ dialog' = [dialog EXCEPT !.step = "hostKeyConfirm"]
               \/ UNCHANGED <<confirm, dialog>>,
               job' = [job EXCEPT ![c] = NoJob]
        PROVE  JobInv' /\ FormInv'
    <3>1. JobInv'
      BY <1>2, <2>2, JobSet, NoJobIsJob DEF IInv
    <3>2. FormInv'
      BY <1>1, <1>2, <2>2 DEF IInv, FormInv, DialogType
    <3> QED
      BY <3>1, <3>2
  <2> QED
    BY <2>1, <2>2 DEF CheckAnswer
<1> QED
  BY <1>2, <1>3, KeysKept DEF IInv, RecentsInv, StoreInv

\* An SSH connection presents the key of the host it was asked for, with the user's word.
LEMMA DialStep == ASSUME IInv, NEW c \in Conns, Dial(c) PROVE IInv'
<1> DEFINE p == job[c].p
           used == IF NeedsStored(p) THEN secretOf[p.id] ELSE None
           j == [job[c] EXCEPT !.pc = "dial", !.used = used]
<1>1. /\ p \in Calls /\ job[c] \in Jobs
      /\ job' = [job EXCEPT ![c].pc = "dial", ![c].used = used]
      /\ IF p.kind = "ssh" THEN Present(c, p.host, job[c].trust) ELSE UNCHANGED keyVars
      /\ UNCHANGED <<dialog, form, reconnect, confirm, recents, saved, secretOf, accepted>>
  BY DEF Dial, IInv, JobInv, uiVars, dataVars, history
<1>2. used \in Remote
  <2>1. NeedsStored(p) => p.id \in Ids
    BY <1>1 DEF NeedsStored, Calls, Params
  <2> QED
    BY <2>1 DEF IInv, StoreInv, Remote
<1> HIDE DEF used
<1>3. j \in Jobs /\ j.p = p /\ j.trust = job[c].trust
  BY <1>1, <1>2 DEF Jobs
<1>4. job' = [job EXCEPT ![c] = j]
  BY <1>1 DEF IInv, JobInv
<1>5. job[c].trust \in BOOLEAN /\ (job[c].trust => p.host \in accepted)
  BY <1>1 DEF IInv, JobInv, Jobs
<1> HIDE DEF j
<1>6. JobInv'
  BY <1>1, <1>3, <1>4, <1>5, JobSet DEF IInv
<1>7. KeysInv'
  <2>1. CASE p.kind = "ssh"
    <3>1. p.host \in Hosts
      BY <1>1, <2>1 DEF Calls, Named
    <3> QED
      BY <1>1, <1>5, <2>1, <3>1, PresentStep DEF IInv
  <2>2. CASE p.kind # "ssh"
    BY <1>1, <2>2, KeysKept DEF IInv
  <2> QED
    BY <2>1, <2>2
<1> QED
  BY <1>1, <1>6, <1>7 DEF IInv, FormInv, RecentsInv, StoreInv

\* The host key callback.
LEMMA VerifyingStep == ASSUME IInv, NEW c \in Conns, Verifying(c) PROVE IInv'
<1>1. UNCHANGED <<dialog, form, reconnect, confirm, recents, job, saved, secretOf, accepted>>
  BY DEF Verifying, uiVars, dataVars, history
<1>2. KeysInv'
  BY <1>1, VerifyStep, PinStep, PinFailsStep DEF Verifying, IInv
<1> QED
  BY <1>1, <1>2, JobKept DEF IInv, FormInv, RecentsInv, StoreInv

\* How an attempt goes on once the connection is made or has failed.
LEMMA EndingStep ==
  ASSUME IInv, NEW c \in Conns,
         OpenFails(c) \/ Opened(c) \/ SaveEntry(c) \/ SaveSecret(c) \/ SaveFails(c) \/ Touch(c)
  PROVE  IInv'
<1> DEFINE p == job[c].p
<1>1. UNCHANGED <<keyVars, accepted>> /\ p \in Calls
  BY DEF OpenFails, Fail, Opened, SaveEntry, SaveSecret, SaveFails, Touch, history, IInv, JobInv
<1>2. \/ Fail(c)
      \/ \E warned \in BOOLEAN : Finish(c, warned)
      \/ \E pc \in {"save", "secret", "touch", "over"} : Goto(c, pc) /\ UNCHANGED uiVars
  BY DEF OpenFails, Opened, SaveEntry, SaveSecret, SaveFails, Touch, NextCall
<1>3. JobInv' /\ FormInv' /\ RecentsInv'
  <2>1. CASE Fail(c)
    <3>1. JobInv'
      BY <1>1, <2>1, OverJob DEF Fail, IInv
    <3> QED
      BY <2>1, <3>1 DEF Fail, IInv, FormInv, RecentsInv, DialogType
  <2>2. ASSUME NEW warned \in BOOLEAN, Finish(c, warned) PROVE JobInv' /\ FormInv' /\ RecentsInv'
    BY <1>1, <2>2, FinishStep DEF IInv
  <2>3. ASSUME NEW pc \in {"save", "secret", "touch", "over"}, Goto(c, pc), UNCHANGED uiVars
        PROVE  JobInv' /\ FormInv' /\ RecentsInv'
    <3>1. JobInv'
      BY <1>1, <2>3, GotoJob DEF IInv
    <3> QED
      BY <2>3, <3>1 DEF uiVars, IInv, FormInv, RecentsInv
  <2> QED
    BY <1>2, <2>1, <2>2, <2>3
<1>4. StoreInv'
  <2>1. [kind |-> p.kind, host |-> p.host] \in Rows
    BY <1>1 DEF Calls, Params, Rows, Row, Named
  <2>2. p.host \in Remote
    BY <1>1 DEF Calls, Params
  <2> QED
    BY <2>1, <2>2 DEF IInv, StoreInv, OpenFails, Fail, Opened, SaveEntry, SaveSecret, SaveFails,
                      Touch, dataVars
<1> QED
  BY <1>1, <1>3, <1>4, KeysKept DEF IInv

LEMMA ForgetStep ==
  ASSUME IInv, NEW i \in Ids, Forget(i) \/ ForgetEntry(i) \/ ForgetFails(i) \/ ForgetSecrets(i)
  PROVE  IInv'
<1>1. UNCHANGED <<keyVars, job, form, reconnect, confirm, accepted>>
  BY DEF Forget, ForgetEntry, ForgetFails, ForgetSecrets, uiVars, history
<1>2. StoreInv'
  BY DEF Forget, ForgetEntry, ForgetFails, ForgetSecrets, IInv, StoreInv, Remote
<1>3. RecentsInv'
  BY ListedRows DEF Forget, ForgetEntry, ForgetFails, ForgetSecrets, IInv, uiVars, RecentsInv
<1>4. FormInv'
  BY <1>1 DEF Forget, ForgetEntry, ForgetFails, ForgetSecrets, IInv, uiVars, FormInv, DialogType
<1> QED
  BY <1>1, <1>2, <1>3, <1>4, KeysKept, JobKept DEF IInv

LEMMA RekeyedStep ==
  ASSUME IInv, NEW h \in Hosts, NEW key \in Keys, HostRekeyed(h, key)
  PROVE  IInv'
<1>1. UNCHANGED <<dialog, form, reconnect, confirm, recents, job, saved, secretOf, accepted>>
  BY DEF HostRekeyed, uiVars, dataVars, history
<1>2. KeysInv'
  BY <1>1, RekeyStep DEF HostRekeyed, IInv
<1> QED
  BY <1>1, <1>2, JobKept DEF IInv, FormInv, RecentsInv, StoreInv

LEMMA NextHolds == IInv /\ [Next]_dlgVars => IInv'
<1> SUFFICES ASSUME IInv, [Next]_dlgVars PROVE IInv'
  OBVIOUS
<1>1. CASE UNCHANGED dlgVars
  BY <1>1, KeysKept, JobKept DEF dlgVars, uiVars, dataVars, history, IInv, FormInv, RecentsInv, StoreInv
<1>2. CASE User
  BY <1>2, FormsStep, StartStep, ForgetStep DEF User
<1>3. CASE Backend
  BY <1>3, FormsStep, ForgetStep DEF Backend
<1>4. ASSUME NEW c \in Conns, Attempt(c) PROVE IInv'
  BY <1>4, CheckStep, DialStep, VerifyingStep, EndingStep DEF Attempt
<1>5. ASSUME NEW h \in Hosts, NEW key \in Keys, HostRekeyed(h, key) PROVE IInv'
  BY <1>5, RekeyedStep
<1> QED
  BY <1>1, <1>2, <1>3, <1>4, <1>5 DEF Next

LEMMA InvHolds == Spec => []IInv
BY InitHolds, NextHolds, PTL DEF Spec

-----------------------------------------------------------------------------
(* However many connections verify at once, through whatever the dialog is made to do:     *)
(* unless a file was loaded beside a save of another connection, a host that was accepted  *)
(* with one key is never accepted with another.                                            *)
THEOREM TrustOnFirstUse == Spec => []TrustedKeyIsKept
<1>1. IInv => TrustedKeyIsKept
  BY DEF IInv, KeysInv, TrustInv, TrustedKeyIsKept
<1> QED
  BY <1>1, InvHolds, PTL

(* With the setting on, no key gets into known_hosts.yaml that the user was not asked for, *)
(* races of saves included: the word of the user travels with the call to the callback.    *)
THEOREM PinnedKeysWerePrompted == Spec => []PromptedKeysAreAccepted
<1>1. IInv => PromptedKeysAreAccepted
  BY DEF IInv, KeysInv, PromptInv, PromptedKeysAreAccepted
<1> QED
  BY <1>1, InvHolds, PTL
-----------------------------------------------------------------------------
(* Records and their passwords. *)

\* A call that names a record is about that record; one that saves has a record to save
\* under, a host, and a password typed or stored.
CallOK(p, target) ==
    /\ p.id # None => target = p.id
    /\ p.save => target # None /\ p.kind # "local" /\ (p.secret \/ p.id # None)

JobOK(j) ==
    j.pc \notin {"new", "over"} =>
      /\ CallOK(j.p, j.target)
      /\ j.pc = "save" => j.p.save
      /\ j.pc = "secret" => j.p.save /\ j.p.secret

CallsInv ==
    /\ \A c \in Conns : JobOK(job[c])
    /\ confirm # None => CallOK(confirm.p, confirm.target)

\* Until the user edits it or a refused key carries it over, all that names record i
\* names one host for it: f[i].  An id that is named anywhere has been given out.
Fits(i, host, f) == i \in minted /\ (i \notin edited \cup carried => host = f[i])

SavedFits(f)   == \A i \in Ids : saved[i] # None => Fits(i, saved[i].host, f)
RecentsFit(f)  == \A i \in Ids : recents[i] # None => Fits(i, recents[i].row.host, f)
FormFits(f)    == reconnect # None => /\ reconnect \in minted
                                      /\ dialog.step = "form" => Fits(reconnect, form.host, f)
JobFits(j, f)  == j.pc \notin {"new", "over"} /\ j.p.save => Fits(j.target, j.p.host, f)
JobsFit(f)     == \A c \in Conns : JobFits(job[c], f)
ConfirmFits(f) == confirm # None /\ confirm.p.save => Fits(confirm.target, confirm.p.host, f)

Hosted(f) == SavedFits(f) /\ RecentsFit(f) /\ FormFits(f) /\ JobsFit(f) /\ ConfirmFits(f)

HostsInv == minted \subseteq Ids /\ \E f \in [Ids -> Remote] : Hosted(f)

\* The calls under way on record i.
IsOn(j, i)  == j.pc \notin {"new", "over"} /\ j.target = i
On(c, i)    == IsOn(job[c], i)
Coherent(i) == secretOf[i] # None => saved[i] # None /\ saved[i].host = secretOf[i]

\* What a call on record i has seen or made of its two halves.
Stored(j, i) ==
    /\ j.pc = "secret" => saved[i] # None /\ saved[i].host = j.p.host
    /\ NeedsStored(j.p) /\ j.pc = "dial" => j.used = secretOf[i]
    /\ NeedsStored(j.p) /\ j.pc = "save" => secretOf[i] = j.p.host

\* One operation at a time is under way on an undisturbed record, and its halves agree
\* except between the two writes of that operation.
SecretInv(i) ==
    /\ \A c, d \in Conns : On(c, i) /\ On(d, i) => c = d
    /\ removing[i] # "no" => \A c \in Conns : ~On(c, i)
    /\ removing[i] # "secrets" /\ (\A c \in Conns : On(c, i) => job[c].pc # "secret") => Coherent(i)
    /\ \A c \in Conns : On(c, i) => Stored(job[c], i)

SecretsInv ==
    /\ removing \in [Ids -> {"no", "entry", "secrets"}]
    /\ \A i \in Ids \ disturbed : SecretInv(i)

RecordInv == CallsInv /\ HostsInv /\ SecretsInv

\* What only grows.
Grows == minted \subseteq minted' /\ minted' \subseteq Ids /\ edited \subseteq edited' /\ carried \subseteq carried'

-----------------------------------------------------------------------------
(* The parts of the invariant that a step of one call may disturb. *)

\* Call c becomes j.
Becomes(c, j) == job' = [job EXCEPT ![c] = j]

LEMMA CallsSet ==
  ASSUME CallsInv, JobInv, NEW c \in Conns, NEW j, Becomes(c, j), JobOK(j),
         confirm' # None => CallOK(confirm'.p, confirm'.target)
  PROVE  CallsInv'
<1>1. \A d \in Conns : job'[d] = IF d = c THEN j ELSE job[d]
  BY DEF Becomes, JobInv
<1>2. \A d \in Conns : JobOK(job'[d])
  BY <1>1 DEF CallsInv
<1> QED
  BY <1>2 DEF CallsInv, JobOK, CallOK

LEMMA JobsFitSet ==
  ASSUME NEW f, JobsFit(f), Grows, JobInv, NEW c \in Conns, NEW j, Becomes(c, j),
         j.pc \notin {"new", "over"} /\ j.p.save => Fits(j.target, j.p.host, f)'
  PROVE  JobsFit(f)'
<1>1. \A d \in Conns : job'[d] = IF d = c THEN j ELSE job[d]
  BY DEF Becomes, JobInv
<1>2. \A d \in Conns \ {c} : JobFits(job[d], f)
  BY DEF JobsFit
<1> QED
  BY <1>1, <1>2 DEF JobsFit, JobFits, Fits, Grows

LEMMA JobsFitKept ==
  ASSUME NEW f, JobsFit(f), Grows, UNCHANGED job
  PROVE  JobsFit(f)'
BY DEF JobsFit, JobFits, Fits, Grows

LEMMA SavedFitsKept ==
  ASSUME NEW f, SavedFits(f), Grows, UNCHANGED saved
  PROVE  SavedFits(f)'
BY DEF SavedFits, Fits, Grows

LEMMA RecentsFitKept ==
  ASSUME NEW f, RecentsFit(f), SavedFits(f), Grows,
         Refresh \/ UNCHANGED recents \/ recents' = NoRows
  PROVE  RecentsFit(f)'
<1>1. CASE Refresh \/ recents' = NoRows
  BY <1>1 DEF Refresh, Listing, NoRows, RecentsFit, SavedFits, Fits, Grows
<1>2. CASE UNCHANGED recents
  BY <1>2 DEF RecentsFit, Fits, Grows
<1> QED
  BY <1>1, <1>2

LEMMA FormFitsKept ==
  ASSUME NEW f, FormFits(f), Grows,
         \/ reconnect' = None
         \/ reconnect' = reconnect /\ dialog'.step # "form"
         \/ UNCHANGED <<reconnect, form>> /\ dialog'.step = dialog.step
  PROVE  FormFits(f)'
BY DEF FormFits, Fits, Grows

LEMMA ConfirmFitsKept ==
  ASSUME NEW f, ConfirmFits(f), Grows, UNCHANGED confirm \/ confirm' = None
  PROVE  ConfirmFits(f)'
BY DEF ConfirmFits, Fits, Grows

\* Another call on the record, or none: what call c does is its own affair.
LEMMA SecretSet ==
  ASSUME JobInv, NEW c \in Conns, NEW j, Becomes(c, j), NEW i \in Ids, SecretInv(i),
         removing'[i] = removing[i],
         IsOn(j, i) => On(c, i) \/ ~Busy(i),
         ~On(c, i) => saved'[i] = saved[i] /\ secretOf'[i] = secretOf[i],
         On(c, i) /\ ~(IsOn(j, i) /\ j.pc = "secret") => Coherent(i)',
         IsOn(j, i) => Stored(j, i)'
  PROVE  SecretInv(i)'
<1>1. \A d \in Conns : job'[d] = IF d = c THEN j ELSE job[d]
  BY DEF Becomes, JobInv
<1>2. \A d \in Conns \ {c} : (On(d, i)' <=> On(d, i)) /\ job'[d] = job[d]
  BY <1>1 DEF On, IsOn
<1>3. (On(c, i)' <=> IsOn(j, i)) /\ job'[c] = j
  BY <1>1 DEF On, IsOn
<1>4. /\ ~Busy(i) => removing[i] = "no" /\ \A d \in Conns : ~On(d, i)
      /\ On(c, i) => \A d \in Conns \ {c} : ~On(d, i)
  BY NoneIsNothingElse DEF Busy, Live, On, IsOn, SecretInv
<1>5. IsOn(j, i) => removing[i] = "no" /\ \A d \in Conns \ {c} : ~On(d, i)
  BY <1>4 DEF SecretInv
<1>6. \A d, e \in Conns : On(d, i)' /\ On(e, i)' => d = e
  <2> SUFFICES ASSUME NEW d \in Conns, NEW e \in Conns, On(d, i)', On(e, i)', d # c
               PROVE  d = e
    OBVIOUS
  <2>1. On(d, i) /\ e # c
    BY <1>2, <1>3, <1>5
  <2> QED
    BY <1>2, <2>1 DEF SecretInv
<1>7. removing'[i] # "no" => \A d \in Conns : ~On(d, i)'
  BY <1>2, <1>3, <1>5 DEF SecretInv
<1>8. ASSUME removing'[i] # "secrets", \A d \in Conns : On(d, i)' => job'[d].pc # "secret"
      PROVE  Coherent(i)'
  <2>1. CASE On(c, i)
    BY <1>3, <1>8, <2>1
  <2>2. CASE ~On(c, i)
    <3>1. \A d \in Conns : On(d, i) => job[d].pc # "secret"
      BY <1>2, <1>8, <2>2
    <3>2. Coherent(i)
      BY <1>8, <3>1 DEF SecretInv
    <3> QED
      BY <2>2, <3>2 DEF Coherent
  <2> QED
    BY <2>1, <2>2
<1>9. ASSUME NEW d \in Conns, On(d, i)' PROVE Stored(job[d], i)'
  <2>1. CASE d = c
    BY <1>3, <1>9, <2>1 DEF Stored
  <2>2. CASE d # c
    <3>1. On(d, i) /\ ~On(c, i) /\ job'[d] = job[d]
      BY <1>2, <1>4, <1>9, <2>2
    <3>2. Stored(job[d], i) /\ saved'[i] = saved[i] /\ secretOf'[i] = secretOf[i]
      BY <3>1 DEF SecretInv
    <3> QED
      BY <3>1, <3>2 DEF Stored
  <2> QED
    BY <2>1, <2>2
<1> QED
  BY <1>6, <1>7, <1>8, <1>9 DEF SecretInv

\* The halves of a record agree while the one call on it is not between them.
LEMMA OnCoherent ==
  ASSUME NEW i \in Ids, SecretInv(i), NEW c \in Conns, On(c, i), job[c].pc # "secret"
  PROVE  Coherent(i)
BY DEF SecretInv

\* A call moves on and the records are left alone.
LEMMA SecretsMoved ==
  ASSUME JobInv, SecretsInv, NEW c \in Conns, NEW j, Becomes(c, j),
         UNCHANGED <<saved, secretOf, removing>>, disturbed \subseteq disturbed',
         \A i \in Ids \ disturbed' :
            /\ IsOn(j, i) => On(c, i) \/ ~Busy(i)
            /\ On(c, i) => job[c].pc # "secret"
            /\ IsOn(j, i) => Stored(j, i)
  PROVE  SecretsInv'
<1> SUFFICES ASSUME NEW i \in Ids \ disturbed' PROVE SecretInv(i)'
  BY DEF SecretsInv
<1>1. SecretInv(i) /\ i \in Ids
  BY DEF SecretsInv
<1>2. IsOn(j, i) => Stored(j, i)'
  BY DEF Stored
<1>3. On(c, i) => Coherent(i)
  BY <1>1, OnCoherent
<1>4. On(c, i) => Coherent(i)'
  BY <1>3 DEF Coherent
<1> QED
  BY <1>1, <1>2, <1>4, SecretSet

LEMMA SecretsKept ==
  ASSUME SecretsInv, UNCHANGED <<job, saved, secretOf, removing>>, disturbed \subseteq disturbed'
  PROVE  SecretsInv'
<1>1. \A i \in Ids : SecretInv(i)' <=> SecretInv(i)
  BY DEF SecretInv, On, IsOn, Stored, Coherent
<1> QED
  BY <1>1 DEF SecretsInv
-----------------------------------------------------------------------------
(* What a step makes of its call. *)

LEMMA CallStarts ==
  ASSUME FormInv, NEW c \in Conns, NEW p, NEW trust, NEW target,
         Connecting(c, p, trust, target) \/ MaybeConnect(c, p, target)
  PROVE  /\ \E j : /\ Becomes(c, j) /\ j.p = p /\ j.target = target
                   /\ j.pc \in {"open", "check"}
         /\ dialog'.step = dialog.step
<1>1. ASSUME NEW t, Connecting(c, p, t, target)
      PROVE  /\ \E j : /\ Becomes(c, j) /\ j.p = p /\ j.target = target
                       /\ j.pc \in {"open", "check"}
             /\ dialog'.step = dialog.step
  <2> DEFINE j == [NoJob EXCEPT !.pc = "open", !.p = p, !.trust = t,
                                !.target = target, !.stale = dialog.warning]
  <2>1. Becomes(c, j)
    BY <1>1 DEF Connecting, Becomes
  <2>2. j.p = p /\ j.target = target /\ j.pc = "open"
    BY DEF NoJob
  <2>3. dialog'.step = dialog.step
    BY <1>1 DEF Connecting, FormInv, DialogType
  <2> HIDE DEF j
  <2> QED
    BY <2>1, <2>2, <2>3
<1>2. CASE UNCHANGED dialog /\ job' = [job EXCEPT ![c] = [NoJob EXCEPT !.pc = "check", !.p = p,
                                                                      !.target = target]]
  <2> DEFINE j == [NoJob EXCEPT !.pc = "check", !.p = p, !.target = target]
  <2>1. Becomes(c, j)
    BY <1>2 DEF Becomes
  <2>2. j.p = p /\ j.target = target /\ j.pc = "check"
    BY DEF NoJob
  <2> HIDE DEF j
  <2> QED
    BY <1>2, <2>1, <2>2
<1> QED
  BY <1>1, <1>2 DEF MaybeConnect

LEMMA CallEnds ==
  ASSUME NEW c \in Conns, Over(c)
  PROVE  \E j : Becomes(c, j) /\ j.pc = "over"
<1> DEFINE j == [NoJob EXCEPT !.pc = "over"]
<1>1. Becomes(c, j) /\ j.pc = "over"
  BY DEF Over, Becomes, NoJob
<1> QED
  BY <1>1

LEMMA CallGoesOn ==
  ASSUME JobInv, NEW c \in Conns, NEW pc, Goto(c, pc)
  PROVE  \E j : Becomes(c, j) /\ j.pc = pc /\ j.p = job[c].p /\ j.target = job[c].target
<1> DEFINE j == [job[c] EXCEPT !.pc = pc]
<1>1. Becomes(c, j)
  BY DEF Goto, Becomes
<1>2. j.pc = pc /\ j.p = job[c].p /\ j.target = job[c].target
  BY DEF JobInv, Jobs
<1> HIDE DEF j
<1> QED
  BY <1>1, <1>2

-----------------------------------------------------------------------------
(* One lemma per group of actions. *)

LEMMA RecordsAtFirst == Init => RecordInv
<1> SUFFICES ASSUME Init PROVE RecordInv
  OBVIOUS
<1> USE NoneIsNothingElse
<1>1. \A c \in Conns : job[c].pc = "new"
  BY DEF Init, NoJob
<1>2. CallsInv
  BY <1>1 DEF Init, CallsInv, JobOK
<1>3. saved \in [Ids -> Row \cup {None}] /\ secretOf \in [Ids -> Remote]
  BY DialogAssumption DEF Init
<1>4. HostsInv
  <2> DEFINE f == [i \in Ids |-> IF saved[i] = None THEN None ELSE saved[i].host]
  <2>1. f \in [Ids -> Remote]
    BY <1>3 DEF Row, Remote
  <2>2. SavedFits(f) /\ RecentsFit(f) /\ FormFits(f) /\ ConfirmFits(f)
    BY DEF Init, SavedFits, RecentsFit, FormFits, ConfirmFits, Fits, NoRows
  <2>3. JobsFit(f)
    BY <1>1 DEF JobsFit, JobFits
  <2> HIDE DEF f
  <2>4. minted \subseteq Ids
    BY DEF Init
  <2> QED
    BY <2>1, <2>2, <2>3, <2>4 DEF HostsInv, Hosted
<1>5. SecretsInv
  <2>1. \A c \in Conns, i \in Ids : ~On(c, i)
    BY <1>1 DEF On, IsOn
  <2>2. \A i \in Ids : Coherent(i)
    BY DEF Init, Coherent
  <2> QED
    BY <2>1, <2>2 DEF Init, SecretsInv, SecretInv
<1> QED
  BY <1>2, <1>4, <1>5 DEF RecordInv

\* What the user does without starting a connection.
LEMMA FormsRecords ==
  ASSUME IInv, RecordInv,
         \/ \E h \in Remote : Open(h)
         \/ Close \/ SettingsAnswer \/ Back \/ (\E k \in Kinds : SelectKind(k))
         \/ (\E i \in Ids : FormForHost(i)) \/ RejectHostKey
  PROVE  RecordInv'
<1> USE NoneIsNothingElse
<1>1. /\ UNCHANGED <<job, saved, secretOf, removing, minted, disturbed, edited>>
      /\ carried \subseteq carried'
  BY DEF Open, Close, SettingsAnswer, Back, SelectKind, FormForHost, RejectHostKey, dataVars, history
<1>2. UNCHANGED confirm \/ confirm' = None
  BY DEF Open, Close, Shut, Reset, SettingsAnswer, Back, SelectKind, FormForHost, RejectHostKey
<1>3. CallsInv'
  BY <1>1, <1>2 DEF RecordInv, CallsInv, JobOK, CallOK
<1>4. SecretsInv'
  BY <1>1, SecretsKept DEF RecordInv
<1>5. PICK f \in [Ids -> Remote] : Hosted(f)
  BY DEF RecordInv, HostsInv
<1>6. Grows
  BY <1>1 DEF Grows, RecordInv, HostsInv
<1>7. SavedFits(f)' /\ JobsFit(f)' /\ ConfirmFits(f)'
  BY <1>1, <1>2, <1>5, <1>6, SavedFitsKept, JobsFitKept, ConfirmFitsKept DEF Hosted
<1>8. RecentsFit(f)'
  <2>1. Refresh \/ UNCHANGED recents \/ recents' = NoRows
    BY DEF Open, Close, Shut, SettingsAnswer, Back, SelectKind, FormForHost, RejectHostKey
  <2> QED
    BY <1>5, <1>6, <2>1, RecentsFitKept DEF Hosted
<1>9. FormFits(f)'
  <2>1. dialog \in DialogType
    BY DEF IInv, FormInv
  <2>2. CASE (\E h \in Remote : Open(h)) \/ Close \/ (\E k \in Kinds : SelectKind(k))
    <3>1. reconnect' = None
      BY <2>2 DEF Open, Close, Shut, Reset, SelectKind
    <3> QED
      BY <1>5, <1>6, <3>1, FormFitsKept DEF Hosted
  <2>3. CASE SettingsAnswer \/ Back
    <3>1. /\ UNCHANGED <<reconnect, form>>
          /\ dialog'.step = dialog.step \/ dialog'.step # "form"
      BY <2>1, <2>3 DEF SettingsAnswer, Back, DialogType
    <3> QED
      BY <1>5, <1>6, <3>1, FormFitsKept DEF Hosted
  <2>4. ASSUME NEW i \in Ids, FormForHost(i) PROVE FormFits(f)'
    <3>1. reconnect' = i /\ form' = recents[i].row /\ recents[i] # None
      BY <2>4 DEF FormForHost, ApplyHostToForm, RowReady
    <3>2. Fits(i, recents[i].row.host, f)
      BY <1>5, <3>1 DEF Hosted, RecentsFit
    <3> QED
      BY <1>6, <3>1, <3>2 DEF FormFits, Fits, Grows
  <2>5. CASE RejectHostKey
    <3>1. reconnect' = reconnect /\ (reconnect # None => reconnect \in carried')
      BY <2>5 DEF RejectHostKey
    <3> QED
      BY <1>5, <1>6, <3>1 DEF Hosted, FormFits, Fits, Grows
  <2> QED
    BY <2>2, <2>3, <2>4, <2>5
<1>10. HostsInv'
  BY <1>5, <1>6, <1>7, <1>8, <1>9 DEF HostsInv, Hosted, Grows
<1> QED
  BY <1>3, <1>4, <1>10 DEF RecordInv
\* A connection starts; on a record, unless it meets another operation there.
LEMMA StartRecords ==
  ASSUME IInv, RecordInv, NEW c \in Conns, NEW p, NEW trust, NEW target \in Ids \cup {None},
         Connecting(c, p, trust, target) \/ MaybeConnect(c, p, target),
         job[c].pc = "new", CallOK(p, target),
         UNCHANGED <<saved, secretOf, removing, confirm, recents>>,
         disturbed \subseteq disturbed', target # None => Meets(target),
         Grows, NEW f \in [Ids -> Remote], Hosted(f), FormFits(f)',
         p.save => Fits(target, p.host, f)'
  PROVE  RecordInv'
<1> USE NoneIsNothingElse
<1>1. PICK j : Becomes(c, j) /\ j.p = p /\ j.target = target /\ j.pc \in {"open", "check"}
  BY CallStarts DEF IInv
<1>2. JobInv
  BY DEF IInv
<1>3. CallsInv'
  <2>1. JobOK(j)
    BY <1>1 DEF JobOK, CallOK
  <2>2. confirm' # None => CallOK(confirm'.p, confirm'.target)
    BY DEF RecordInv, CallsInv
  <2> QED
    BY <1>1, <1>2, <2>1, <2>2, CallsSet DEF RecordInv
<1>4. HostsInv'
  <2>1. j.pc \notin {"new", "over"} /\ j.p.save => Fits(j.target, j.p.host, f)'
    BY <1>1
  <2>2. JobsFit(f)'
    BY <1>1, <1>2, <2>1, JobsFitSet DEF Hosted
  <2>3. SavedFits(f)' /\ RecentsFit(f)' /\ ConfirmFits(f)'
    BY SavedFitsKept, RecentsFitKept, ConfirmFitsKept DEF Hosted
  <2> QED
    BY <2>2, <2>3 DEF HostsInv, Hosted, Grows
<1>5. SecretsInv'
  <2>1. ASSUME NEW i \in Ids \ disturbed'
        PROVE  /\ IsOn(j, i) => On(c, i) \/ ~Busy(i)
               /\ On(c, i) => job[c].pc # "secret"
               /\ IsOn(j, i) => Stored(j, i)
    <3>1. IsOn(j, i) => i = target
      BY <1>1 DEF IsOn
    <3>2. IsOn(j, i) => ~Busy(i)
      BY <2>1, <3>1 DEF Meets
    <3> QED
      BY <1>1, <3>2 DEF Stored
  <2> QED
    BY <1>1, <1>2, <2>1, SecretsMoved DEF RecordInv
<1> QED
  BY <1>3, <1>4, <1>5 DEF RecordInv

\* An id that is given out names nothing yet: any host will do for it.
LEMMA FreshId ==
  ASSUME minted \subseteq Ids, NEW f \in [Ids -> Remote], Hosted(f), NEW t \in Ids \ minted,
         NEW h \in Remote
  PROVE  \E g \in [Ids -> Remote] : Hosted(g) /\ g[t] = h
<1> DEFINE g == [f EXCEPT ![t] = h]
<1>1. g \in [Ids -> Remote] /\ g[t] = h /\ \A i \in Ids \ {t} : g[i] = f[i]
  OBVIOUS
<1> HIDE DEF g
<1>2. \A i, host : Fits(i, host, f) => Fits(i, host, g)
  BY <1>1 DEF Fits
<1>3. SavedFits(g) /\ RecentsFit(g)
  BY <1>2 DEF Hosted, SavedFits, RecentsFit
<1>4. FormFits(g) /\ ConfirmFits(g)
  BY <1>2 DEF Hosted, FormFits, ConfirmFits
<1>5. JobsFit(g)
  BY <1>2 DEF Hosted, JobsFit, JobFits
<1> QED
  BY <1>1, <1>3, <1>4, <1>5 DEF Hosted

\* A form sends what it holds: under its record, under a new one, or under none.
LEMMA ConnectRecords ==
  ASSUME IInv, RecordInv, NEW c \in Conns, NEW h \in Hosts, NEW secret \in BOOLEAN,
         NEW save \in BOOLEAN, Connect(c, h, secret, save)
  PROVE  RecordInv'
<1> USE NoneIsNothingElse
<1>1. /\ dialog.step = "form" /\ form.kind # "local" /\ job[c].pc = "new"
      /\ secret \/ reconnect # None
      /\ form' = [form EXCEPT !.host = h]
      /\ edited' = IF reconnect # None /\ h # form.host THEN edited \cup {reconnect} ELSE edited
      /\ UNCHANGED <<saved, secretOf, removing, confirm, recents, reconnect, carried>>
  BY DEF Connect, CanConnect, Edit
<1> DEFINE p == ParamsOf(form', secret, save, reconnect)
<1>2. PICK target \in IF reconnect # None THEN {reconnect}
                      ELSE IF save THEN Ids \ minted ELSE {None} :
        /\ MaybeConnect(c, p, target)
        /\ minted' = IF save /\ reconnect = None THEN minted \cup {target} ELSE minted
        /\ Meets(target)
  BY DEF Connect
<1>3. /\ reconnect \in Ids \cup {None} /\ form \in Row /\ dialog \in DialogType
      /\ minted \subseteq Ids
  BY DEF IInv, FormInv, RecordInv, HostsInv
<1>4. target \in Ids \cup {None}
  BY <1>2, <1>3
<1>5. form'.host = h /\ form'.kind = form.kind
  BY <1>1, <1>3 DEF Row
<1>6. p.id = reconnect /\ p.save = save /\ p.secret = secret /\ p.kind # "local" /\ p.host = h
  BY <1>1, <1>5 DEF ParamsOf
<1>7. CallOK(p, target)
  <2>1. reconnect # None => target = reconnect
    BY <1>2
  <2>2. save => target # None
    BY <1>2
  <2> HIDE DEF p
  <2> QED
    BY <1>1, <1>6, <2>1, <2>2 DEF CallOK
<1>8. Grows
  BY <1>1, <1>2, <1>3 DEF Grows
<1>9. disturbed \subseteq disturbed'
  BY <1>2 DEF Meets
<1>10. dialog'.step = "form"
  BY <1>1, <1>2, CallStarts DEF IInv
<1>11. \E f \in [Ids -> Remote] :
         Hosted(f) /\ (save /\ reconnect = None => f[target] = h)
  <2>1. PICK g \in [Ids -> Remote] : Hosted(g)
    BY DEF RecordInv, HostsInv
  <2>2. CASE save /\ reconnect = None
    BY <1>2, <1>3, <2>1, <2>2, FreshId DEF Remote
  <2> QED
    BY <2>1, <2>2
<1>12. PICK f \in [Ids -> Remote] : Hosted(f) /\ (save /\ reconnect = None => f[target] = h)
  BY <1>11
<1>13. ASSUME reconnect # None PROVE Fits(reconnect, h, f)'
  <2>1. Fits(reconnect, form.host, f)
    BY <1>1, <1>12, <1>13 DEF Hosted, FormFits
  <2>2. h # form.host => reconnect \in edited'
    BY <1>1, <1>13
  <2>3. reconnect' = reconnect
    BY <1>1
  <2> QED
    BY <1>8, <2>1, <2>2, <2>3 DEF Fits, Grows
<1>14. FormFits(f)'
  <2>1. reconnect' = reconnect /\ form'.host = h
    BY <1>1, <1>5
  <2> QED
    BY <1>13, <2>1 DEF FormFits, Fits
<1>15. save => Fits(target, h, f)'
  <2>1. CASE reconnect # None
    BY <1>1, <1>2, <1>13, <2>1 DEF Fits
  <2>2. CASE reconnect = None
    BY <1>2, <1>12, <2>2 DEF Fits
  <2> QED
    BY <2>1, <2>2
<1>16. PICK q : q = p
  OBVIOUS
<1> HIDE DEF p
<1>17. MaybeConnect(c, q, target) /\ CallOK(q, target) /\ (q.save => Fits(target, q.host, f)')
  BY <1>2, <1>6, <1>7, <1>15, <1>16
<1> QED
  BY <1>1, <1>2, <1>4, <1>8, <1>9, <1>12, <1>14, <1>17, StartRecords
LEMMA StartsRecords ==
  ASSUME IInv, RecordInv, NEW c \in Conns,
         \/ SelectLocal(c) \/ AcceptHostKey(c)
         \/ \E i \in Ids : ConnectLocalSaved(i, c) \/ Reconnect(i, c)
         \/ \E h \in Hosts, secret, save \in BOOLEAN : Connect(c, h, secret, save)
  PROVE  RecordInv'
<1> USE NoneIsNothingElse
<1>1. PICK f \in [Ids -> Remote] : Hosted(f)
  BY DEF RecordInv, HostsInv
<1>2. ASSUME NEW p, NEW trust, NEW target \in Ids \cup {None},
             Connecting(c, p, trust, target) \/ MaybeConnect(c, p, target),
             job[c].pc = "new", CallOK(p, target),
             UNCHANGED <<saved, secretOf, removing, confirm, recents, reconnect,
                         minted, edited, carried>>,
             disturbed \subseteq disturbed', target # None => Meets(target),
             UNCHANGED form \/ dialog.step = "type",
             p.save => Fits(target, p.host, f)
      PROVE  RecordInv'
  <2>1. Grows
    BY <1>2 DEF Grows, RecordInv, HostsInv
  <2>2. dialog'.step = dialog.step
    BY <1>2, CallStarts DEF IInv
  <2>3. FormFits(f)'
    BY <1>1, <1>2, <2>1, <2>2, FormFitsKept DEF Hosted
  <2>4. p.save => Fits(target, p.host, f)'
    BY <1>2 DEF Fits
  <2> QED
    BY <1>1, <1>2, <2>1, <2>3, <2>4, StartRecords
<1>3. CASE SelectLocal(c)
  <2> DEFINE q == ParamsOf(Local, FALSE, FALSE, None)
  <2>1. PICK p : p = q
    OBVIOUS
  <2>2. p.id = None /\ p.save = FALSE
    BY <2>1 DEF ParamsOf
  <2>3. /\ Connecting(c, p, FALSE, None) /\ job[c].pc = "new"
        /\ UNCHANGED <<saved, secretOf, removing, confirm, recents, reconnect, form,
                       minted, edited, carried, disturbed>>
    BY <1>3, <2>1 DEF SelectLocal, dataVars, history
  <2>4. CallOK(p, None)
    BY <2>2 DEF CallOK
  <2> QED
    BY <1>2, <2>2, <2>3, <2>4
<1>4. ASSUME NEW i \in Ids, ConnectLocalSaved(i, c) PROVE RecordInv'
  <2> DEFINE q == ParamsOf(Local, FALSE, FALSE, i)
  <2>1. PICK p : p = q
    OBVIOUS
  <2>2. p.id = i /\ p.save = FALSE
    BY <2>1 DEF ParamsOf
  <2>3. /\ Connecting(c, p, FALSE, i) /\ job[c].pc = "new" /\ Meets(i)
        /\ UNCHANGED <<saved, secretOf, removing, confirm, recents, reconnect, form,
                       minted, edited, carried>>
    BY <1>4, <2>1 DEF ConnectLocalSaved, dataVars
  <2>4. CallOK(p, i) /\ disturbed \subseteq disturbed'
    BY <2>2, <2>3 DEF CallOK, Meets
  <2> QED
    BY <1>2, <2>2, <2>3, <2>4
<1>5. ASSUME NEW i \in Ids, Reconnect(i, c) PROVE RecordInv'
  <2> DEFINE q == ParamsOf(recents[i].row, FALSE, FALSE, i)
  <2>1. PICK p : p = q
    OBVIOUS
  <2>2. p.id = i /\ p.save = FALSE
    BY <2>1 DEF ParamsOf
  <2>3. /\ MaybeConnect(c, p, i) /\ job[c].pc = "new" /\ Meets(i) /\ dialog.step = "type"
        /\ UNCHANGED <<saved, secretOf, removing, confirm, recents, reconnect,
                       minted, edited, carried>>
    BY <1>5, <2>1 DEF Reconnect, RowReady, dataVars
  <2>4. CallOK(p, i) /\ disturbed \subseteq disturbed'
    BY <2>2, <2>3 DEF CallOK, Meets
  <2> QED
    BY <1>2, <2>2, <2>3, <2>4
<1>6. CASE AcceptHostKey(c)
  <2>1. /\ confirm # None /\ confirm.target \in Ids \cup {None} /\ CallOK(confirm.p, confirm.target)
        /\ confirm.p.save => Fits(confirm.target, confirm.p.host, f)
    BY <1>1, <1>6 DEF AcceptHostKey, AtConfirm, IInv, FormInv, RecordInv, CallsInv, Hosted, ConfirmFits
  <2>2. /\ Connecting(c, confirm.p, TRUE, confirm.target) /\ job[c].pc = "new" /\ Meets(confirm.target)
        /\ UNCHANGED <<saved, secretOf, removing, confirm, recents, reconnect, form,
                       minted, edited, carried>>
    BY <1>6 DEF AcceptHostKey, dataVars
  <2>3. disturbed \subseteq disturbed'
    BY <2>2 DEF Meets
  <2> QED
    BY <1>2, <2>1, <2>2, <2>3
<1> QED
  BY <1>3, <1>4, <1>5, <1>6, ConnectRecords

\* CheckHostKeyTrust answers: the call goes on, or is kept for the user to confirm.
LEMMA CheckRecords == ASSUME IInv, RecordInv, NEW c \in Conns, CheckAnswer(c) PROVE RecordInv'
<1> USE NoneIsNothingElse
<1>1. PICK p, target, trust : p = job[c].p /\ target = job[c].target /\ trust = FALSE
  OBVIOUS
<1>2. /\ job[c].pc = "check" /\ JobInv /\ CallOK(p, target)
      /\ UNCHANGED <<form, reconnect, recents, saved, secretOf, removing, minted,
                     disturbed, edited, carried>>
  BY <1>1 DEF CheckAnswer, IInv, RecordInv, CallsInv, JobOK, dataVars, history
<1>3. PICK f \in [Ids -> Remote] : Hosted(f)
  BY DEF RecordInv, HostsInv
<1>4. p.save => Fits(target, p.host, f)
  BY <1>1, <1>2, <1>3 DEF Hosted, JobsFit, JobFits
<1>5. \/ Connecting(c, p, trust, target) /\ UNCHANGED confirm
      \/ /\ job' = [job EXCEPT ![c] = NoJob]
         /\ \/ /\ \E changed : confirm' = [p |-> p, target |-> target, changed |-> changed]
               /\ dialog' = [dialog EXCEPT !.step = "hostKeyConfirm"]
            \/ UNCHANGED <<confirm, dialog>>
  BY <1>1 DEF CheckAnswer
<1>6. PICK j : /\ Becomes(c, j)
               /\ \/ j.pc = "new"
                  \/ j.pc \in {"open", "check"} /\ j.p = p /\ j.target = target
  <2>1. CASE Connecting(c, p, trust, target)
    <3>1. FormInv
      BY DEF IInv
    <3>2. \E j : Becomes(c, j) /\ j.p = p /\ j.target = target /\ j.pc \in {"open", "check"}
      BY <2>1, <3>1, CallStarts
    <3> QED
      BY <3>2
  <2>2. CASE job' = [job EXCEPT ![c] = NoJob]
    BY <2>2, NoJobIsJob DEF Becomes
  <2> QED
    BY <1>5, <2>1, <2>2
<1>7. \/ UNCHANGED confirm /\ dialog'.step = dialog.step
      \/ confirm'.p = p /\ confirm'.target = target /\ dialog'.step = "hostKeyConfirm"
  <2>1. CASE Connecting(c, p, trust, target) /\ UNCHANGED confirm
    BY <2>1, CallStarts DEF IInv
  <2>2. CASE UNCHANGED <<confirm, dialog>>
    BY <2>2
  <2>3. CASE /\ \E changed : confirm' = [p |-> p, target |-> target, changed |-> changed]
             /\ dialog' = [dialog EXCEPT !.step = "hostKeyConfirm"]
    BY <2>3 DEF IInv, FormInv, DialogType
  <2> QED
    BY <1>5, <2>1, <2>2, <2>3
<1>8. CallsInv'
  <2>1. JobOK(j)
    BY <1>2, <1>6 DEF JobOK
  <2>2. confirm' # None => CallOK(confirm'.p, confirm'.target)
    BY <1>2, <1>7 DEF RecordInv, CallsInv
  <2> QED
    BY <1>2, <1>6, <2>1, <2>2, CallsSet DEF RecordInv
<1>9. HostsInv'
  <2>1. Grows
    BY <1>2 DEF Grows, RecordInv, HostsInv
  <2>2. SavedFits(f)' /\ RecentsFit(f)' /\ FormFits(f)'
    BY <1>2, <1>3, <1>7, <2>1, SavedFitsKept, RecentsFitKept, FormFitsKept DEF Hosted
  <2>3. p.save => Fits(target, p.host, f)'
    BY <1>2, <1>4 DEF Fits
  <2>4. JobsFit(f)'
    <3>1. j.pc \notin {"new", "over"} /\ j.p.save => Fits(j.target, j.p.host, f)'
      BY <1>6, <2>3
    <3> QED
      BY <1>2, <1>3, <1>6, <2>1, <3>1, JobsFitSet DEF Hosted
  <2>5. ConfirmFits(f)'
    <3>1. CASE UNCHANGED confirm
      BY <1>3, <2>1, <3>1, ConfirmFitsKept DEF Hosted
    <3>2. CASE confirm'.p = p /\ confirm'.target = target
      BY <2>3, <3>2 DEF ConfirmFits, Fits
    <3> QED
      BY <1>7, <3>1, <3>2
  <2> QED
    BY <2>1, <2>2, <2>4, <2>5 DEF HostsInv, Hosted, Grows
<1>10. SecretsInv'
  <2>1. ASSUME NEW i \in Ids \ disturbed'
        PROVE  /\ IsOn(j, i) => On(c, i)
               /\ On(c, i) => job[c].pc # "secret"
               /\ IsOn(j, i) => Stored(j, i)
    BY <1>1, <1>2, <1>6 DEF IsOn, On, Stored
  <2> QED
    BY <1>2, <1>6, <2>1, SecretsMoved DEF RecordInv
<1> QED
  BY <1>8, <1>9, <1>10 DEF RecordInv
LEMMA DialRecords == ASSUME IInv, RecordInv, NEW c \in Conns, Dial(c) PROVE RecordInv'
<1> USE NoneIsNothingElse
<1>1. PICK p, target, used : /\ p = job[c].p /\ target = job[c].target
                             /\ used = IF NeedsStored(p) THEN secretOf[p.id] ELSE None
  OBVIOUS
<1>2. /\ job[c].pc = "open" /\ JobInv /\ CallOK(p, target)
      /\ job' = [job EXCEPT ![c].pc = "dial", ![c].used = used]
      /\ UNCHANGED <<dialog, form, reconnect, confirm, recents, saved, secretOf, removing,
                     minted, disturbed, edited, carried>>
  BY <1>1 DEF Dial, IInv, RecordInv, CallsInv, JobOK, uiVars, dataVars, history
<1>3. PICK j : Becomes(c, j) /\ j.pc = "dial" /\ j.p = p /\ j.target = target /\ j.used = used
  <2> DEFINE k == [job[c] EXCEPT !.pc = "dial", !.used = used]
  <2>1. Becomes(c, k)
    BY <1>2 DEF Becomes, JobInv
  <2>2. k.pc = "dial" /\ k.p = p /\ k.target = target /\ k.used = used
    BY <1>1, <1>2 DEF JobInv, Jobs
  <2> HIDE DEF k
  <2> QED
    BY <2>1, <2>2
<1>4. CallsInv'
  <2>1. JobOK(j) /\ (confirm' # None => CallOK(confirm'.p, confirm'.target))
    BY <1>2, <1>3 DEF JobOK, RecordInv, CallsInv
  <2> QED
    BY <1>2, <1>3, <2>1, CallsSet DEF RecordInv
<1>5. HostsInv'
  <2>1. PICK f \in [Ids -> Remote] : Hosted(f)
    BY DEF RecordInv, HostsInv
  <2>2. Grows
    BY <1>2 DEF Grows, RecordInv, HostsInv
  <2>3. SavedFits(f)' /\ RecentsFit(f)' /\ FormFits(f)' /\ ConfirmFits(f)'
    BY <1>2, <2>1, <2>2, SavedFitsKept, RecentsFitKept, FormFitsKept, ConfirmFitsKept DEF Hosted
  <2>4. p.save => Fits(target, p.host, f)'
    BY <1>1, <1>2, <2>1 DEF Hosted, JobsFit, JobFits, Fits
  <2>5. JobsFit(f)'
    BY <1>2, <1>3, <2>1, <2>2, <2>4, JobsFitSet DEF Hosted
  <2> QED
    BY <2>2, <2>3, <2>5 DEF HostsInv, Hosted, Grows
<1>6. SecretsInv'
  <2>1. ASSUME NEW i \in Ids \ disturbed'
        PROVE  /\ IsOn(j, i) => On(c, i)
               /\ On(c, i) => job[c].pc # "secret"
               /\ IsOn(j, i) => Stored(j, i)
    <3>1. IsOn(j, i) => On(c, i) /\ i = target
      BY <1>1, <1>2, <1>3 DEF IsOn, On
    <3>2. NeedsStored(p) => target = p.id /\ used = secretOf[p.id]
      BY <1>1, <1>2 DEF NeedsStored, CallOK
    <3> QED
      BY <1>2, <1>3, <3>1, <3>2 DEF Stored
  <2> QED
    BY <1>2, <1>3, <2>1, SecretsMoved DEF RecordInv
<1> QED
  BY <1>4, <1>5, <1>6 DEF RecordInv

\* A call moves on to its next step or is over, and the dialog closes or stays as it was.
LEMMA EndingCalls ==
  ASSUME IInv, RecordInv, NEW c \in Conns, job[c].pc \notin {"new", "over"},
         NEW j, Becomes(c, j), JobOK(j),
         j.pc = "over" \/ (j.p = job[c].p /\ j.target = job[c].target),
         Shut \/ (UNCHANGED <<form, reconnect, confirm, recents>> /\ dialog'.step = dialog.step),
         UNCHANGED <<minted, edited, carried>>,
         \A i \in Ids : saved'[i] # None => \/ saved[i] # None /\ saved'[i].host = saved[i].host
                                            \/ job[c].p.save /\ i = job[c].target
                                               /\ saved'[i].host = job[c].p.host
  PROVE  CallsInv' /\ HostsInv'
<1> USE NoneIsNothingElse
<1>1. JobInv /\ (UNCHANGED confirm \/ confirm' = None)
  BY DEF IInv, Shut, Reset
<1>2. CallsInv'
  <2>1. confirm' # None => CallOK(confirm'.p, confirm'.target)
    BY <1>1 DEF RecordInv, CallsInv
  <2> QED
    BY <1>1, <2>1, CallsSet DEF RecordInv
<1>3. PICK f \in [Ids -> Remote] : Hosted(f)
  BY DEF RecordInv, HostsInv
<1>4. Grows
  BY DEF Grows, RecordInv, HostsInv
<1>5. job[c].p.save => Fits(job[c].target, job[c].p.host, f)
  BY <1>3 DEF Hosted, JobsFit, JobFits
<1>6. RecentsFit(f)' /\ FormFits(f)' /\ ConfirmFits(f)'
  <2>1. Refresh \/ UNCHANGED recents \/ recents' = NoRows
    BY DEF Shut
  <2>2. reconnect' = None \/ (UNCHANGED <<reconnect, form>> /\ dialog'.step = dialog.step)
    BY DEF Shut, Reset
  <2> QED
    BY <1>1, <1>3, <1>4, <2>1, <2>2, RecentsFitKept, FormFitsKept, ConfirmFitsKept DEF Hosted
<1>7. SavedFits(f)'
  <2>1. ASSUME NEW i \in Ids, NEW host, saved'[i] # None, saved'[i].host = host
        PROVE  Fits(i, host, f)
    <3>1. CASE saved[i] # None /\ saved[i].host = host
      BY <1>3, <3>1 DEF Hosted, SavedFits
    <3>2. CASE job[c].p.save /\ i = job[c].target /\ host = job[c].p.host
      BY <1>5, <3>2
    <3> QED
      BY <2>1, <3>1, <3>2
  <2> QED
    BY <2>1 DEF SavedFits, Fits
<1>8. JobsFit(f)'
  <2>1. j.pc \notin {"new", "over"} /\ j.p.save => Fits(j.target, j.p.host, f)
    BY <1>5
  <2>2. j.pc \notin {"new", "over"} /\ j.p.save => Fits(j.target, j.p.host, f)'
    BY <2>1 DEF Fits
  <2> QED
    BY <1>1, <1>3, <1>4, <2>2, JobsFitSet DEF Hosted
<1> QED
  BY <1>2, <1>4, <1>6, <1>7, <1>8 DEF HostsInv, Hosted, Grows
\* What Fail and Finish leave of the dialog, and of the call.
LEMMA EndsFacts ==
  ASSUME FormInv, NEW c \in Conns, Fail(c) \/ \E warned \in BOOLEAN : Finish(c, warned)
  PROVE  /\ \E j : Becomes(c, j) /\ j.pc = "over"
         /\ Shut \/ (UNCHANGED <<form, reconnect, confirm, recents>> /\ dialog'.step = dialog.step)
<1>1. Over(c)
  BY DEF Fail, Finish
<1>2. \/ Shut
      \/ /\ UNCHANGED <<form, reconnect, confirm, recents>>
         /\ \/ dialog' = [dialog EXCEPT !.status = "error"]
            \/ dialog' = dialog
            \/ \E w \in BOOLEAN : dialog' = [dialog EXCEPT !.warning = @ \/ w]
  BY DEF Fail, Finish
<1>3. Shut \/ (UNCHANGED <<form, reconnect, confirm, recents>> /\ dialog'.step = dialog.step)
  BY <1>2 DEF FormInv, DialogType
<1> QED
  BY <1>1, <1>3, CallEnds

\* The connection fails, succeeds, or its record is touched.
LEMMA OpenedRecords ==
  ASSUME IInv, RecordInv, NEW c \in Conns, OpenFails(c) \/ Opened(c) \/ Touch(c)
  PROVE  RecordInv'
<1>1. /\ job[c].pc \in {"open", "dial", "touch"} /\ JobInv /\ FormInv /\ JobOK(job[c])
      /\ UNCHANGED <<saved, secretOf, removing, minted, disturbed, edited, carried>>
  BY DEF OpenFails, Fail, Opened, Touch, IInv, RecordInv, CallsInv, dataVars, history
<1>2. \/ Fail(c) \/ \E warned \in BOOLEAN : Finish(c, warned)
      \/ /\ Opened(c) /\ Goto(c, NextCall(job[c].p)) /\ UNCHANGED uiVars
         /\ NextCall(job[c].p) # "over"
  BY DEF OpenFails, Opened, Touch
<1>3. ASSUME NEW j, Becomes(c, j), JobOK(j),
             j.pc = "over" \/ (j.p = job[c].p /\ j.target = job[c].target),
             Shut \/ (UNCHANGED <<form, reconnect, confirm, recents>> /\ dialog'.step = dialog.step),
             \A i \in Ids : IsOn(j, i) /\ On(c, i) /\ i \notin disturbed => Stored(j, i)
      PROVE  RecordInv'
  <2>1. CallsInv' /\ HostsInv'
    BY <1>1, <1>3, EndingCalls
  <2>2. \A i \in Ids : IsOn(j, i) => On(c, i)
    BY <1>1, <1>3 DEF IsOn, On
  <2>3. \A i \in Ids : On(c, i) => job[c].pc # "secret"
    BY <1>1
  <2>4. SecretsInv'
    BY <1>1, <1>3, <2>2, <2>3, SecretsMoved DEF RecordInv
  <2> QED
    BY <2>1, <2>4 DEF RecordInv
<1>4. CASE Fail(c) \/ \E warned \in BOOLEAN : Finish(c, warned)
  <2>1. PICK j : Becomes(c, j) /\ j.pc = "over"
    BY <1>1, <1>4, EndsFacts
  <2>2. JobOK(j) /\ \A i \in Ids : ~IsOn(j, i)
    BY <2>1 DEF JobOK, IsOn
  <2>3. Shut \/ (UNCHANGED <<form, reconnect, confirm, recents>> /\ dialog'.step = dialog.step)
    BY <1>1, <1>4, EndsFacts
  <2> QED
    BY <1>3, <2>1, <2>2, <2>3
<1>5. CASE /\ Opened(c) /\ Goto(c, NextCall(job[c].p)) /\ UNCHANGED uiVars
           /\ NextCall(job[c].p) # "over"
  <2>1. PICK p, pc : p = job[c].p /\ pc = NextCall(p)
    OBVIOUS
  <2>2. pc \in {"save", "touch"} /\ (pc = "save" => p.save) /\ Goto(c, pc)
    BY <1>5, <2>1 DEF NextCall
  <2>3. PICK j : Becomes(c, j) /\ j.pc = pc /\ j.p = p /\ j.target = job[c].target
    BY <1>1, <2>1, <2>2, CallGoesOn
  <2>4. JobOK(j)
    BY <1>1, <2>1, <2>2, <2>3 DEF JobOK
  <2>5. ASSUME NEW i \in Ids, On(c, i), i \notin disturbed PROVE Stored(j, i)
    <3>1. job[c].pc = "dial" /\ (NeedsStored(p) => job[c].used = p.host)
      BY <1>5, <2>1 DEF Opened
    <3>2. Stored(job[c], i)
      BY <2>5 DEF RecordInv, SecretsInv, SecretInv
    <3>3. NeedsStored(p) => secretOf[i] = p.host
      BY <2>1, <3>1, <3>2 DEF Stored
    <3> QED
      BY <2>2, <2>3, <3>3 DEF Stored
  <2>6. UNCHANGED <<form, reconnect, confirm, recents>> /\ dialog'.step = dialog.step
    BY <1>5 DEF uiVars
  <2> QED
    BY <1>3, <2>1, <2>3, <2>4, <2>5, <2>6
<1> QED
  BY <1>2, <1>4, <1>5

\* The writes of a save: the row, then the password.
LEMMA SaveRecords ==
  ASSUME IInv, RecordInv, NEW c \in Conns, SaveEntry(c) \/ SaveSecret(c) \/ SaveFails(c)
  PROVE  RecordInv'
<1> USE NoneIsNothingElse
<1>1. PICK p, target : p = job[c].p /\ target = job[c].target
  OBVIOUS
<1>2. /\ job[c].pc \in {"save", "secret", "touch"} /\ JobInv /\ FormInv /\ JobOK(job[c])
      /\ p \in Calls /\ CallOK(p, target) /\ target \in Ids \cup {None}
      /\ job[c].pc \in {"save", "secret"} => p.save /\ target \in Ids
      /\ UNCHANGED <<removing, minted, edited, carried>> /\ disturbed \subseteq disturbed'
  <2>1. job[c].pc \in {"save", "secret", "touch"} /\ UNCHANGED <<removing, minted, edited, carried>>
        /\ disturbed \subseteq disturbed'
    BY DEF SaveEntry, SaveSecret, SaveFails, dataVars, history
  <2>2. JobInv /\ FormInv /\ JobOK(job[c])
    BY DEF IInv, RecordInv, CallsInv
  <2>3. p \in Calls /\ target \in Ids \cup {None} /\ CallOK(p, target)
    BY <1>1, <2>1, <2>2 DEF JobInv, Jobs, JobOK
  <2>4. job[c].pc \in {"save", "secret"} => p.save
    BY <1>1, <2>2 DEF JobOK
  <2> QED
    BY <2>1, <2>2, <2>3, <2>4 DEF CallOK
<1>3. /\ saved \in [Ids -> Rows \cup {None}] /\ secretOf \in [Ids -> Remote]
      /\ \A i \in Ids \ disturbed : SecretInv(i)
      /\ removing \in [Ids -> {"no", "entry", "secrets"}]
  BY DEF IInv, StoreInv, RecordInv, SecretsInv
<1>4. \A i \in Ids : On(c, i) <=> i = target
  BY <1>1, <1>2 DEF On, IsOn
<1>5. ASSUME NEW j, Becomes(c, j), JobOK(j),
             j.pc = "over" \/ (j.p = p /\ j.target = target),
             Shut \/ (UNCHANGED <<form, reconnect, confirm, recents>> /\ dialog'.step = dialog.step),
             \A i \in Ids : saved'[i] # None => \/ saved[i] # None /\ saved'[i].host = saved[i].host
                                                \/ p.save /\ i = target /\ saved'[i].host = p.host,
             \A i \in Ids \ {target} : saved'[i] = saved[i] /\ secretOf'[i] = secretOf[i],
             target \in Ids \ disturbed' =>
               /\ ~(IsOn(j, target) /\ j.pc = "secret") => Coherent(target)'
               /\ IsOn(j, target) => Stored(j, target)'
      PROVE  RecordInv'
  <2>1. CallsInv' /\ HostsInv'
    BY <1>1, <1>2, <1>5, EndingCalls
  <2>2. ASSUME NEW i \in Ids \ disturbed' PROVE SecretInv(i)'
    <3>1. SecretInv(i) /\ removing'[i] = removing[i]
      BY <1>2, <1>3
    <3>2. IsOn(j, i) => i = target
      BY <1>5 DEF IsOn
    <3>3. CASE i = target
      BY <1>2, <1>4, <1>5, <2>2, <3>1, <3>3, SecretSet
    <3>4. CASE i # target
      BY <1>2, <1>4, <1>5, <3>1, <3>2, <3>4, SecretSet
    <3> QED
      BY <3>3, <3>4
  <2>3. SecretsInv'
    BY <1>2, <1>3, <2>2 DEF SecretsInv
  <2> QED
    BY <2>1, <2>3 DEF RecordInv
<1>6. ASSUME Fail(c) \/ \E warned \in BOOLEAN : Finish(c, warned)
      PROVE  \E j : /\ Becomes(c, j) /\ j.pc = "over" /\ JobOK(j) /\ \A i \in Ids : ~IsOn(j, i)
                    /\ \/ Shut
                       \/ /\ UNCHANGED <<form, reconnect, confirm, recents>>
                          /\ dialog'.step = dialog.step
  BY <1>2, <1>6, EndsFacts DEF JobOK, IsOn
<1>7. CASE SaveFails(c)
  <2>1. UNCHANGED <<saved, secretOf>> /\ (job[c].pc = "secret" => target \in disturbed')
    BY <1>1, <1>7 DEF SaveFails, dataVars
  <2>2. PICK j : /\ Becomes(c, j) /\ j.pc = "over" /\ JobOK(j) /\ \A i \in Ids : ~IsOn(j, i)
                 /\ \/ Shut
                    \/ UNCHANGED <<form, reconnect, confirm, recents>> /\ dialog'.step = dialog.step
    BY <1>6, <1>7 DEF SaveFails
  <2>3. target \in Ids \ disturbed' => Coherent(target)
    BY <1>2, <1>3, <1>4, <2>1, OnCoherent
  <2>4. target \in Ids \ disturbed' => Coherent(target)'
    BY <2>1, <2>3 DEF Coherent
  <2> QED
    BY <1>5, <2>1, <2>2, <2>4
<1>8. CASE SaveEntry(c)
  <2>1. PICK row : row = [kind |-> p.kind, host |-> p.host]
    OBVIOUS
  <2>2. job[c].pc = "save" /\ p.save /\ target \in Ids /\ saved' = [saved EXCEPT ![target] = row]
        /\ UNCHANGED secretOf
    BY <1>1, <1>2, <1>8, <2>1 DEF SaveEntry
  <2>3. row \in Row /\ row # None /\ row.host = p.host
    <3>1. row \in Row /\ row.host = p.host
      BY <1>2, <2>1 DEF Calls, Params, Row
    <3> QED
      BY <3>1, DialogAssumption
  <2>4. saved'[target] = row /\ \A i \in Ids \ {target} : saved'[i] = saved[i]
    BY <1>3, <2>2
  <2>5. \A i \in Ids : saved'[i] # None => \/ saved[i] # None /\ saved'[i].host = saved[i].host
                                           \/ p.save /\ i = target /\ saved'[i].host = p.host
    BY <2>2, <2>3, <2>4
  <2>6. CASE p.secret /\ Goto(c, "secret") /\ UNCHANGED uiVars
    <3>1. PICK j : Becomes(c, j) /\ j.pc = "secret" /\ j.p = p /\ j.target = target
      BY <1>1, <1>2, <2>6, CallGoesOn
    <3>2. JobOK(j)
      BY <1>2, <2>2, <2>6, <3>1 DEF JobOK
    <3>3. Stored(j, target)' /\ IsOn(j, target)
      BY <2>2, <2>3, <2>4, <3>1 DEF Stored, IsOn
    <3>4. UNCHANGED <<form, reconnect, confirm, recents>> /\ dialog'.step = dialog.step
      BY <2>6 DEF uiVars
    <3> QED
      BY <1>5, <2>2, <2>4, <2>5, <3>1, <3>2, <3>3, <3>4
  <2>7. CASE ~p.secret /\ Finish(c, FALSE)
    <3>1. PICK j : /\ Becomes(c, j) /\ j.pc = "over" /\ JobOK(j) /\ \A i \in Ids : ~IsOn(j, i)
                   /\ \/ Shut
                      \/ UNCHANGED <<form, reconnect, confirm, recents>> /\ dialog'.step = dialog.step
      BY <1>6, <2>7
    <3>2. NeedsStored(p)
      BY <1>2, <2>2, <2>7 DEF NeedsStored, CallOK
    <3>3. target \notin disturbed' => secretOf[target] = p.host
      <4>1. target \notin disturbed' => Stored(job[c], target)
        BY <1>2, <1>3, <1>4, <2>2 DEF SecretInv
      <4> QED
        BY <1>1, <2>2, <3>2, <4>1 DEF Stored
    <3>4. target \notin disturbed' => Coherent(target)'
      BY <2>2, <2>3, <2>4, <3>3 DEF Coherent
    <3> QED
      BY <1>5, <2>2, <2>4, <2>5, <3>1, <3>4
  <2> QED
    BY <1>1, <1>8, <2>6, <2>7 DEF SaveEntry
<1>9. CASE SaveSecret(c)
  <2>1. job[c].pc = "secret" /\ target \in Ids /\ UNCHANGED saved
        /\ secretOf' = [secretOf EXCEPT ![target] = p.host]
    BY <1>1, <1>2, <1>9 DEF SaveSecret
  <2>2. PICK j : /\ Becomes(c, j) /\ j.pc = "over" /\ JobOK(j) /\ \A i \in Ids : ~IsOn(j, i)
                 /\ \/ Shut
                    \/ UNCHANGED <<form, reconnect, confirm, recents>> /\ dialog'.step = dialog.step
    BY <1>6, <1>9 DEF SaveSecret
  <2>3. secretOf'[target] = p.host /\ \A i \in Ids \ {target} : secretOf'[i] = secretOf[i]
    BY <1>3, <2>1
  <2>4. target \notin disturbed' => saved[target] # None /\ saved[target].host = p.host
    <3>1. target \notin disturbed' => Stored(job[c], target)
      BY <1>2, <1>3, <1>4, <2>1 DEF SecretInv
    <3> QED
      BY <1>1, <2>1, <3>1 DEF Stored
  <2>5. target \notin disturbed' => Coherent(target)'
    BY <2>1, <2>3, <2>4 DEF Coherent
  <2> QED
    BY <1>5, <2>1, <2>2, <2>3, <2>5
<1> QED
  BY <1>7, <1>8, <1>9
LEMMA ForgetRecords ==
  ASSUME IInv, RecordInv, NEW i \in Ids, Forget(i) \/ ForgetEntry(i) \/ ForgetFails(i) \/ ForgetSecrets(i)
  PROVE  RecordInv'
<1> USE NoneIsNothingElse
<1>1. /\ UNCHANGED <<job, form, reconnect, confirm, minted, edited, carried>>
      /\ disturbed \subseteq disturbed'
  BY DEF Forget, ForgetEntry, ForgetFails, ForgetSecrets, Meets, uiVars, history
<1>2. CallsInv'
  BY <1>1 DEF RecordInv, CallsInv, JobOK, CallOK
<1>3. /\ removing \in [Ids -> {"no", "entry", "secrets"}]
      /\ saved \in [Ids -> Rows \cup {None}] /\ secretOf \in [Ids -> Remote]
  BY DEF IInv, StoreInv, RecordInv, SecretsInv
<1>4. HostsInv'
  <2>1. PICK f \in [Ids -> Remote] : Hosted(f)
    BY DEF RecordInv, HostsInv
  <2>2. Grows
    BY <1>1 DEF Grows, RecordInv, HostsInv
  <2>3. \A k \in Ids : saved'[k] = None \/ saved'[k] = saved[k]
    BY <1>3 DEF Forget, ForgetEntry, ForgetFails, ForgetSecrets
  <2>4. SavedFits(f)'
    BY <2>1, <2>2, <2>3 DEF Hosted, SavedFits, Fits, Grows
  <2>5. Refresh \/ UNCHANGED recents
    BY DEF Forget, ForgetEntry, ForgetFails, ForgetSecrets, uiVars
  <2>6. dialog'.step = dialog.step
    BY DEF Forget, ForgetEntry, ForgetFails, ForgetSecrets, uiVars, IInv, FormInv, DialogType
  <2>7. RecentsFit(f)' /\ FormFits(f)' /\ ConfirmFits(f)' /\ JobsFit(f)'
    BY <1>1, <2>1, <2>2, <2>5, <2>6, RecentsFitKept, FormFitsKept, ConfirmFitsKept, JobsFitKept
    DEF Hosted
  <2> QED
    BY <2>2, <2>4, <2>7 DEF HostsInv, Hosted, Grows
<1>5. SecretsInv'
  <2>1. removing' \in [Ids -> {"no", "entry", "secrets"}]
    BY <1>3 DEF Forget, ForgetEntry, ForgetFails, ForgetSecrets
  <2>2. \A k \in Ids \ {i} : /\ removing'[k] = removing[k] /\ saved'[k] = saved[k]
                             /\ secretOf'[k] = secretOf[k]
    BY <1>3 DEF Forget, ForgetEntry, ForgetFails, ForgetSecrets
  <2>3. \A c \in Conns, k \in Ids : On(c, k)' <=> On(c, k)
    BY <1>1 DEF On, IsOn
  <2>4. ASSUME NEW k \in Ids \ disturbed', k # i PROVE SecretInv(k)'
    <3>1. SecretInv(k)
      BY <1>1 DEF RecordInv, SecretsInv
    <3>2. (Coherent(k)' <=> Coherent(k)) /\ \A c \in Conns : Stored(job[c], k)' <=> Stored(job[c], k)
      BY <1>1, <2>2, <2>4 DEF Coherent, Stored
    <3> QED
      BY <1>1, <2>2, <2>3, <2>4, <3>1, <3>2 DEF SecretInv
  <2>5. ASSUME i \notin disturbed' PROVE SecretInv(i)'
    <3>1. SecretInv(i)
      BY <1>1, <2>5 DEF RecordInv, SecretsInv
    <3>2. \A c \in Conns : ~On(c, i)
      <4>1. CASE Forget(i)
        BY <2>5, <4>1 DEF Forget, Meets, Busy, Live, On, IsOn
      <4>2. CASE ForgetEntry(i) \/ ForgetFails(i) \/ ForgetSecrets(i)
        <5>1. removing[i] # "no"
          BY <4>2 DEF ForgetEntry, ForgetFails, ForgetSecrets
        <5> QED
          BY <3>1, <5>1 DEF SecretInv
      <4> QED
        BY <4>1, <4>2
    <3>3. removing'[i] # "secrets" => Coherent(i)'
      <4>1. CASE Forget(i) \/ ForgetFails(i)
        <5>1. removing[i] # "secrets" /\ UNCHANGED <<saved, secretOf>>
          BY <4>1 DEF Forget, ForgetFails
        <5>2. Coherent(i)
          BY <3>1, <3>2, <5>1 DEF SecretInv
        <5> QED
          BY <5>1, <5>2 DEF Coherent
      <4>2. CASE ForgetEntry(i)
        BY <1>3, <4>2 DEF ForgetEntry
      <4>3. CASE ForgetSecrets(i)
        BY <1>3, <2>5, <4>3 DEF ForgetSecrets, Coherent
      <4> QED
        BY <4>1, <4>2, <4>3
    <3> QED
      BY <2>3, <3>2, <3>3 DEF SecretInv
  <2> QED
    BY <2>1, <2>4, <2>5 DEF SecretsInv
<1> QED
  BY <1>2, <1>4, <1>5 DEF RecordInv

\* Steps of the host keys alone, and no step at all.
LEMMA RecordsKept ==
  ASSUME RecordInv,
         UNCHANGED <<uiVars, job, saved, secretOf, removing, minted, disturbed, edited, carried>>
  PROVE  RecordInv'
<1>1. CallsInv'
  BY DEF RecordInv, CallsInv, JobOK, CallOK, uiVars
<1>2. SecretsInv'
  BY SecretsKept DEF RecordInv
<1>3. PICK f \in [Ids -> Remote] : Hosted(f)
  BY DEF RecordInv, HostsInv
<1>4. Grows /\ UNCHANGED <<dialog, form, reconnect, confirm, recents>>
  BY DEF Grows, RecordInv, HostsInv, uiVars
<1>5. Hosted(f)'
  BY <1>3, <1>4, SavedFitsKept, RecentsFitKept, FormFitsKept, ConfirmFitsKept, JobsFitKept DEF Hosted
<1> QED
  BY <1>1, <1>2, <1>3, <1>4, <1>5 DEF RecordInv, HostsInv, Grows

LEMMA RecordsNext == IInv /\ RecordInv /\ [Next]_dlgVars => RecordInv'
<1> SUFFICES ASSUME IInv, RecordInv, [Next]_dlgVars PROVE RecordInv'
  OBVIOUS
<1>1. CASE UNCHANGED dlgVars
  BY <1>1, RecordsKept DEF dlgVars, dataVars, history
<1>2. CASE User
  BY <1>2, FormsRecords, StartsRecords, ForgetRecords DEF User
<1>3. CASE Backend
  BY <1>3, FormsRecords, ForgetRecords DEF Backend
<1>4. ASSUME NEW c \in Conns, Attempt(c) PROVE RecordInv'
  <2>1. CASE Verifying(c)
    BY <2>1, RecordsKept DEF Verifying, dataVars, history
  <2> QED
    BY <1>4, <2>1, CheckRecords, DialRecords, OpenedRecords, SaveRecords DEF Attempt
<1>5. ASSUME NEW h \in Hosts, NEW key \in Keys, HostRekeyed(h, key) PROVE RecordInv'
  BY <1>5, RecordsKept DEF HostRekeyed, dataVars, history
<1> QED
  BY <1>1, <1>2, <1>3, <1>4, <1>5 DEF Next

LEMMA RecordsHold == Spec => []RecordInv
BY RecordsAtFirst, RecordsNext, InvHolds, PTL DEF Spec

-----------------------------------------------------------------------------
(* Of a record that no two operations met on and no write failed on, the password and the  *)
(* row are written apart, yet no call ever finds them of two hosts                         *)
(* (remote_service.go: SaveRemoteHost, ForgetRemoteHost).                                  *)
THEOREM SecretsFollowRecords == Spec => []SecretFollowsRecord
<1>1. IInv /\ RecordInv => SecretFollowsRecord
  <2> SUFFICES ASSUME IInv, RecordInv, NEW i \in Ids \ disturbed, ~Busy(i)
               PROVE  Coherent(i)
    BY DEF SecretFollowsRecord, Coherent
  <2>1. removing[i] = "no" /\ \A c \in Conns : ~On(c, i)
    BY NoneIsNothingElse DEF Busy, Live, On, IsOn
  <2> QED
    BY <2>1 DEF RecordInv, SecretsInv, SecretInv
<1> QED
  BY <1>1, InvHolds, RecordsHold, PTL

(* Whatever is opened, sent back, refused, forgotten and saved in whatever order, the      *)
(* dialog writes another host over a record only when the user typed one for that record   *)
(* or refused a key while its form was open (NewTerminalDialog.tsx: reconnectHost).        *)
THEOREM RecordsKeepTheirHost == Spec => RecordKeepsItsHost
<1>1. IInv /\ RecordInv /\ [Next]_dlgVars => [\A i \in Ids : Moved(i) => i \in edited \cup carried]_dlgVars
  <2> SUFFICES ASSUME IInv, RecordInv, Next, NEW i \in Ids, Moved(i)
               PROVE  i \in edited \cup carried
    OBVIOUS
  <2> USE NoneIsNothingElse
  <2>1. PICK c \in Conns : SaveEntry(c) /\ job[c].target = i
    <3>1. saved \in [Ids -> Rows \cup {None}]
      BY DEF IInv, StoreInv
    <3>2. saved' # saved /\ ~(\E k \in Ids : ForgetEntry(k))
      <4>1. saved'[i] # None /\ saved'[i].host # saved[i].host
        BY DEF Moved
      <4>2. ASSUME NEW k \in Ids, ForgetEntry(k) PROVE saved'[i] = None \/ saved'[i] = saved[i]
        BY <3>1, <4>2 DEF ForgetEntry
      <4> QED
        BY <4>1, <4>2
    <3>3. PICK c \in Conns : SaveEntry(c)
      <4>1. User => UNCHANGED saved
        BY DEF User, Close, Forget, Open, Back, SelectKind, FormForHost, RejectHostKey, SelectLocal,
               AcceptHostKey, ConnectLocalSaved, Reconnect, Connect, dataVars
      <4>2. Backend => UNCHANGED saved \/ \E k \in Ids : ForgetEntry(k)
        BY DEF Backend, SettingsAnswer, ForgetFails, ForgetSecrets, dataVars
      <4>3. \A h \in Hosts, key \in Keys : HostRekeyed(h, key) => UNCHANGED saved
        BY DEF HostRekeyed, dataVars
      <4>4. \A d \in Conns : Attempt(d) => UNCHANGED saved \/ SaveEntry(d)
        BY DEF Attempt, CheckAnswer, Dial, Verifying, OpenFails, Fail, Opened, SaveSecret,
               SaveFails, Touch, dataVars
      <4> QED
        BY <3>2, <4>1, <4>2, <4>3, <4>4 DEF Next
    <3>4. saved'[i] # saved[i]
      BY DEF Moved
    <3>5. job[c].target = i
      BY <3>1, <3>3, <3>4 DEF SaveEntry
    <3> QED
      BY <3>3, <3>5
  <2>2. PICK f \in [Ids -> Remote] : Hosted(f)
    BY DEF RecordInv, HostsInv
  <2>3. job[c].pc = "save" /\ job[c].p.save
    BY <2>1 DEF SaveEntry, RecordInv, CallsInv, JobOK
  <2>4. saved'[i].host = job[c].p.host
    BY <2>1 DEF SaveEntry, IInv, StoreInv
  <2>5. Fits(i, job[c].p.host, f) /\ Fits(i, saved[i].host, f)
    BY <2>1, <2>2, <2>3 DEF Hosted, JobsFit, JobFits, SavedFits, Moved
  <2> QED
    BY <2>4, <2>5 DEF Fits, Moved
<1> QED
  BY <1>1, InvHolds, RecordsHold, PTL DEF Spec, RecordKeepsItsHost
=============================================================================
