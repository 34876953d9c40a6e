--------------------------- MODULE MasterPassword ---------------------------
(***************************************************************************)
(* The file backend of the keychain: items encrypted under the user's      *)
(* master password, the password's hash on disk, the copy of the password  *)
(* in memory and the cached keyring that captured it.  Get, Set and Remove *)
(* come on any goroutine and run beside the one that sets, verifies or     *)
(* changes the password; the process may die between any two steps.        *)
(* Which backend is in use is the subject of StartupGate: here it is the   *)
(* file backend.  The keyring library is external, each call of it atomic. *)
(***************************************************************************)
EXTENDS Naturals, FiniteSets

CONSTANTS
  Keys, Vals,        \* names and contents of the stored credentials
  Passwords, NoPw,   \* master passwords, and the empty string
  Absent, NoVal,     \* no item, no value
  Callers, NoCall,   \* goroutines that may be in Get, Set or Remove
  Rings, NoRing,     \* opened keyrings, and nil
  MaxChanges,        \* bound: calls of ChangeMasterPassword
  MaxInterrupts      \* bound: crashes and failed writes

Ops      == {"get", "set", "remove"}
CallType == [op : Ops, key : Keys, val : Vals, ring : Rings, crossed : BOOLEAN]
ItemType == [pw : Passwords, val : Vals]

ASSUME MasterPasswordAssumption ==
  /\ NoPw \notin Passwords /\ NoRing \notin Rings /\ NoVal \notin Vals
  /\ NoCall \notin CallType /\ Absent \notin ItemType /\ Absent \notin Vals
  /\ IsFiniteSet(Callers) /\ IsFiniteSet(Rings)
  /\ Cardinality(Rings) > Cardinality(Callers)
  /\ MaxChanges \in Nat /\ MaxInterrupts \in Nat

VARIABLES
  hash,       \* on disk: the password the hash file is of
  item,       \* on disk: the items of the file backend
  masterPW,   \* Client.masterPW
  cached,     \* Client.cachedRing
  captured,   \* the password each opened keyring has captured
  call,       \* the Get, Set or Remove each goroutine is in
  owner,      \* the call that sets, verifies or changes the password
  changes, interrupts,
  attempted,  \* passwords items were rewritten under since the hash was (history)
  raced,      \* a Set or Remove ran beside a change (history)
  stored      \* what the last Set or Remove of each key left (history)

disk    == <<hash, item>>
memory  == <<masterPW, cached, captured>>
counts  == <<changes, interrupts>>
history == <<attempted, raced, stored>>
vars    == <<disk, memory, call, owner, counts, history>>

OwnerPC  == {"idle", "list", "next", "check", "write", "hash", "hold", "invalidate"}
Outcomes == {"none", "ok", "wrong", "failed", "unreadable"}
OwnerType == [op : {"none", "set", "verify", "change"},
              old : Passwords \cup {NoPw}, new : Passwords \cup {NoPw},
              pc : OwnerPC, out : Outcomes, todo : SUBSET Keys,
              key : Keys \cup {NoVal}, val : Vals \cup {NoVal}]

Changing == owner.pc # "idle" /\ owner.op = "change"

-----------------------------------------------------------------------------
(* Client.Get, Set and Remove: ring() under the mutex, then one call of the *)
(* library on the keyring it returned.                                      *)

\* A keyring not held by the cache or by a call.
Unused(r) == r # cached /\ \A c \in Callers : call[c] # NoCall => call[c].ring # r

\* ring(): the cached keyring, or a new one that has captured no password.
OpenRing(c, op, k, v) ==
  /\ call[c] = NoCall
  /\ \E r \in Rings :
       /\ IF cached = NoRing
          THEN Unused(r) /\ captured' = [captured EXCEPT ![r] = NoPw]
          ELSE r = cached /\ UNCHANGED captured
       /\ cached' = r
       /\ call' = [call EXCEPT ![c] = [op |-> op, key |-> k, val |-> v, ring |-> r,
                                       crossed |-> Changing]]
  /\ UNCHANGED <<disk, masterPW, owner, counts, history>>

\* The password a keyring works with: the one it captured at its first use,
\* or now the one in memory (FilePasswordFunc).
Unlock(r) == IF captured[r] = NoPw THEN masterPW ELSE captured[r]

\* What the library's Get answers: NoVal stands for an error.
Read(r, k) ==
  IF item[k] = Absent THEN Absent
  ELSE IF item[k].pw = Unlock(r) THEN item[k].val ELSE NoVal

Get(c) ==
  /\ call[c] # NoCall /\ call[c].op = "get"
  /\ captured' = IF item[call[c].key] = Absent THEN captured
                 ELSE [captured EXCEPT ![call[c].ring] = Unlock(call[c].ring)]
  /\ call' = [call EXCEPT ![c] = NoCall]
  /\ UNCHANGED <<disk, masterPW, cached, owner, counts, history>>

Set(c) ==
  /\ call[c] # NoCall /\ call[c].op = "set"
  /\ LET k == call[c].key   pw == Unlock(call[c].ring) IN
       /\ captured' = [captured EXCEPT ![call[c].ring] = pw]
       /\ IF pw = NoPw   \* ErrNoMasterPassword
          THEN UNCHANGED <<item, raced, stored>>
          ELSE /\ item' = [item EXCEPT ![k] = [pw |-> pw, val |-> call[c].val]]
               /\ stored' = [stored EXCEPT ![k] = call[c].val]
               /\ raced' = (raced \/ call[c].crossed)
  /\ call' = [call EXCEPT ![c] = NoCall]
  /\ UNCHANGED <<hash, masterPW, cached, owner, counts, attempted>>

\* Remove deletes the file and needs no password.
Remove(c) ==
  /\ call[c] # NoCall /\ call[c].op = "remove"
  /\ item' = [item EXCEPT ![call[c].key] = Absent]
  /\ stored' = [stored EXCEPT ![call[c].key] = Absent]
  /\ raced' = (raced \/ call[c].crossed)
  /\ call' = [call EXCEPT ![c] = NoCall]
  /\ UNCHANGED <<hash, memory, owner, counts, attempted>>

-----------------------------------------------------------------------------
(* SetMasterPassword, VerifyMasterPassword and ChangeMasterPassword.  The   *)
(* dialogs make one such call at a time.                                    *)

Finish(outcome) == owner' = [owner EXCEPT !.pc = "idle", !.out = outcome]

\* verifyMasterPasswordHash: no hash file matches nothing.
Matches(pw) == hash = pw

SetMasterPassword(pw) ==
  /\ owner.pc = "idle" /\ hash = NoPw
  /\ owner' = [op |-> "set", old |-> NoPw, new |-> pw, pc |-> "hash", out |-> "none",
               todo |-> {}, key |-> NoVal, val |-> NoVal]
  /\ UNCHANGED <<disk, memory, call, counts, history>>

VerifyMasterPassword(pw) ==
  /\ owner.pc = "idle" /\ Matches(pw)
  /\ owner' = [op |-> "verify", old |-> NoPw, new |-> pw, pc |-> "hold", out |-> "none",
               todo |-> {}, key |-> NoVal, val |-> NoVal]
  /\ UNCHANGED <<disk, memory, call, counts, history>>

\* Whether a password is in memory is not looked at.
ChangeMasterPassword(old, new) ==
  /\ owner.pc = "idle"
  /\ changes < MaxChanges /\ changes' = changes + 1
  /\ owner' = [op |-> "change", old |-> old, new |-> new,
               pc |-> IF Matches(old) THEN "list" ELSE "idle",
               out |-> IF Matches(old) THEN "none" ELSE "wrong",
               todo |-> {}, key |-> NoVal, val |-> NoVal]
  /\ call' = IF Matches(old)
             THEN [c \in Callers |-> IF call[c] = NoCall THEN NoCall
                                     ELSE [call[c] EXCEPT !.crossed = TRUE]]
             ELSE call
  /\ UNCHANGED <<disk, memory, interrupts, history>>

(* reencryptFileItems, with a keyring under each of the two passwords.      *)
ListKeys ==
  /\ owner.pc = "list"
  /\ owner' = [owner EXCEPT !.pc = "next", !.todo = {k \in Keys : item[k] # Absent}]
  /\ UNCHANGED <<disk, memory, call, counts, history>>

\* oldRing.Get of the next key.
ReadOld(k) ==
  /\ owner.pc = "next" /\ k \in owner.todo
  /\ owner' = IF item[k] # Absent /\ item[k].pw = owner.old
              THEN [owner EXCEPT !.pc = "write", !.key = k, !.val = item[k].val]
              ELSE [owner EXCEPT !.pc = "check", !.key = k]
  /\ UNCHANGED <<disk, memory, call, counts, history>>

\* Mutant: an item the old password does not open is an error at once.
CheckNewGivesUp ==
  /\ owner.pc = "check"
  /\ Finish("unreadable")
  /\ UNCHANGED <<disk, memory, call, counts, history>>

\* newRing.Get after a failure of oldRing.Get: rewritten by an earlier run?
CheckNew ==
  /\ owner.pc = "check"
  /\ IF item[owner.key] # Absent /\ item[owner.key].pw = owner.new
     THEN owner' = [owner EXCEPT !.pc = "next", !.todo = @ \ {owner.key}]
     ELSE Finish("unreadable")
  /\ UNCHANGED <<disk, memory, call, counts, history>>

\* newRing.Set of the item that was read.
WriteNew ==
  /\ owner.pc = "write"
  /\ item' = [item EXCEPT ![owner.key] = [pw |-> owner.new, val |-> owner.val]]
  /\ attempted' = attempted \cup {owner.new}
  /\ owner' = [owner EXCEPT !.pc = "next", !.todo = @ \ {owner.key}]
  /\ UNCHANGED <<hash, memory, call, counts, raced, stored>>

\* Mutant: the hash is written before the items are.
ListedHashFirst ==
  /\ owner.pc = "next"
  /\ owner' = [owner EXCEPT !.pc = "hash"]
  /\ UNCHANGED <<disk, memory, call, counts, history>>

Listed ==
  /\ owner.pc = "next" /\ owner.todo = {}
  /\ owner' = [owner EXCEPT !.pc = "hash"]
  /\ UNCHANGED <<disk, memory, call, counts, history>>

\* writeMasterPasswordHash: a temporary file renamed over the hash file.
WriteHash ==
  /\ owner.pc = "hash"
  /\ hash' = owner.new
  /\ attempted' = {}
  /\ owner' = [owner EXCEPT !.pc = "hold"]
  /\ UNCHANGED <<item, memory, call, counts, raced, stored>>

Hold ==
  /\ owner.pc = "hold"
  /\ masterPW' = owner.new
  /\ owner' = [owner EXCEPT !.pc = "invalidate"]
  /\ UNCHANGED <<disk, cached, captured, call, counts, history>>

\* Mutant: a change leaves the cached keyring in place.
InvalidateForgotten ==
  /\ owner.pc = "invalidate"
  /\ cached' = IF owner.op = "change" THEN cached ELSE NoRing
  /\ Finish("ok")
  /\ UNCHANGED <<disk, masterPW, captured, call, counts, history>>

\* invalidateRingCache.
Invalidate ==
  /\ owner.pc = "invalidate"
  /\ cached' = NoRing
  /\ Finish("ok")
  /\ UNCHANGED <<disk, masterPW, captured, call, counts, history>>

\* A write of an item or of the hash fails: the call returns the error.
WriteFails ==
  /\ owner.pc \in {"write", "hash"}
  /\ interrupts < MaxInterrupts /\ interrupts' = interrupts + 1
  /\ Finish("failed")
  /\ UNCHANGED <<disk, memory, call, changes, history>>

\* The process dies and starts again: what is on disk is left.
Crash ==
  /\ interrupts < MaxInterrupts /\ interrupts' = interrupts + 1
  /\ masterPW' = NoPw /\ cached' = NoRing
  /\ captured' = [r \in Rings |-> NoPw]
  /\ call' = [c \in Callers |-> NoCall]
  /\ Finish("none")
  /\ UNCHANGED <<disk, changes, history>>

-----------------------------------------------------------------------------
Init ==
  /\ hash = NoPw /\ item = [k \in Keys |-> Absent]
  /\ masterPW = NoPw /\ cached = NoRing /\ captured = [r \in Rings |-> NoPw]
  /\ call = [c \in Callers |-> NoCall]
  /\ owner = [op |-> "none", old |-> NoPw, new |-> NoPw, pc |-> "idle", out |-> "none",
              todo |-> {}, key |-> NoVal, val |-> NoVal]
  /\ changes = 0 /\ interrupts = 0
  /\ attempted = {} /\ raced = FALSE /\ stored = [k \in Keys |-> Absent]

CallerStep(c) ==
  \/ \E op \in Ops, k \in Keys, v \in Vals : OpenRing(c, op, k, v)
  \/ Get(c) \/ Set(c) \/ Remove(c)

OwnerStep ==
  \/ \E pw \in Passwords : SetMasterPassword(pw) \/ VerifyMasterPassword(pw)
  \/ \E old, new \in Passwords : ChangeMasterPassword(old, new)
  \/ ListKeys \/ (\E k \in owner.todo : ReadOld(k)) \/ CheckNew \/ WriteNew
  \/ Listed \/ WriteHash \/ Hold \/ Invalidate \/ WriteFails

Next == (\E c \in Callers : CallerStep(c)) \/ OwnerStep \/ Crash

Spec == Init /\ [][Next]_vars

-----------------------------------------------------------------------------
(* Properties.                                                             *)

\* Every variable keeps its type, and a keyring that is cached or held by a
\* call is never opened again under it.
TypeOK ==
  /\ hash \in Passwords \cup {NoPw}
  /\ item \in [Keys -> ItemType \cup {Absent}]
  /\ masterPW \in Passwords \cup {NoPw}
  /\ cached \in Rings \cup {NoRing}
  /\ captured \in [Rings -> Passwords \cup {NoPw}]
  /\ call \in [Callers -> CallType \cup {NoCall}]
  /\ owner \in OwnerType
  /\ owner.pc \in {"check", "write"} => owner.key \in owner.todo
  /\ owner.pc = "write" => owner.val \in Vals
  /\ owner.pc # "idle" => owner.new \in Passwords
  /\ changes \in 0..MaxChanges /\ interrupts \in 0..MaxInterrupts
  /\ attempted \subseteq Passwords /\ raced \in BOOLEAN
  /\ stored \in [Keys -> Vals \cup {Absent}]

\* Wherever a change was cut short (a crash, a failed write), every item is
\* under the password of the hash file or under the target of a change begun
\* since that file was written: the items are rewritten before the hash is.
\* Only a Set or Remove that ran beside a change can leave a stray.
ItemsFollowTheHash ==
  raced \/ \A k \in Keys : item[k] # Absent => item[k].pw \in attempted \cup {hash}

\* A change that was cut short is completed by the same change again: it
\* meets an item neither password opens only if another target was tried in
\* between, or a Set or Remove ran beside a change (keychain.go 381-384).
RetryCompletes ==
  owner.out = "unreadable" => raced \/ ~(attempted \subseteq {owner.new})

\* A Get that no change crosses, in an unlocked process, with no change left
\* half done, answers what was stored last: the password in memory, the one
\* the cached keyring captured and the one of the item agree.
GetReturnsStored ==
  [][\A c \in Callers :
       Get(c) /\ ~call[c].crossed /\ ~raced /\ attempted = {} /\ masterPW # NoPw
         => Read(call[c].ring, call[c].key) = stored[call[c].key]]_vars

\* keychain.go 379-380: a change "re-encrypts every file-backend item under
\* newPW before rewriting the hash file": after a change that succeeded, with
\* nothing interrupted, every item is under the password of the hash file.
ChangedMeansReadable ==
  owner.op = "change" /\ owner.out = "ok" /\ interrupts = 0
    => \A k \in Keys : item[k] # Absent => item[k].pw = hash
=============================================================================
