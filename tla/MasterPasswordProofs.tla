------------------------ MODULE MasterPasswordProofs ------------------------
(***************************************************************************)
(* Proofs about MasterPassword, for every set of keys, passwords, callers  *)
(* and keyrings and any number of changes and interruptions.               *)
(***************************************************************************)
EXTENDS MasterPassword, TLAPS

Rewriting == owner.pc \in {"list", "next", "check", "write"}

\* The call that owns the password: what it holds true of itself, and that
\* every call under way beside a change is marked.
OwnerInv ==
  /\ Rewriting => owner.op = "change"
  /\ Rewriting \/ (Changing /\ owner.pc = "hash") => hash = owner.old /\ hash # NoPw
  /\ owner.pc = "hash" /\ owner.op # "change" => hash = NoPw
  /\ owner.pc \in {"hold", "invalidate"} => hash = owner.new
  /\ owner.pc # "idle" => owner.out = "none"
  /\ Changing => \A c \in Callers : call[c] # NoCall => call[c].crossed

\* The passwords in memory are the hash file's, but for the end of a change.
MemoryInv ==
  /\ masterPW \in {NoPw, hash} \/ (Changing /\ owner.pc = "hold")
  /\ cached # NoRing => \/ captured[cached] \in {NoPw, hash}
                        \/ Changing /\ owner.pc \in {"hold", "invalidate"}
  /\ \A c \in Callers :
       call[c] # NoCall /\ ~call[c].crossed => captured[call[c].ring] \in {NoPw, hash}

\* Before the first password nothing is stored.
FreshInv ==
  hash = NoPw => /\ masterPW = NoPw /\ \A r \in Rings : captured[r] = NoPw
                 /\ \A k \in Keys : item[k] = Absent

\* The items, as long as no Set or Remove ran beside a change.
ItemInv ==
  /\ \A k \in Keys : item[k] # Absent => item[k].pw \in attempted \cup {hash}
  /\ \A k \in Keys : IF item[k] = Absent THEN stored[k] = Absent
                                         ELSE item[k].val = stored[k]
\* ... those the loop has passed, and the one it is at.
LoopInv ==
  /\ owner.pc \in {"next", "check", "write"} \/ (Changing /\ owner.pc = "hash") =>
       \A k \in Keys \ owner.todo : item[k] # Absent => item[k].pw = owner.new
  /\ Changing /\ owner.pc = "hash" => owner.todo = {}
  /\ owner.pc \in {"next", "check", "write"} => \A k \in owner.todo : item[k] # Absent
  /\ owner.pc = "check" => item[owner.key].pw # owner.old
  /\ owner.pc = "write" => owner.val = stored[owner.key]
  /\ owner.out = "unreadable" => ~(attempted \subseteq {owner.new})

\* The inductive invariant.
IInv ==
  /\ TypeOK /\ OwnerInv /\ MemoryInv /\ FreshInv
  /\ raced \/ (ItemInv /\ LoopInv)

-----------------------------------------------------------------------------
(* One lemma per action: a Get, Set or Remove, the calls that set, verify  *)
(* and change the password, and what cuts them short keep the invariant.   *)

\* A new keyring has captured nothing; the cached one is current, or a change
\* is under way and the call is marked.
LEMMA OpenRingStep ==
  ASSUME IInv,
         NEW c \in Callers, NEW op \in Ops, NEW k \in Keys, NEW v \in Vals,
         OpenRing(c, op, k, v)
  PROVE  IInv'
<1> USE MasterPasswordAssumption
<1>1. PICK r \in Rings :
        /\ cached' = r
        /\ call' = [call EXCEPT ![c] = [op |-> op, key |-> k, val |-> v, ring |-> r,
                                        crossed |-> Changing]]
        /\ IF cached = NoRing
           THEN Unused(r) /\ captured' = [captured EXCEPT ![r] = NoPw]
           ELSE r = cached /\ captured' = captured
  BY DEF OpenRing
<1>2. call'[c] \in CallType /\ call'[c].ring = r /\ call'[c].crossed = Changing
  BY <1>1 DEF IInv, TypeOK, CallType, Changing
<1>3. \A d \in Callers \ {c} : call'[d] = call[d]
  BY <1>1
<1>4. UNCHANGED <<hash, item, masterPW, owner, changes, interrupts, attempted, raced, stored>>
  BY DEF OpenRing, disk, counts, history
<1>5. /\ captured' \in [Rings -> Passwords \cup {NoPw}]
      /\ captured'[r] = NoPw \/ (r = cached /\ captured'[r] = captured[r])
      /\ \A d \in Callers \ {c} :
           call[d] # NoCall => captured'[call[d].ring] = captured[call[d].ring]
      /\ \A q \in Rings : captured'[q] \in {NoPw, captured[q]}
  BY <1>1 DEF IInv, TypeOK, Unused, CallType
<1>6. call' \in [Callers -> CallType \cup {NoCall}]
  BY <1>1, <1>2 DEF IInv, TypeOK
<1>7. TypeOK'
  BY <1>1, <1>4, <1>5, <1>6 DEF IInv, TypeOK
<1>8. OwnerInv'
  BY <1>2, <1>3, <1>4 DEF IInv, OwnerInv, Rewriting, Changing
<1>9. MemoryInv'
  <2>1. masterPW' \in {NoPw, hash'} \/ (Changing' /\ owner'.pc = "hold")
    BY <1>4 DEF IInv, MemoryInv, Changing
  <2>2. cached' # NoRing => \/ captured'[cached'] \in {NoPw, hash'}
                            \/ Changing' /\ owner'.pc \in {"hold", "invalidate"}
    BY <1>1, <1>4, <1>5 DEF IInv, MemoryInv, Changing
  <2>3. ~Changing => captured'[r] \in {NoPw, hash'}
    BY <1>1, <1>4, <1>5 DEF IInv, MemoryInv
  <2>4. \A d \in Callers : call'[d] # NoCall /\ ~call'[d].crossed
                             => captured'[call'[d].ring] \in {NoPw, hash'}
    BY <2>3, <1>2, <1>3, <1>4, <1>5 DEF IInv, MemoryInv
  <2>5. QED BY <2>1, <2>2, <2>4 DEF MemoryInv
<1>10. FreshInv'
  BY <1>4, <1>5 DEF IInv, FreshInv
<1>11. raced' \/ (ItemInv /\ LoopInv)'
  BY <1>4 DEF IInv, ItemInv, LoopInv, Changing
<1>12. QED BY <1>7, <1>8, <1>9, <1>10, <1>11 DEF IInv

\* A Get of an unmarked call captures the hash file's password.
LEMMA GetStep ==
  ASSUME IInv, NEW c \in Callers, Get(c)
  PROVE  IInv'
<1> USE MasterPasswordAssumption
<1>1. TypeOK'
  BY DEF IInv, TypeOK, Get, Unlock, disk, counts, history
<1>2. OwnerInv'
  BY DEF IInv, OwnerInv, Rewriting, Changing, Get, disk
<1>3. MemoryInv'
  BY DEF IInv, OwnerInv, MemoryInv, Changing, Get, Unlock, disk
<1>4. FreshInv'
  BY DEF IInv, FreshInv, Get, Unlock, disk
<1>5. raced' \/ (ItemInv /\ LoopInv)'
  BY DEF IInv, ItemInv, LoopInv, Changing, Get, disk, history
<1>6. QED BY <1>1, <1>2, <1>3, <1>4, <1>5 DEF IInv

\* A Set of an unmarked call writes under the hash file's password.
LEMMA SetStep ==
  ASSUME IInv, NEW c \in Callers, Set(c)
  PROVE  IInv'
<1> USE MasterPasswordAssumption
<1>1. TypeOK'
  BY DEF IInv, TypeOK, Set, Unlock, CallType, ItemType, counts
<1>2. OwnerInv'
  BY DEF IInv, OwnerInv, Rewriting, Changing, Set
<1>3. MemoryInv'
  BY DEF IInv, OwnerInv, MemoryInv, Changing, Set, Unlock
<1>4. FreshInv'
  BY DEF IInv, TypeOK, FreshInv, Set, Unlock, CallType
<1>5. raced' \/ (ItemInv /\ LoopInv)'
  BY DEF IInv, TypeOK, OwnerInv, MemoryInv, ItemInv, LoopInv, Rewriting, Changing, Set,
     Unlock, CallType, ItemType
<1>6. QED BY <1>1, <1>2, <1>3, <1>4, <1>5 DEF IInv

\* A Remove beside a change is a race; another leaves the rest as it is.
LEMMA RemoveStep ==
  ASSUME IInv, NEW c \in Callers, Remove(c)
  PROVE  IInv'
<1> USE MasterPasswordAssumption
<1>1. TypeOK'
  BY DEF IInv, TypeOK, Remove, memory, counts
<1>2. OwnerInv'
  BY DEF IInv, OwnerInv, Rewriting, Changing, Remove
<1>3. MemoryInv'
  BY DEF IInv, MemoryInv, Changing, Remove, memory
<1>4. FreshInv'
  BY DEF IInv, FreshInv, Remove, memory
<1>5. raced' \/ (ItemInv /\ LoopInv)'
  BY DEF IInv, TypeOK, OwnerInv, ItemInv, LoopInv, Rewriting, Changing, Remove
<1>6. QED BY <1>1, <1>2, <1>3, <1>4, <1>5 DEF IInv

\* The first password is set only while nothing is stored.
LEMMA SetMasterStep ==
  ASSUME IInv, NEW pw \in Passwords, SetMasterPassword(pw)
  PROVE  IInv'
<1> USE MasterPasswordAssumption
<1>1. TypeOK'
  BY DEF IInv, TypeOK, SetMasterPassword, OwnerType, OwnerPC, Outcomes, disk, memory,
     counts, history
<1>2. OwnerInv'
  BY DEF OwnerInv, Rewriting, Changing, SetMasterPassword, disk
<1>3. MemoryInv'
  BY DEF IInv, MemoryInv, SetMasterPassword, memory
<1>4. FreshInv'
  BY DEF IInv, FreshInv, SetMasterPassword, disk, memory
<1>5. raced' \/ (ItemInv /\ LoopInv)'
  BY DEF IInv, ItemInv, LoopInv, Changing, SetMasterPassword, disk, history
<1>6. QED BY <1>1, <1>2, <1>3, <1>4, <1>5 DEF IInv

\* A verified password is the hash file's.
LEMMA VerifyStep ==
  ASSUME IInv, NEW pw \in Passwords, VerifyMasterPassword(pw)
  PROVE  IInv'
<1> USE MasterPasswordAssumption
<1>1. TypeOK'
  BY DEF IInv, TypeOK, VerifyMasterPassword, OwnerType, OwnerPC, Outcomes, disk, memory,
     counts, history
<1>2. OwnerInv'
  BY DEF OwnerInv, Rewriting, Changing, VerifyMasterPassword, Matches, disk
<1>3. MemoryInv'
  BY DEF IInv, MemoryInv, VerifyMasterPassword, disk, memory
<1>4. FreshInv'
  BY DEF FreshInv, VerifyMasterPassword, Matches, disk
<1>5. raced' \/ (ItemInv /\ LoopInv)'
  BY DEF IInv, ItemInv, LoopInv, VerifyMasterPassword, disk, history
<1>6. QED BY <1>1, <1>2, <1>3, <1>4, <1>5 DEF IInv

\* A change begins under the hash file's password and marks the calls under way.
LEMMA ChangeStep ==
  ASSUME IInv, NEW old \in Passwords, NEW new \in Passwords,
         ChangeMasterPassword(old, new)
  PROVE  IInv'
<1> USE MasterPasswordAssumption
<1>1. TypeOK'
  <2>1. owner' \in OwnerType /\ owner'.pc \in {"list", "idle"} /\ owner'.new = new
    BY DEF ChangeMasterPassword, OwnerType, OwnerPC, Outcomes
  <2>2. changes' \in 0..MaxChanges
    BY DEF IInv, TypeOK, ChangeMasterPassword
  <2>3. call' \in [Callers -> CallType \cup {NoCall}]
    <3>1. ASSUME NEW c \in Callers, call[c] # NoCall
          PROVE  [call[c] EXCEPT !.crossed = TRUE] \in CallType
      BY <3>1 DEF IInv, TypeOK, CallType
    <3>2. QED BY <3>1 DEF IInv, TypeOK, ChangeMasterPassword
  <2>4. QED
    BY <2>1, <2>2, <2>3 DEF IInv, TypeOK, ChangeMasterPassword, disk, memory, history
<1>2. OwnerInv'
  BY DEF OwnerInv, Rewriting, Changing, ChangeMasterPassword, Matches, disk
<1>3. MemoryInv'
  BY DEF IInv, MemoryInv, ChangeMasterPassword, disk, memory
<1>4. FreshInv'
  BY DEF IInv, FreshInv, ChangeMasterPassword, disk, memory
<1>5. raced' \/ (ItemInv /\ LoopInv)'
  BY DEF IInv, ItemInv, LoopInv, ChangeMasterPassword, disk, history
<1>6. QED BY <1>1, <1>2, <1>3, <1>4, <1>5 DEF IInv

\* All items are listed: none is passed.
LEMMA ListKeysStep ==
  ASSUME IInv, ListKeys
  PROVE  IInv'
<1> USE MasterPasswordAssumption
<1>1. TypeOK'
  BY DEF IInv, TypeOK, ListKeys, OwnerType, OwnerPC, disk, memory, counts, history
<1>2. OwnerInv'
  BY DEF IInv, OwnerInv, Rewriting, Changing, ListKeys, disk
<1>3. MemoryInv'
  BY DEF IInv, MemoryInv, ListKeys, disk, memory
<1>4. FreshInv'
  BY DEF IInv, FreshInv, ListKeys, disk, memory
<1>5. raced' \/ (ItemInv /\ LoopInv)'
  BY DEF IInv, ItemInv, LoopInv, ListKeys, disk, history
<1>6. QED BY <1>1, <1>2, <1>3, <1>4, <1>5 DEF IInv

\* An item that the old password does not open is not under it.
LEMMA ReadOldStep ==
  ASSUME IInv, NEW k \in Keys, ReadOld(k)
  PROVE  IInv'
<1> USE MasterPasswordAssumption
<1>1. TypeOK'
  BY DEF IInv, TypeOK, ReadOld, OwnerType, OwnerPC, ItemType, disk, memory, counts, history
<1>2. OwnerInv'
  BY DEF IInv, OwnerInv, Rewriting, Changing, ReadOld, disk
<1>3. MemoryInv'
  BY DEF IInv, MemoryInv, ReadOld, disk, memory
<1>4. FreshInv'
  BY DEF IInv, FreshInv, ReadOld, disk, memory
<1>5. raced' \/ (ItemInv /\ LoopInv)'
  BY DEF IInv, ItemInv, LoopInv, ReadOld, disk, history
<1>6. QED BY <1>1, <1>2, <1>3, <1>4, <1>5 DEF IInv

\* An item the new password opens is passed.
LEMMA CheckNewStep ==
  ASSUME IInv, CheckNew
  PROVE  IInv'
<1> USE MasterPasswordAssumption
<1>1. owner.pc = "check" /\ owner.key \in owner.todo /\ owner \in OwnerType
  BY DEF IInv, TypeOK, CheckNew
<1>2. UNCHANGED <<hash, item, masterPW, cached, captured, call, changes, interrupts,
                  attempted, raced, stored>>
  BY DEF CheckNew, disk, memory, counts, history
<1>3. CASE item[owner.key] # Absent /\ item[owner.key].pw = owner.new
  <2>1. owner' = [owner EXCEPT !.pc = "next", !.todo = @ \ {owner.key}]
    BY <1>3 DEF CheckNew
  <2>2. /\ owner' \in OwnerType /\ owner'.pc = "next" /\ owner'.op = owner.op
        /\ owner'.old = owner.old /\ owner'.new = owner.new /\ owner'.out = owner.out
        /\ owner'.todo = owner.todo \ {owner.key}
    BY <1>1, <2>1 DEF OwnerType, OwnerPC
  <2>3. TypeOK'
    BY <1>1, <1>2, <2>2 DEF IInv, TypeOK
  <2>4. OwnerInv'
    BY <1>1, <1>2, <2>2 DEF IInv, OwnerInv, Rewriting, Changing
  <2>5. MemoryInv' /\ FreshInv'
    BY <1>1, <1>2, <2>2 DEF IInv, MemoryInv, FreshInv
  <2>6. raced' \/ (ItemInv /\ LoopInv)'
    BY <1>1, <1>2, <1>3, <2>2 DEF IInv, ItemInv, LoopInv
  <2>7. QED BY <2>3, <2>4, <2>5, <2>6 DEF IInv
<1>4. CASE ~(item[owner.key] # Absent /\ item[owner.key].pw = owner.new)
  <2>1. owner' = [owner EXCEPT !.pc = "idle", !.out = "unreadable"]
    BY <1>4 DEF CheckNew, Finish
  <2>2. /\ owner' \in OwnerType /\ owner'.pc = "idle" /\ owner'.out = "unreadable"
        /\ owner'.new = owner.new
    BY <1>1, <2>1 DEF OwnerType, OwnerPC, Outcomes
  <2>3. TypeOK'
    BY <1>2, <2>2 DEF IInv, TypeOK
  <2>4. OwnerInv'
    BY <1>2, <2>2 DEF OwnerInv, Rewriting, Changing
  <2>5. MemoryInv' /\ FreshInv'
    BY <1>1, <1>2, <2>2 DEF IInv, MemoryInv, FreshInv
  \* An item neither password opens is under another target.
  <2>6. ~raced => ~(attempted \subseteq {owner.new})
    <3>1. SUFFICES ASSUME ~raced PROVE ~(attempted \subseteq {owner.new})
      OBVIOUS
    <3>2. owner.key \in Keys /\ item[owner.key] # Absent
      BY <1>1, <3>1 DEF IInv, LoopInv, OwnerType
    <3>3. item[owner.key].pw # owner.new /\ item[owner.key].pw # hash
      BY <1>1, <1>4, <3>1, <3>2 DEF IInv, OwnerInv, Rewriting, LoopInv
    <3>4. QED BY <3>1, <3>2, <3>3 DEF IInv, ItemInv
  <2>7. raced' \/ (ItemInv /\ LoopInv)'
    BY <1>2, <2>2, <2>6 DEF IInv, ItemInv, LoopInv
  <2>8. QED BY <2>3, <2>4, <2>5, <2>7 DEF IInv
<1>5. QED BY <1>3, <1>4

\* An item written anew is passed and keeps its value.
LEMMA WriteNewStep ==
  ASSUME IInv, WriteNew
  PROVE  IInv'
<1> USE MasterPasswordAssumption
<1>1. TypeOK'
  BY DEF IInv, TypeOK, WriteNew, OwnerType, OwnerPC, ItemType, memory, counts
<1>2. OwnerInv'
  BY DEF IInv, OwnerInv, Rewriting, Changing, WriteNew
<1>3. MemoryInv'
  BY DEF IInv, MemoryInv, WriteNew, memory
<1>4. FreshInv'
  BY DEF IInv, OwnerInv, FreshInv, Rewriting, WriteNew
<1>5. raced' \/ (ItemInv /\ LoopInv)'
  BY DEF IInv, TypeOK, ItemInv, LoopInv, WriteNew, ItemType
<1>6. QED BY <1>1, <1>2, <1>3, <1>4, <1>5 DEF IInv

\* With nothing left to pass, every item is under the new password.
LEMMA ListedStep ==
  ASSUME IInv, Listed
  PROVE  IInv'
<1> USE MasterPasswordAssumption
<1>1. TypeOK'
  BY DEF IInv, TypeOK, Listed, OwnerType, OwnerPC, disk, memory, counts, history
<1>2. OwnerInv'
  BY DEF IInv, OwnerInv, Rewriting, Changing, Listed, disk
<1>3. MemoryInv'
  BY DEF IInv, MemoryInv, Listed, disk, memory
<1>4. FreshInv'
  BY DEF IInv, FreshInv, Listed, disk, memory
<1>5. raced' \/ (ItemInv /\ LoopInv)'
  BY DEF IInv, ItemInv, LoopInv, Listed, disk, history
<1>6. QED BY <1>1, <1>2, <1>3, <1>4, <1>5 DEF IInv

\* The hash file follows the items: none is under an attempted password only.
LEMMA WriteHashStep ==
  ASSUME IInv, WriteHash
  PROVE  IInv'
<1> USE MasterPasswordAssumption
<1>1. TypeOK'
  BY DEF IInv, TypeOK, WriteHash, OwnerType, OwnerPC, memory, counts
<1>2. OwnerInv'
  BY DEF IInv, OwnerInv, Rewriting, Changing, WriteHash
<1>3. MemoryInv'
  BY DEF IInv, OwnerInv, MemoryInv, Changing, WriteHash, memory
<1>4. FreshInv'
  BY DEF IInv, TypeOK, FreshInv, WriteHash
<1>5. raced' \/ (ItemInv /\ LoopInv)'
  BY DEF IInv, OwnerInv, FreshInv, ItemInv, LoopInv, Changing, WriteHash
<1>6. QED BY <1>1, <1>2, <1>3, <1>4, <1>5 DEF IInv

\* The password in memory is the hash file's again.
LEMMA HoldStep ==
  ASSUME IInv, Hold
  PROVE  IInv'
<1> USE MasterPasswordAssumption
<1>1. TypeOK'
  BY DEF IInv, TypeOK, Hold, OwnerType, OwnerPC, disk, counts, history
<1>2. OwnerInv'
  BY DEF IInv, OwnerInv, Rewriting, Changing, Hold, disk
<1>3. MemoryInv'
  BY DEF IInv, OwnerInv, MemoryInv, Changing, Hold, disk
<1>4. FreshInv'
  BY DEF IInv, OwnerInv, FreshInv, Hold, disk
<1>5. raced' \/ (ItemInv /\ LoopInv)'
  BY DEF IInv, ItemInv, LoopInv, Hold, disk, history
<1>6. QED BY <1>1, <1>2, <1>3, <1>4, <1>5 DEF IInv

\* No keyring with the old password stays in the cache.
LEMMA InvalidateStep ==
  ASSUME IInv, Invalidate
  PROVE  IInv'
<1> USE MasterPasswordAssumption
<1>1. TypeOK'
  BY DEF IInv, TypeOK, Invalidate, Finish, OwnerType, OwnerPC, Outcomes, disk, counts,
     history
<1>2. OwnerInv'
  BY DEF OwnerInv, Rewriting, Changing, Invalidate, Finish
<1>3. MemoryInv'
  BY DEF IInv, MemoryInv, Invalidate, disk
<1>4. FreshInv'
  BY DEF IInv, FreshInv, Invalidate, disk
<1>5. raced' \/ (ItemInv /\ LoopInv)'
  BY DEF IInv, ItemInv, LoopInv, Invalidate, Finish, disk, history
<1>6. QED BY <1>1, <1>2, <1>3, <1>4, <1>5 DEF IInv

\* A failed write leaves the items between the old and the new password.
LEMMA WriteFailsStep ==
  ASSUME IInv, WriteFails
  PROVE  IInv'
<1> USE MasterPasswordAssumption
<1>1. TypeOK'
  <2>1. owner' \in OwnerType /\ owner'.pc = "idle"
    BY DEF IInv, TypeOK, WriteFails, Finish, OwnerType, OwnerPC, Outcomes
  <2>2. interrupts' \in 0..MaxInterrupts
    BY DEF IInv, TypeOK, WriteFails
  <2>3. QED
    BY <2>1, <2>2 DEF IInv, TypeOK, WriteFails, disk, memory, history
<1>2. OwnerInv'
  BY DEF OwnerInv, Rewriting, Changing, WriteFails, Finish
<1>3. MemoryInv'
  BY DEF IInv, MemoryInv, WriteFails, disk, memory
<1>4. FreshInv'
  BY DEF IInv, FreshInv, WriteFails, disk, memory
<1>5. raced' \/ (ItemInv /\ LoopInv)'
  BY DEF IInv, ItemInv, LoopInv, WriteFails, Finish, disk, history
<1>6. QED BY <1>1, <1>2, <1>3, <1>4, <1>5 DEF IInv

\* A crash leaves the disk as it is and memory empty.
LEMMA CrashStep ==
  ASSUME IInv, Crash
  PROVE  IInv'
<1> USE MasterPasswordAssumption
<1>1. TypeOK'
  <2>1. owner' \in OwnerType /\ owner'.pc = "idle"
    BY DEF IInv, TypeOK, Crash, Finish, OwnerType, OwnerPC, Outcomes
  <2>2. interrupts' \in 0..MaxInterrupts
    BY DEF IInv, TypeOK, Crash
  <2>3. /\ captured' \in [Rings -> Passwords \cup {NoPw}]
        /\ call' \in [Callers -> CallType \cup {NoCall}]
    BY DEF Crash
  <2>4. QED
    BY <2>1, <2>2, <2>3 DEF IInv, TypeOK, Crash, disk, history
<1>2. OwnerInv'
  BY DEF OwnerInv, Rewriting, Crash, Finish
<1>3. MemoryInv'
  BY DEF MemoryInv, Crash
<1>4. FreshInv'
  BY DEF IInv, FreshInv, Crash, disk
<1>5. raced' \/ (ItemInv /\ LoopInv)'
  BY DEF IInv, ItemInv, LoopInv, Crash, Finish, disk, history
<1>6. QED BY <1>1, <1>2, <1>3, <1>4, <1>5 DEF IInv

\* A new installation.
LEMMA InitInv == Init => IInv
<1> SUFFICES ASSUME Init PROVE IInv
  OBVIOUS
<1> USE MasterPasswordAssumption
<1>1. TypeOK
  <2>1. owner \in OwnerType /\ owner.pc = "idle"
    BY DEF Init, OwnerType, OwnerPC, Outcomes
  <2>2. changes \in 0..MaxChanges /\ interrupts \in 0..MaxInterrupts
    BY DEF Init
  <2>3. QED
    BY <2>1, <2>2 DEF Init, TypeOK
<1>2. OwnerInv /\ MemoryInv /\ FreshInv /\ ItemInv /\ LoopInv
  BY DEF Init, OwnerInv, MemoryInv, FreshInv, ItemInv, LoopInv, Rewriting
<1>3. QED BY <1>1, <1>2 DEF IInv

\* Every step keeps the invariant.
LEMMA StepInv == IInv /\ [Next]_vars => IInv'
<1> SUFFICES ASSUME IInv, [Next]_vars PROVE IInv'
  OBVIOUS
<1>1. CASE UNCHANGED vars
  BY <1>1 DEF vars, disk, memory, counts, history, IInv, TypeOK, OwnerInv, MemoryInv,
     FreshInv, ItemInv, LoopInv, Rewriting, Changing
<1>2. ASSUME NEW c \in Callers, CallerStep(c) PROVE IInv'
  BY <1>2, OpenRingStep, GetStep, SetStep, RemoveStep DEF CallerStep
<1>3. CASE OwnerStep
  <2>1. owner.todo \subseteq Keys
    BY DEF IInv, TypeOK, OwnerType
  <2>2. QED
    BY <1>3, <2>1, SetMasterStep, VerifyStep, ChangeStep, ListKeysStep, ReadOldStep,
       CheckNewStep, WriteNewStep, ListedStep, WriteHashStep, HoldStep, InvalidateStep,
       WriteFailsStep DEF OwnerStep
<1>4. QED BY <1>1, <1>2, <1>3, CrashStep DEF Next

\* The inductive invariant holds in every behaviour.
THEOREM InvariantHolds == Spec => []IInv
<1>1. QED BY InitInv, StepInv, PTL DEF Spec

\* Every variable of MasterPassword keeps its type (keychain.go 48-69).
THEOREM TypeCorrect == Spec => []TypeOK
<1>1. IInv => TypeOK
  BY DEF IInv
<1>2. QED BY <1>1, InvariantHolds, PTL

\* Wherever a change of the master password is cut short, items stay under the
\* hash file's password or the target of a change begun since (keychain.go
\* 379-384), unless a Set or Remove ran beside a change.
THEOREM ItemsStayReadable == Spec => []ItemsFollowTheHash
<1>1. IInv => ItemsFollowTheHash
  BY DEF IInv, ItemInv, ItemsFollowTheHash
<1>2. QED BY <1>1, InvariantHolds, PTL

\* The same change again never meets an unreadable item (keychain.go 381-384).
THEOREM InterruptedChangeCanBeRetried == Spec => []RetryCompletes
<1>1. IInv => RetryCompletes
  BY DEF IInv, LoopInv, RetryCompletes
<1>2. QED BY <1>1, InvariantHolds, PTL

\* An undisturbed Get answers what was stored last (keychain.go 62-67).
THEOREM GetIsRight == Spec => GetReturnsStored
<1> DEFINE Right == \A c \in Callers :
       Get(c) /\ ~call[c].crossed /\ ~raced /\ attempted = {} /\ masterPW # NoPw
         => Read(call[c].ring, call[c].key) = stored[call[c].key]
<1>1. IInv => Right
  <2>1. SUFFICES ASSUME IInv, NEW c \in Callers, Get(c), ~call[c].crossed, ~raced,
                        attempted = {}, masterPW # NoPw
                 PROVE  Read(call[c].ring, call[c].key) = stored[call[c].key]
    OBVIOUS
  <2> DEFINE k == call[c].key
  <2>2. call[c] # NoCall /\ k \in Keys
    BY <2>1 DEF Get, IInv, TypeOK, CallType
  <2>3. ~Changing
    BY <2>1, <2>2 DEF IInv, OwnerInv
  <2>4. masterPW = hash /\ captured[call[c].ring] \in {NoPw, hash}
    BY <2>1, <2>2, <2>3 DEF IInv, MemoryInv
  <2>5. Unlock(call[c].ring) = hash
    BY <2>4 DEF Unlock
  <2>6. item[k] # Absent => item[k].pw = hash /\ item[k].val = stored[k]
    BY <2>1, <2>2 DEF IInv, ItemInv
  <2>7. item[k] = Absent => stored[k] = Absent
    BY <2>1, <2>2 DEF IInv, ItemInv
  <2>8. QED BY <2>5, <2>6, <2>7 DEF Read
<1>2. IInv /\ [Next]_vars => [Right]_vars
  BY <1>1
<1>3. Spec => [][Right]_vars
  BY <1>2, InvariantHolds, PTL DEF Spec
<1>4. QED BY <1>3 DEF GetReturnsStored
=============================================================================
