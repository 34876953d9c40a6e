------------------------------- MODULE HostKeys -------------------------------
(***************************************************************************)
(* Trust on first use of SSH host keys (services/remote_ssh.go,            *)
(* services/config/knownhosts.go).  Every connection verifies the key the  *)
(* host presents against known_hosts.yaml: it loads the whole file, looks  *)
(* the host up, and for a new host adds the key and writes the whole file  *)
(* back.  Nothing serialises two connections.                              *)
(***************************************************************************)
EXTENDS Naturals

CONSTANTS Conns,   \* connections, each used once
          Hosts,   \* "host:port", the keys of known_hosts.yaml
          Keys,    \* fingerprints
          None     \* no value

ASSUME NoneAssumption == None \notin Conns \cup Hosts \cup Keys

VARIABLES
    known,       \* known_hosts.yaml
    serverKey,   \* the key each host presents
    promptNew,   \* AppConfig.PromptNewHostKeys
    dial,        \* the host key callback of each connection
    trusted,     \* history: the key a host was first accepted with
    overlapped   \* history: a file was loaded while another one was being saved

keyVars == <<known, serverKey, promptNew, dial, trusted, overlapped>>

Known == [Hosts -> Keys \cup {None}]
Empty == [h \in Hosts |-> None]

Stages == {"idle", "verify", "pin", "accepted", "refused"}

NoDial == [stage |-> "idle", host |-> None, trust |-> FALSE, key |-> None, loaded |-> Empty]

KeysTypeOK ==
    /\ known \in Known
    /\ serverKey \in [Hosts -> Keys]
    /\ promptNew \in BOOLEAN
    /\ dial \in [Conns -> [stage : Stages, host : Hosts \cup {None}, trust : BOOLEAN,
                           key : Keys \cup {None}, loaded : Known]]
    /\ trusted \in Known
    /\ overlapped \in BOOLEAN

KeysInit ==
    /\ known = Empty
    /\ \E key \in Keys : serverKey = [h \in Hosts |-> key]   \* keys of two hosts never meet
    /\ promptNew \in BOOLEAN
    /\ dial = [c \in Conns |-> NoDial]
    /\ trusted = Empty
    /\ overlapped = FALSE

Saving == {c \in Conns : dial[c].stage = "pin"}

(* The handshake reaches the host key callback. *)
Present(c, h, trust) ==
    /\ dial[c].stage = "idle"
    /\ dial' = [dial EXCEPT ![c] = [stage |-> "verify", host |-> h, trust |-> trust,
                                    key |-> serverKey[h], loaded |-> Empty]]
    /\ UNCHANGED <<known, serverKey, promptNew, trusted, overlapped>>

(* os.WriteFile truncates before it writes: who loads in between finds an  *)
(* empty file, which LoadKnownHosts takes for no pinned keys.              *)
LoadKnownHosts == {known} \cup (IF Saving = {} THEN {} ELSE {Empty})

\* Mutant: a pinned key is replaced by the one presented.
VerdictRepins(d, hosts) ==
    IF hosts[d.host] = d.key THEN "accepted"
    ELSE IF promptNew /\ ~d.trust THEN "refused"
    ELSE "pin"

\* Mutant: the setting is left to the frontend.
VerdictUnprompted(d, hosts) ==
    IF hosts[d.host] = d.key THEN "accepted"
    ELSE IF hosts[d.host] # None THEN "refused"
    ELSE "pin"

(* What the callback decides once it has loaded the file. *)
Verdict(d, hosts) ==
    IF hosts[d.host] = d.key THEN "accepted"
    ELSE IF hosts[d.host] # None THEN "refused"
    ELSE IF promptNew /\ ~d.trust THEN "refused"
    ELSE "pin"

Accept(h, key) == trusted' = [trusted EXCEPT ![h] = IF @ = None THEN key ELSE @]

Verify(c) ==
    LET d == dial[c] IN
    /\ d.stage = "verify"
    /\ \E hosts \in LoadKnownHosts :
          /\ dial' = [dial EXCEPT ![c].stage = Verdict(d, hosts),
                                  ![c].loaded = IF Verdict(d, hosts) = "pin" THEN hosts ELSE Empty]
          /\ IF Verdict(d, hosts) = "accepted"
             THEN Accept(d.host, d.key)
             ELSE UNCHANGED trusted
    /\ overlapped' = (overlapped \/ Saving # {})
    /\ UNCHANGED <<known, serverKey, promptNew>>

(* SaveKnownHosts: the loaded map with the new key replaces the file. *)
Pin(c) ==
    LET d == dial[c] IN
    /\ d.stage = "pin"
    /\ known' = [d.loaded EXCEPT ![d.host] = d.key]
    /\ dial' = [dial EXCEPT ![c].stage = "accepted", ![c].loaded = Empty]
    /\ Accept(d.host, d.key)
    /\ UNCHANGED <<serverKey, promptNew, overlapped>>

(* The file cannot be written. *)
PinFails(c) ==
    /\ dial[c].stage = "pin"
    /\ dial' = [dial EXCEPT ![c].stage = "refused", ![c].loaded = Empty]
    /\ UNCHANGED <<known, serverKey, promptNew, trusted, overlapped>>

(* A host is reinstalled, or something else answers at its address. *)
Rekey(h, key) ==
    /\ key # serverKey[h]
    /\ serverKey' = [serverKey EXCEPT ![h] = key]
    /\ UNCHANGED <<known, promptNew, dial, trusted, overlapped>>

(* What CheckHostKeyTrust answers for the file it loads. *)
IsKnown(h, hosts) == hosts[h] = serverKey[h]
IsChanged(h, hosts) == hosts[h] \notin {None, serverKey[h]}

(***************************************************************************)
(* Unless one connection loaded the file while another was saving it, a    *)
(* host that was accepted with a key is never accepted with another: "a    *)
(* later connection presenting a different key is always refused".         *)
(***************************************************************************)
TrustedKeyIsKept ==
    ~overlapped => \A c \in Conns : dial[c].stage = "accepted" => dial[c].key = trusted[dial[c].host]
===============================================================================
