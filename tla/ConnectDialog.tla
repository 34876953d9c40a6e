----------------------------- MODULE ConnectDialog -----------------------------
(***************************************************************************)
(* The New Terminal dialog (NewTerminalDialog.tsx) over the saved hosts    *)
(* (services/remote_service.go), their passwords in the keychain and the   *)
(* connections it opens (pty_service.go, remote_ssh.go, HostKeys).  The    *)
(* dialog stays mounted: what an await left pending goes on after it is    *)
(* closed, and finds whatever session of the dialog is open by then.       *)
(*                                                                         *)
(* A password is known by the host it opens; port, user name and tmux      *)
(* session go with the host, and the password and the check box of the     *)
(* form are what the user has made them when it is sent.  "Show All" shows *)
(* the rows of the first page and is not a step of its own; a list of      *)
(* records is as old as the call that fetches it.  Writes of config.yaml   *)
(* are atomic here: two of them at once are the subject of Settings.       *)
(***************************************************************************)
EXTENDS HostKeys

CONSTANTS Ids,           \* ids of saved hosts
          Kinds,         \* remote kinds
          SavedAtStart,  \* what RemoteHosts may be at first
          MaxUpsets      \* openings after the first, records forgotten, hosts rekeyed

Remote == Hosts \cup {None}
Row    == [kind : Kinds \cup {"local"}, host : Remote]

ASSUME DialogAssumption ==
    /\ "ssh" \in Kinds /\ Kinds \subseteq {"ssh", "winrm"}
    /\ SavedAtStart \subseteq [Ids -> Row \cup {None}]
    /\ \A records \in SavedAtStart, i \in Ids :
          records[i] # None /\ records[i].kind # "local" => records[i].host \in Hosts
    /\ None \notin Ids \cup Row /\ MaxUpsets \in Nat

VARIABLES
    dialog,     \* step, status, flags and calls in flight of the dialog
    form,       \* kind and host in the fields
    reconnect,  \* reconnectHost
    confirm,    \* hostKeyConfirm
    recents,    \* recentHosts, by id
    job,        \* the connection attempts
    saved,      \* AppConfig.RemoteHosts, by id
    secretOf,   \* the keychain: the host the stored password opens
    removing,   \* ForgetRemoteHost calls in flight
    upsets,     \* how often the bounded actions happened
    minted,     \* ids given out (uuid.New)
    accepted,   \* history: hosts whose key the user accepted
    disturbed,  \* history: records two operations met on, or a write failed on
    edited,     \* history: records sent with a host the user typed
    carried     \* history: records sent after a rejected key

uiVars   == <<dialog, form, reconnect, confirm, recents>>
dataVars == <<saved, secretOf, removing, minted>>
history  == <<accepted, disturbed, edited, carried>>
dlgVars  == <<keyVars, uiVars, job, dataVars, upsets, history>>

Params == [kind : Kinds \cup {"local"}, host : Remote, secret : BOOLEAN, save : BOOLEAN,
           id : Ids \cup {None}]
NoJob  == [pc |-> "new", p |-> None, trust |-> FALSE, used |-> None, target |-> None, stale |-> FALSE]
Live   == {c \in Conns : job[c].pc \notin {"new", "over"}}
NoRows == [i \in Ids |-> None]
Local  == [kind |-> "local", host |-> None]

TypeOK ==
    /\ KeysTypeOK
    /\ dialog \in [open : BOOLEAN, step : {"type", "form", "hostKeyConfirm"},
                   seen : BOOLEAN, status : {"idle", "connecting", "error"},
                   prompt : BOOLEAN, warning : BOOLEAN]
    /\ form \in Row
    /\ reconnect \in Ids \cup {None}
    /\ confirm = None \/ confirm \in [p : Params, target : Ids \cup {None}, changed : BOOLEAN]
    /\ \A i \in Ids : /\ recents[i] = None \/ recents[i] \in [row : Row, cred : BOOLEAN]
                      /\ saved[i] = None \/ saved[i] \in Row
    /\ job \in [Conns -> [pc : {"new", "check", "open", "dial", "save", "secret", "touch", "over"},
                          p : Params \cup {None}, trust : BOOLEAN, used : Remote,
                          target : Ids \cup {None}, stale : BOOLEAN]]
    /\ secretOf \in [Ids -> Remote]
    /\ removing \in [Ids -> {"no", "entry", "secrets"}]
    /\ upsets \in 0..MaxUpsets
    /\ accepted \subseteq Hosts
    /\ disturbed \cup edited \cup carried \cup minted \subseteq Ids

Init ==
    /\ KeysInit
    /\ dialog = [open |-> FALSE, seen |-> FALSE, step |-> "type", status |-> "idle", prompt |-> FALSE,
                 warning |-> FALSE]
    /\ form = Local /\ reconnect = None /\ confirm = None
    /\ recents = NoRows
    /\ job = [c \in Conns |-> NoJob]
    /\ saved \in SavedAtStart
    /\ secretOf \in {f \in [Ids -> Remote] :
                       \A i \in Ids : f[i] \in {None, IF saved[i] = None THEN None ELSE saved[i].host}}
    /\ removing = [i \in Ids |-> "no"]
    /\ upsets = 0
    /\ minted = {i \in Ids : saved[i] # None}
    /\ accepted = {} /\ disturbed = {} /\ edited = {} /\ carried = {}

-----------------------------------------------------------------------------
(* Opening, closing and the two lists that are fetched on opening. *)

\* Mutant: the record of the session before is kept.
ResetKeepsRecord(pre) ==
    /\ form' = IF pre = None THEN Local ELSE [kind |-> "ssh", host |-> pre]
    /\ confirm' = None /\ UNCHANGED reconnect

\* The fields and records the effect on `open` clears.
Reset(pre) ==
    /\ form' = IF pre = None THEN Local ELSE [kind |-> "ssh", host |-> pre]
    /\ reconnect' = None /\ confirm' = None

\* ListRemoteHostsWithStatus: the records with whether a password is stored.
Listing == [i \in Ids |-> IF saved[i] = None THEN None
                          ELSE [row |-> saved[i], cred |-> secretOf[i] # None]]

\* refreshRecentHosts; of a list that cannot be read no row is used.
Refresh == recents' = IF dialog'.open THEN Listing ELSE NoRows

\* "+ Connect", or "Add to hosts" of the network panel, which fills in the host.
Open(pre) ==
    /\ ~dialog.open /\ (dialog.seen => upsets < MaxUpsets)
    /\ dialog' = [dialog EXCEPT !.open = TRUE, !.seen = TRUE, !.step = IF pre = None THEN "type" ELSE "form",
                                !.status = "idle", !.warning = FALSE]
    /\ Reset(pre) /\ Refresh
    /\ upsets' = IF dialog.seen THEN upsets + 1 ELSE upsets
    /\ UNCHANGED <<keyVars, job, dataVars, history>>

(* onClose.  Nobody reads the fields of a closed dialog and opening it     *)
(* clears them: here they are cleared at once.                             *)
Shut ==
    /\ dialog' = [dialog EXCEPT !.open = FALSE, !.step = "type", !.status = "idle", !.warning = FALSE]
    /\ Reset(None) /\ recents' = NoRows

Close == dialog.open /\ Shut /\ UNCHANGED <<keyVars, job, dataVars, upsets, history>>

\* GetSettings answers, late or, when it fails, never.
SettingsAnswer ==
    /\ dialog.seen /\ dialog.prompt # promptNew
    /\ dialog' = [dialog EXCEPT !.prompt = promptNew]
    /\ UNCHANGED <<keyVars, form, reconnect, confirm, recents, job, dataVars, upsets, history>>

Back ==
    /\ dialog.open /\ dialog.step = "form" /\ dialog' = [dialog EXCEPT !.step = "type"]
    /\ UNCHANGED <<keyVars, form, reconnect, confirm, recents, job, dataVars, upsets, history>>

-----------------------------------------------------------------------------
(* Starting a connection. *)

\* Another operation is under way on the record.
Busy(i) == i # None /\ (removing[i] # "no" \/ \E c \in Live : job[c].target = i)

Meets(i) == disturbed' = IF Busy(i) THEN disturbed \cup {i} ELSE disturbed

\* connectToRemote, handleConnectLocal and handleConnectLocalSaved up to the call.
Connecting(c, p, trust, target) ==
    /\ job' = [job EXCEPT ![c] = [NoJob EXCEPT !.pc = "open", !.p = p, !.trust = trust,
                                               !.target = target, !.stale = dialog.warning]]
    /\ dialog' = IF dialog.open THEN [dialog EXCEPT !.status = "connecting", !.warning = FALSE]
                 ELSE dialog

\* maybeConnectToRemote: with the setting on, the key is looked up first.
MaybeConnect(c, p, target) ==
    /\ job[c].pc = "new"
    /\ IF p.kind = "ssh" /\ dialog.prompt
       THEN /\ job' = [job EXCEPT ![c] = [NoJob EXCEPT !.pc = "check", !.p = p, !.target = target]]
            /\ UNCHANGED dialog
       ELSE Connecting(c, p, FALSE, target)

ParamsOf(row, secret, save, id) ==
    [kind |-> row.kind, host |-> row.host, secret |-> secret, save |-> save, id |-> id]

\* The "Local" card; none of the cards is disabled while connecting.
SelectLocal(c) ==
    /\ dialog.open /\ dialog.step = "type" /\ job[c].pc = "new"
    /\ Connecting(c, ParamsOf(Local, FALSE, FALSE, None), FALSE, None)
    /\ UNCHANGED <<keyVars, form, reconnect, confirm, recents, dataVars, upsets, history>>

\* Mutant: the record a form was opened for is not dropped.
SelectKindKeepsRecord(k) ==
    /\ dialog.open /\ dialog.step = "type"
    /\ dialog' = [dialog EXCEPT !.step = "form"]
    /\ form' = [form EXCEPT !.kind = k]
    /\ UNCHANGED <<keyVars, reconnect, confirm, recents, job, dataVars, upsets, history>>

\* The "SSH" and "WinRM" cards: a fresh connection, with the fields as they were.
SelectKind(k) ==
    /\ dialog.open /\ dialog.step = "type"
    /\ dialog' = [dialog EXCEPT !.step = "form"]
    /\ form' = [form EXCEPT !.kind = k]
    /\ reconnect' = None
    /\ UNCHANGED <<keyVars, confirm, recents, job, dataVars, upsets, history>>

\* Connect of a record's row.
RowReady(i) ==
    /\ dialog.open /\ dialog.step = "type"
    /\ recents[i] # None /\ dialog.status # "connecting"

\* A saved tmux session of this machine: no form and no host key.
ConnectLocalSaved(i, c) ==
    /\ RowReady(i) /\ recents[i].row.kind = "local" /\ job[c].pc = "new"
    /\ Connecting(c, ParamsOf(Local, FALSE, FALSE, i), FALSE, i) /\ Meets(i)
    /\ UNCHANGED <<keyVars, form, reconnect, confirm, recents, dataVars, upsets,
                   accepted, edited, carried>>

ApplyHostToForm(row) == form' = row

\* A host with a stored password is dialled at once; reconnectHost stays what it was.
Reconnect(i, c) ==
    LET r == recents[i].row IN
    /\ RowReady(i) /\ r.kind # "local" /\ recents[i].cred /\ job[c].pc = "new"
    /\ ApplyHostToForm(r)
    /\ MaybeConnect(c, ParamsOf(r, FALSE, FALSE, i), i) /\ Meets(i)
    /\ UNCHANGED <<keyVars, reconnect, confirm, recents, dataVars, upsets,
                   accepted, edited, carried>>

\* A host without one goes through the form, to be saved under the same record.
FormForHost(i) ==
    LET r == recents[i].row IN
    /\ RowReady(i) /\ r.kind # "local" /\ ~recents[i].cred
    /\ ApplyHostToForm(r) /\ reconnect' = i
    /\ dialog' = [dialog EXCEPT !.step = "form"]
    /\ UNCHANGED <<keyVars, confirm, recents, job, dataVars, upsets, history>>

\* The Connect button and the Enter key of the form.
CanConnect ==
    /\ dialog.open /\ dialog.step = "form" /\ form.kind # "local"
    /\ dialog.status # "connecting"

Edit(host) ==
    /\ form' = [form EXCEPT !.host = host]
    /\ edited' = IF reconnect # None /\ host # form.host THEN edited \cup {reconnect} ELSE edited

(* The host, password and check box are those the user has made by then.   *)
(* No login without a password: one that is neither typed nor stored is    *)
(* not different from a wrong one.                                         *)
Connect(c, host, secret, save) ==
    /\ CanConnect /\ job[c].pc = "new"
    /\ secret \/ reconnect # None
    /\ Edit(host)
    /\ \E target \in IF reconnect # None THEN {reconnect}
                     ELSE IF save THEN Ids \ minted ELSE {None} :
          /\ MaybeConnect(c, ParamsOf(form', secret, save, reconnect), target)
          /\ minted' = IF save /\ reconnect = None THEN minted \cup {target} ELSE minted
          /\ Meets(target)
    /\ UNCHANGED <<keyVars, reconnect, confirm, recents, saved, secretOf, removing, upsets,
                   accepted, carried>>

\* CheckHostKeyTrust answers, or cannot reach the host.
CheckAnswer(c) ==
    LET p == job[c].p IN
    /\ job[c].pc = "check"
    /\ \/ /\ Connecting(c, p, FALSE, job[c].target)
          /\ UNCHANGED confirm
       \/ \E hosts \in LoadKnownHosts :
             /\ ~IsKnown(p.host, hosts)
             /\ IF dialog.open
                THEN /\ confirm' = [p |-> p, target |-> job[c].target,
                                    changed |-> IsChanged(p.host, hosts)]
                     /\ dialog' = [dialog EXCEPT !.step = "hostKeyConfirm"]
                ELSE UNCHANGED <<confirm, dialog>>
             /\ job' = [job EXCEPT ![c] = NoJob]
    /\ UNCHANGED <<keyVars, form, reconnect, recents, dataVars, upsets, history>>

AtConfirm == dialog.open /\ dialog.step = "hostKeyConfirm" /\ confirm # None

AcceptHostKey(c) ==
    /\ AtConfirm /\ ~confirm.changed /\ dialog.status # "connecting" /\ job[c].pc = "new"
    /\ Connecting(c, confirm.p, TRUE, confirm.target)
    /\ Meets(confirm.target)
    /\ accepted' = accepted \cup {confirm.p.host}
    /\ UNCHANGED <<keyVars, form, reconnect, confirm, recents, dataVars, upsets, edited, carried>>

\* Back to the form, which keeps the record it was opened for.
RejectHostKey ==
    /\ AtConfirm
    /\ confirm' = None
    /\ dialog' = [dialog EXCEPT !.step = "form"]
    /\ carried' = IF reconnect = None THEN carried ELSE carried \cup {reconnect}
    /\ UNCHANGED <<keyVars, form, reconnect, recents, job, dataVars, upsets,
                   accepted, disturbed, edited>>

-----------------------------------------------------------------------------
(* OpenRemoteTerminal. *)

Goto(c, pc) == job' = [job EXCEPT ![c].pc = pc]
Over(c)     == job' = [job EXCEPT ![c] = [NoJob EXCEPT !.pc = "over"]]

\* The catch of a connection attempt.
Fail(c) ==
    /\ Over(c) /\ dialog' = IF dialog.open THEN [dialog EXCEPT !.status = "error"] ELSE dialog
    /\ UNCHANGED <<keyVars, form, reconnect, confirm, recents, dataVars, upsets, history>>

NeedsStored(p) == p.id # None /\ ~p.secret /\ p.kind # "local"

(* resolveRemoteCredentials reads the stored password; an SSH connection   *)
(* then has the host's key verified.                                       *)
Dial(c) ==
    LET p == job[c].p IN
    /\ job[c].pc = "open"
    /\ NeedsStored(p) => secretOf[p.id] # None
    /\ job' = [job EXCEPT ![c].pc = "dial",
                          ![c].used = IF NeedsStored(p) THEN secretOf[p.id] ELSE None]
    /\ IF p.kind = "ssh" THEN Present(c, p.host, job[c].trust) ELSE UNCHANGED keyVars
    /\ UNCHANGED <<uiVars, dataVars, upsets, history>>

\* The password cannot be read, the host does not answer, its key or the login is refused.
OpenFails(c) ==
    /\ job[c].pc \in {"open", "dial"} /\ dial[c].stage \notin {"verify", "pin"}
    /\ Fail(c)

\* What follows a session that opened: save, touch, or nothing.
NextCall(p) == IF p.id # None /\ ~p.save THEN "touch" ELSE IF p.save THEN "save" ELSE "over"

(* The last continuation: the tab is added and the dialog closed, whichever *)
(* session of it is open; a warning keeps it open.  The local path asks the *)
(* saveWarning of the render it was started in instead.                     *)
Finish(c, warned) ==
    LET stays == IF job[c].p.kind = "local" THEN job[c].stale /\ job[c].p.id # None ELSE warned IN
    /\ Over(c)
    /\ IF stays /\ dialog.open
       THEN /\ dialog' = [dialog EXCEPT !.warning = @ \/ warned]
            /\ UNCHANGED <<form, reconnect, confirm, recents>>
       ELSE Shut

\* The login succeeds: a stored password opens the host it was saved for.
Opened(c) ==
    LET p == job[c].p IN
    /\ job[c].pc = "dial"
    /\ p.kind = "ssh" => dial[c].stage = "accepted"
    /\ NeedsStored(p) => job[c].used = p.host
    /\ IF NextCall(p) = "over"
       THEN Finish(c, FALSE)
       ELSE Goto(c, NextCall(p)) /\ UNCHANGED uiVars
    /\ UNCHANGED <<keyVars, dataVars, upsets, history>>

-----------------------------------------------------------------------------
(* Saving and forgetting records. *)

\* SaveRemoteHost up to the file; a forgotten record comes back.
SaveEntry(c) ==
    LET p == job[c].p IN
    /\ job[c].pc = "save"
    /\ saved' = [saved EXCEPT ![job[c].target] = [kind |-> p.kind, host |-> p.host]]
    /\ IF p.secret
       THEN Goto(c, "secret") /\ UNCHANGED uiVars
       ELSE Finish(c, FALSE)
    /\ UNCHANGED <<keyVars, secretOf, removing, minted, upsets, history>>

\* The password under the record's id.
SaveSecret(c) ==
    /\ job[c].pc = "secret"
    /\ secretOf' = [secretOf EXCEPT ![job[c].target] = job[c].p.host]
    /\ Finish(c, FALSE)
    /\ UNCHANGED <<keyVars, saved, removing, minted, upsets, history>>

\* The file or the keychain cannot be written: the session stays, with a warning.
SaveFails(c) ==
    /\ job[c].pc \in {"save", "secret", "touch"}
    /\ Finish(c, TRUE)
    /\ disturbed' = IF job[c].pc = "secret" THEN disturbed \cup {job[c].target} ELSE disturbed
    /\ UNCHANGED <<keyVars, dataVars, upsets, accepted, edited, carried>>

\* TouchRemoteHost finds the record, or warns that it is gone.
Touch(c) ==
    /\ job[c].pc = "touch"
    /\ Finish(c, saved[job[c].p.id] = None)
    /\ UNCHANGED <<keyVars, dataVars, upsets, history>>

\* The cross of a row: ForgetRemoteHost.
Forget(i) ==
    /\ dialog.open /\ dialog.step = "type" /\ recents[i] # None
    /\ removing[i] = "no" /\ upsets < MaxUpsets
    /\ removing' = [removing EXCEPT ![i] = "entry"]
    /\ upsets' = upsets + 1
    /\ Meets(i)
    /\ UNCHANGED <<keyVars, uiVars, job, saved, secretOf, minted, accepted, edited, carried>>

ForgetEntry(i) ==
    /\ removing[i] = "entry"
    /\ saved' = [saved EXCEPT ![i] = None]
    /\ removing' = [removing EXCEPT ![i] = "secrets"]
    /\ UNCHANGED <<keyVars, uiVars, job, secretOf, minted, upsets, history>>

\* The file cannot be written: nothing happened, and a failed call is not counted.
ForgetFails(i) ==
    /\ removing[i] = "entry"
    /\ removing' = [removing EXCEPT ![i] = "no"]
    /\ upsets' = upsets - 1
    /\ dialog' = [dialog EXCEPT !.warning = dialog.open]
    /\ UNCHANGED <<keyVars, form, reconnect, confirm, recents, job, saved, secretOf, minted,
                   history>>

\* Mutant: the password is left in the keychain.
ForgetSecretsNot(i) ==
    /\ removing[i] = "secrets"
    /\ removing' = [removing EXCEPT ![i] = "no"]
    /\ UNCHANGED dialog /\ Refresh
    /\ UNCHANGED <<keyVars, form, reconnect, confirm, job, saved, secretOf, minted,
                   upsets, history>>

\* The passwords go too, errors ignored, and the list is fetched again.
ForgetSecrets(i) ==
    /\ removing[i] = "secrets"
    /\ removing' = [removing EXCEPT ![i] = "no"]
    /\ UNCHANGED dialog /\ Refresh
    /\ \/ secretOf' = [secretOf EXCEPT ![i] = None] /\ UNCHANGED disturbed
       \/ disturbed' = disturbed \cup {i} /\ UNCHANGED secretOf
    /\ UNCHANGED <<keyVars, form, reconnect, confirm, job, saved, minted, upsets,
                   accepted, edited, carried>>

-----------------------------------------------------------------------------
\* The user goes on while there is an attempt to make.
User ==
    \/ Close
    \/ \E i \in Ids : Forget(i)
    \/ /\ \E c \in Conns : job[c].pc = "new"
       /\ \/ \E h \in Remote : Open(h)
          \/ Back
          \/ \E k \in Kinds : SelectKind(k)
          \/ \E i \in Ids : FormForHost(i)
          \/ RejectHostKey
    \/ \E c \in Conns :
          \/ SelectLocal(c) \/ AcceptHostKey(c)
          \/ \E i \in Ids : ConnectLocalSaved(i, c) \/ Reconnect(i, c)
          \/ \E h \in Hosts, s, b \in BOOLEAN : Connect(c, h, s, b)

Verifying(c) == (Verify(c) \/ Pin(c) \/ PinFails(c)) /\ UNCHANGED <<uiVars, job, dataVars, upsets, history>>

\* The steps a connection attempt takes by itself.
Attempt(c) ==
    \/ CheckAnswer(c) \/ Dial(c) \/ Verifying(c) \/ OpenFails(c) \/ Opened(c)
    \/ SaveEntry(c) \/ SaveSecret(c) \/ SaveFails(c) \/ Touch(c)

Backend ==
    \/ SettingsAnswer
    \/ \E i \in Ids : ForgetEntry(i) \/ ForgetFails(i) \/ ForgetSecrets(i)

\* Of a host without a pinned key it would not be noticed.
HostRekeyed(h, key) ==
    /\ upsets < MaxUpsets /\ known[h] # None /\ Rekey(h, key)
    /\ upsets' = upsets + 1
    /\ UNCHANGED <<uiVars, job, dataVars, history>>

Next ==
    \/ User \/ Backend
    \/ \E c \in Conns : Attempt(c)
    \/ \E h \in Hosts, key \in Keys : HostRekeyed(h, key)

Spec == Init /\ [][Next]_dlgVars
-----------------------------------------------------------------------------
(* With "prompt for new host keys" on, a key is in known_hosts.yaml only    *)
(* if the user accepted the host's prompt, even while the dialog does not   *)
(* know the setting yet or its prompt was overtaken.                        *)
PromptedKeysAreAccepted ==
    promptNew => \A h \in Hosts : known[h] # None => h \in accepted

(* A stored password belongs to the record under its id: it opens the host *)
(* of that record, and none is left of a forgotten record.                 *)
SecretFollowsRecord ==
    \A i \in Ids \ disturbed :
        ~Busy(i) /\ secretOf[i] # None => saved[i] # None /\ saved[i].host = secretOf[i]

\* Record i is given another host in this step.
Moved(i) == saved[i] # None /\ saved'[i] # None /\ saved'[i].host # saved[i].host

(* A saved record is given another host only if the user typed one into a  *)
(* form opened for that record, or refused a key while one was open.       *)
RecordKeepsItsHost == [][\A i \in Ids : Moved(i) => i \in edited \cup carried]_dlgVars

(* The same with no exception for a refused key, after which the form of   *)
(* one record holds the fields of another connection.                      *)
RecordKeepsItsHostAlways == [][\A i \in Ids : Moved(i) => i \in edited]_dlgVars
===============================================================================
