# PairAdmin in TLA+

PairAdmin is a desktop terminal assistant: a Go backend (`src/services`) and a
React frontend (`src/frontend/src`) in one Wails process.  The frontend calls
bound Go methods, each call on a goroutine of its own, and gets a promise; the
backend pushes events (`llm:*`, `scan:*`, `terminal:*`, `pty:*`), delivered one
at a time on the browser's event loop.  The two paths are not ordered with
respect to each other.  Most of what can go wrong comes from this: goroutines
that share a service without a lock, answers and events that overtake each
other, and files written in several steps.

Line numbers below and in the modules' comments are those of the sources.

## 1. Inventory

### Request path of the LLM - `services/llm_service.go`, `services/llm/*.go`
- *State:* `LLMService.cfg` and `.activeProvider` (no lock), the channel and the
  context of each request, the audit log; it reads `config.yaml` on each request.
- *Operations:* `SendMessage` (nil check, policy check, audit entry, goroutine),
  the goroutine (stream, batches of 50 ms, terminal event, five-minute context),
  the adapters' goroutines, `RebuildProvider` called by `SaveSettings`,
  `SetModel`, `SaveAPIKey`, `LoadAPIKeys`; `FilterCommand`; `RunTest`.
- *Interactions:* called by the chat, emits `llm:chunk|done|error`, reads the
  configuration and the keys, writes the audit log.
- *Hard:* the provider is rebuilt between the check and its use; the channel is
  full when the provider fails; a provider hangs; `config.yaml` is read between
  truncation and write.
- *Correct when:* a request is permitted and audited before its provider is
  called; its events are whole, in order and ended once; it ends; a saved
  setting is in force.

### Chat frontend - `hooks/useLLMStream.ts`, `stores/chatStore.ts`, `components/chat/ChatPane.tsx`
- *State:* messages per tab, the activity indicator, the refs of the hook (the
  current message, the next number, chunks that came early), the active tab.
- *Operations:* send, the rejection of a send, three event handlers, tab
  switch, `/clear`.
- *Hard:* events carry neither request nor tab; two requests overlap; the user
  switches or clears while a response is on its way.
- *Correct when:* a response nobody disturbed is shown exactly once and whole;
  pieces are never reordered; the indicator is on while a request is out and
  goes off.

### Network scanner - `services/scanner/service.go`; panel - `stores/scannerStore.ts`, `hooks/useScanner.ts`, `components/scanner/NetworkPanel.tsx`
- *State:* `cancels` (id -> cancel function), the context, semaphore, wait group
  and counters of a sweep; in the panel the active scan, status, rows, progress.
- *Operations:* `Start`, `Stop`, the sweep (targets, acquire, dispatch, join,
  terminal event, unregister), a probe, the progress ticker; Search, Stop and
  five event handlers.
- *Hard:* a stop at any point of the sweep; a full semaphore; a terminal event
  before the answer of `Start`; two scans at once.
- *Correct when:* rows come before the one terminal event, each pair once;
  *done* means all were reported; a stop takes hold; the panel shows what a scan
  found and leaves "scanning".

### Keychain and master password - `services/keychain/*.go`, `App.tsx`, `components/settings/*MasterPassword*`
- *State:* the OS backend, the file backend's items, the hash file, `masterPW`,
  the cached ring (under a mutex) and the password each ring captured; the
  gate's status and the dialog's.
- *Operations:* `NeedsMasterPassword`, `ring`, `Get`, `Set`, `Remove`,
  `SetMasterPassword`, `VerifyMasterPassword`, `ChangeMasterPassword`
  (`reencryptFileItems`), `RemoveAll`; the gate's effect, submit and retry.
- *Hard:* two probes on one canary item; a choice cached before the gate has
  decided; a crash or a failed write between two items; `Set` beside a change.
- *Correct when:* a working keychain is used; keys are loaded unlocked; the gate
  is decided and passed; items stay readable; a retry completes; `Get` answers
  what was stored.

### Configuration, Settings dialog, connection status - `services/config/config.go`, `services/settings_service.go`, `components/settings/*Tab.tsx`, `utils/settingsSync.ts`, `utils/connectionProbe.ts`
- *State:* one YAML file, without a lock; in the frontend the mounted tab with its
  provider, key and buttons, and the status
  `checking|connected|disconnected|disabled`.
- *Operations:* get, merge and save by five tabs; `SetModel`, `SetContextLines`
  and `SavePinnedCommands` in Go; load, switch and test of a provider; a probe at
  startup and after a save, and the status that a chat leaves.
- *Hard:* two read-modify-writes of the whole file at once, each of which truncates
  it first; a late key status or `GetSettings` in a tab the user has changed; two
  probes in flight and an opt-out in between, before or after they have read the
  file; a refused `GetSettings`.
- *Correct when:* saves that do not meet lose nothing, a tab's save never undoes
  Save Pinned, the opt-out stays shown (the code keeps this against tests and chats
  only), a key is stored under its own provider's name, *Checking* has a probe
  behind it once one has got the settings.

### Remote hosts and the New Terminal dialog - `components/terminal/NewTerminalDialog.tsx`, `services/remote_service.go`
- *State:* the dialog's step, fields, the record it was opened for, the key to
  confirm, the recent hosts; a host's entry in `config.yaml` and its secret in
  the keychain.
- *Operations:* open, close, back, choose a kind, a recent host or a reconnect,
  edit, connect, the host key check, accept and reject, open a session, save,
  touch and forget the host.
- *Hard:* the dialog stays mounted, so an answer can come back to another showing
  of it; saving and forgetting have two steps, each of which can fail.
- *Correct when:* a stored password opens the host of its record, a record gets
  another host only from the user, the user is asked before a key is trusted.

### Host keys - `services/remote_ssh.go`, `services/config/knownhosts.go`
`known_hosts.yaml`, loaded, checked and rewritten as a whole by each connection's
callback.  *Hard:* two connections at once.  *Correct when* a host accepted with
one key is not accepted with another.

### Terminals - `services/capture`, `services/pty_service.go`, `services/remote_ssh.go`, `services/remote_winrm.go`, `stores/terminalStore.ts`, `components/terminal/*`
- *State:* panes found and read by polling (`CaptureManager`), with a count of
  misses and the last text sent; sessions opened by the user (`PTYService`:
  local, SSH, WinRM) with their output pumps; the tabs, the active one, their
  previews, names and saved hosts; the keyboard focus.
- *Operations:* the poll's tick and a forced one; open, exit, close; the
  `terminal:*` and `pty:closed` handlers; choose, rename and save a tab; F-keys.
- *Hard:* two ticks at once; close, exit and a second click on one session; an
  end handled before its tab exists; a tabs event that names only the panes.
- *Correct when:* a session's handles are closed once, tabs and live sessions
  agree, the active tab exists, a preview catches up with its pane.

### Command cards - `stores/commandStore.ts`, `components/sidebar/*`, `hooks/useQuickSelect.ts`, `services/commands.go`
- *State:* the cards, the pinned ones in `config.yaml`, the chord and the cards
  it shows F-keys on.
- *Operations:* add, edit, pin, remove, reorder, clear, use; Save Pinned and the
  restore at startup; chord and F-key.
- *Hard:* an end of the application between the two halves of a save; a restore
  that is answered after later saves; a list of cards made when the chord went
  down; text for one use taken by whoever is first.
- *Correct when:* the list saved last comes back (the code loses it when a later save
  is cut short), a text for one use is sent
  once, an F-key uses the card that shows it.

### Copy Mode - `components/terminal/CopyModeDialog.tsx`, `utils/terminalContext.ts`
A frozen text of the active terminal and, on demand, what the LLM would get of
it.  *Hard:* filter calls answered out of order, also after the overlay was
closed and opened again.  *Correct when* the filtered view shows the answer to
the newest request and nothing of an earlier showing.

### The rest
Policy engine, scan targets, output filters, prompt context, adapters of capture
(tmux, AT-SPI2, Windows), host probes, audit file, elevation, Windows PTY and
clipboard, the text of views: section 6 and `components` in `PROJECT.json` say
why each is left out.

## 2. Modules

| module | what it models | theorems in |
|---|---|---|
| `LLMService` | `SendMessage`, its goroutine, an adapter's goroutine, `SaveSettings`/`SetModel` with `RebuildProvider`, step by step | `LLMServiceProofs` |
| `LLMChat` | `LLMService` composed with `ChatPane`, `useLLMStream`, `chatStore` | `LLMServiceProofs` |
| `ScanLifecycle` | abstract: what a scan promises | |
| `ScanService` | `ScanService.Start`, `Stop`, `run` and its goroutines | `ScanServiceProofs` |
| `ScanPanel` | `ScanService` composed with the panel and its store | `ScanServiceProofs` |
| `StartupGate` | backend probe, `ring()` cache, gate, dialog, load of the keys | `StartupGateProofs` |
| `MasterPassword` | file backend, hash file, `Get`/`Set`/`Remove` beside set, verify, change; crashes | `MasterPasswordProofs` |
| `HostKeys` | trust on first use by concurrent connections, `known_hosts.yaml` | `HostKeysProofs` |
| `ConnectDialog` | `HostKeys` composed with the New Terminal dialog, the saved hosts and their secrets | `HostKeysProofs` |
| `CaptureManager` | the poll loop's tick beside a forced one, the events | |
| `Terminals` | `CaptureManager` composed with tabs, previews, sessions, focus, F-keys | `TerminalsProofs` |
| `Settings` | `config.yaml` under the tabs and the Go calls that rewrite it, the LLM tab, the status | `SettingsProofs` |
| `CopyMode` | the Copy Mode overlay and its filter calls | `ViewProofs` |
| `Commands` | command cards, Save Pinned and restore, quick select | `ViewProofs` |
| `MC*` | constants for TLC | |

### How state and actions correspond to the code

`PROJECT.json` maps each definition to the lines it stands for.  In outline:

**LLMService.** `cfg` and `active` are `s.cfg.Provider` and `s.activeProvider`;
`disk` and `torn` are `config.yaml` (a reader sees the empty configuration while
some saver has truncated it).  A saver runs `LoadForSave`, `Truncate`, `Write`,
`Reload`, `AssignCfg`, `AssignProvider`: one action for each access another
goroutine can come between.  A request runs `SeeProvider`, `CheckRequest`,
`AuditUserMessage`, then its goroutine `StartStream` or `StreamOnNil` (the
second read of the field), `ReceiveText`, `ReceiveDone`, `ReceiveError`, `Tick`,
`Abandon`: the cases of the `select`, each with its flush.  `SendText`,
`SendDone`, `SendError`, `CloseOnCancel` are the adapter's sends into the bounded
channel, `Expire` the context's timer.  Text is counted: a chunk event carries
the range of pieces it flushes.

**LLMChat.** `hook` holds the three refs of `useLLMStream`; `Send`,
`HandleRejection`, `Clear`, `SwitchTab` are the user's side, `Deliver` hands the
next event to `HandleChunk`, `HandleDone` or `HandleError`.  `company`, `moved`,
`afterTimeout` remember which requests were disturbed; the properties about a
"quiet" request are about the others, and the undisturbed ones race with nothing
but their own goroutines.

**ScanService, ScanPanel.** `phase` is the program counter of `run`, `Busy` the
semaphore, `tally` and `finished` the counters, `registered` the map `cancels`.
The probes of a sweep run `Resolve`, `Report`, `Finish` beside each other; events
go through `queue`, the answer of `Start` does not.  `ScanService` implements
`ScanLifecycle` with `status` read off the phase and the outcome
(`LifecycleKept`).

**StartupGate.** A probe is `OpenOS`, `SetCanary`, `GetCanary`, `RemoveCanary`;
there are at most two, the gate's and the one under `ring()`'s mutex.  `Outcome`
says what the caller does with it: the gate gets an answer, `ring()` caches.
Three clients read keys: the status probe, the load after a gate passed or a
successful retry, and the load after a submit.

**MasterPassword.** `captured` is what the library keeps inside an opened keyring
at its first use.  A caller's `Get`, `Set` or `Remove` is two steps: `OpenRing`
(under the mutex) and the library's call.  The owner's call goes through
`ListKeys`, `ReadOld`, `CheckNew`, `WriteNew` per item, `Listed`, `WriteHash`,
`Hold`, `Invalidate`; `WriteFails` and `Crash` cut it short.

**HostKeys, ConnectDialog.** `dial[c]` is the host key callback of connection `c`:
`Present`, `Verify` (load, look up, decide), `Pin` or `PinFails` (write the map
that was loaded).  `job[c]` is the dialog's chain of awaits for one connection:
`Connect`, the host key check (`CheckAnswer`), the session (`Dial`, `Opened`), then
`SaveEntry` and `SaveSecret`, or `Touch`.  `dialog`, `form`, `reconnect`, `confirm`
and `recents` are the component's state, cleared by `Reset` and `Shut` as the
effect on `open` does; a job's `stale` says that its showing of the dialog is over
and its answer finds another.  `Forget` is two steps like a save.

**CaptureManager, Terminals.** `tick[k]` is where a tick is: `Discover`, `Merge`
under the mutex, `EmitTabs` after it, `Capture`, `Publish` under the mutex again.
`events` are handled one at a time (`Handle`); `Become` is what a change of the
store leads to before the next one: previews unmounted, focus lost, effects run.
A session is `Open`, `Register`, `TabAdded` (the dialog's `addTab`, which comes
after other awaits), `Dies`; its pumps are `PumpTakes` and `PumpCloses`, a click on
the close button `Close`, `CloseTakes`, `CloseReleases`, `CloseAnswered`.

**Settings.** `saves[i]` is the chain of one save through its stages: `MergeRead`
(the tab's `GetSettings`), `SaveLoad` and the write that follows in Go, and for the
LLM tab the key and `LoadAPIKeys`; `SetModel`, `SetContextLines` and Save Pinned are
the last two alone.  `form` and `llm` are the mounted tab; `Left` makes the answers
of an unmounted one find nothing.  `probes` are the calls of `probeLLMConnection`:
`ProbeRead` is `GetSettings` in Go, `ProbeClaim` the handling of its answer, any time
later, `ProbeRefused` its rejection, `ProbeAnswered` the guarded result of the test.
Each read of the file takes one of `Readings`: the file, or the empty one while
another call is between load and write.

**CopyMode.** `calls` are the `FilterText` calls in flight, each with the value
`filterRequestRef` had; `Applied` is the comparison their answer makes.  `Commands`:
`cards` is the store, `items` and `badges` the list and the labels made when the
chord goes down, `Restart` all that a new start finds, whether the application was
quit or killed.  Save Pinned is `handleSavePinned`, `Truncate` and
`SavePinnedCommands`, with `SaveFails` before or after the truncation; the restore is
`RestoreRead` and, later, `RestorePinned`.

### Abstractions, each with what it leaves out

- Wails delivers events in order, one at a time; calls and events are unordered.
- A data race on an interface value (`activeProvider`) is read as the old value,
  the new one or nil; a torn pair of words is not modelled.
- An adapter is not followed once the loop that reads it has returned; nobody
  sees what it does then.
- The audit log is the set of its entries.  Of a tab's messages only the
  assistant's are kept.  The subscription of `useLLMStream` to another tab is one
  step with the switch.
- The scanner's policy may allow or refuse each scan (the live setting and the
  snapshot are not told apart); the generation of an id does not fail.
- Calls of the keyring library are atomic, a file written by it is old or new.
  The text of the hash file is a password or nothing; `scrypt` does not fail.
- The startup effect runs once (production build, no StrictMode).
- The fields of `config.yaml` are one value for each of its writers.  Its writes
  are atomic in `ConnectDialog`.  In `Settings` a file is seen truncated by whoever
  reads it between another call's load and write, and stays so when the write fails;
  the application is not killed there, as nothing said of it spans two starts.  In
  `Commands`, which may be killed, truncation and write are two steps, and Save
  Pinned is the only writer: what the writers of the other settings can do to the
  pinned commands is in `Settings`.
- A tab's merge and the mount of the LLM tab take the answer of `GetSettings` with
  its read: of what they read nothing goes further but by later steps of their own.
- Before the load that follows a submit has ended, the dialog's button makes no second
  retry and no second submit (`StartupGate`): the reset of the dialog after a submit
  would allow a retry beside the one under way.
- `NewCredentialFilter` never returns an error (`credential.go` 104), so its failure
  in `SendMessage` is left out.
- A password is known by the host it opens; port, user and tmux session go with
  the host.  Host keys are compared for one host at a time: all hosts present the
  same key at first.
- There is one capture adapter; a pane's text is a version number and its hash the
  same.  The up to four captures of a tick are one step.  React renders a change
  of the store before the next event is handled.
- In `CopyMode` the terminal is a version number too, and both reads of the
  context line count have been answered.  Filtering is the identity on what a text
  is known by; it may fail.
- The dialogs over the command cards are modal, so opening one, typing and saving
  is one action; a card's name, question and time decide nothing.

## 3. Runs

| run | shows | bounds |
|---|---|---|
| `llm_service` | only permitted, audited requests reach a provider; a save is in force; a request ends | 1 request, 2 saves, 1 edit of the policy, a provider and the opt-out, 1 piece, channel of 1 |
| `llm_chat` | the events of a request are whole, numbered, ended once; the chat shows what a quiet request got; the indicator | 2 requests, 2 tabs, 1 switch or clear, 2 pieces, channel of 2 |
| `scan_panel` | every scan keeps `ScanLifecycle`; a stop takes hold; the panel lists a done scan and settles | one scan of 3 pairs with 2 slots, or two scans of 1 pair or a bad list; 1 tick |
| `startup_gate` | a working keychain is found unless probes meet; loads are unlocked; the gate is decided and passed | every start state, 2 changes of the OS keychain, 2 keys |
| `master_password` | items stay under a known password, the same change completes, `Get` answers what was stored | 2 items, 2 values, 3 passwords, 2 changes, 2 interruptions, 1 caller, 2 rings |
| `connect` | keys are prompted and kept, a secret and a record's host stay what the user made them | 2 connections, 2 hosts, 2 keys, 2 record ids of which 1 may be saved at first, 1 upset |
| `terminals` | a session is released once and takes its tab along; the active tab exists; a preview catches up | 2 panes (1 unreadable), 1 session of either kind, poll and 1 forced tick, 2 clicks on a close button, 3 moves |
| `settings` | saves apart lose nothing; tabs keep the pinned commands; the opt-out stays shown against tests and chats; keys go with providers; a probe with the settings ends *Checking* | 2 providers and the opt-out, the LLM tab and 1 other, 2 saves, each of which may fail at any stage, 2 key status calls, 3 moves |
| `copy_mode` | the filtered view shows the newest request's answer, of this showing; *Filtering* ends | 2 showings, 3 requests, 2 changes of the terminal, 1 copy, 1 `/context` |
| `commands` | of lists saved one after another the last that was read comes back, through failures and ends of the application; a text for one use is sent once; an F-key uses its card | 2 cards of 2 texts and those restored, 1 edit for one use, 3 saves, each of which may fail before or after truncating, 5 moves, 1 restart, the texts symmetric |
| `nil_provider` | *violated*: a provider disabled after the check is called as nil | 1 request, 1 save |
| `refused_key_carry` | *violated*: after Back and a rejected key, Connect writes one host over another's record | 2 saved hosts, no upset |

*Why the bounds are enough.*  Channel, semaphore and batches behave differently
when empty, partly full and full: capacity 1 or 2 with one piece or pair more
reaches all three.  Two requests are the least that overlap, and a hook or store
has one current request whatever their number.  A sweep's interesting moments
are before, at and after the last pair with a slot waiting: three pairs on two
slots.  Two saves at once really do leave memory and file apart (`RebuildProvider`
is not atomic), so `llm_service` has two and `SaveTakesEffect` is claimed of one that
met no other; saving a provider or the opt-out are the two values that tell a new
choice from the old one.  At startup at most two probes exist, one
retry at a time (section 2), so nothing else is left out but the number of keys and of
keychain changes.  A change of
password treats items one by one: with two, one can be behind and one ahead of a
crash; two interruptions let a retry be interrupted, three passwords let it have
another target.

Two connections are the least that meet on a file or find the dialog of another
showing; the second record is the one a form may be taken for, and one upset is a
reopening, a record forgotten or a host rekeyed in the middle of a connection.  A
session has at most two pumps, the button and a second click as callers of its
release, and one session's are apart from another's.  Two ticks are all that the
mutex lets overlap in an interesting way (a third one repeats the second), and
three moves let a pane appear, print and go, or print twice under an older
capture.  Two saves are the least that interleave; the third Save Pinned of
`commands` is there because only one of two that met is forgotten.  Its five moves
still let a card be added, pinned and saved, another be added and pinned, and a save
be cut short by the restart; its two texts may change places (symmetry), as none of
the formulas names one.  Three moves of `settings` let a tab be left, or a dialog
be opened and a provider be chosen, and a chat answer, beside two saves and the
three probes.  Three filter
calls are an old one, a newer one and one of the next showing.
  `winrm` hosts differ from `ssh` ones in presenting no host key and have
no other interleavings; the instance has `ssh` only.

*Deadlock* is not checked where the system may stop: all requests answered, all
scans ended, the gate passed, the user idle.  It is checked in `master_password`.

*Fairness.*  `LLMService`, `LLMChat`: weak fairness of the goroutine of each
request and of its timer (the Go scheduler and runtime), of the handling of a
rejection and of events (the event loop); none for the provider, the user or a
saver, so `RequestEnds` holds against a provider that never answers.
`ScanPanel`: some runnable goroutine of some scan runs (a dial has a deadline),
and the frontend handles answers and events; none for the user.  `StartupGate`:
a call of a backend returns (where the desktop asks to unlock its keychain, the
user answers), `sync.Mutex` lets every waiter in after finitely many others
(strong fairness of those that take it), answers are handled; none for the user.
`Terminals`: the poll's ticker fires, a tick that was begun goes on (the local
`tmux` command it runs returns), events are handled; none for sessions or the user.
`CopyMode`: `FilterText`, which only rewrites text, answers.  `ConnectDialog`,
`Settings`, `Commands`: none.  `TestConnection` has no deadline, so it is not said
that the indicator leaves *Checking*, only that some probe is there to end it.

### More configurations

These configurations are kept beside the runs.  The first checks what the proofs
and the runs rest on; the others each show a behaviour of the code that differs from
what a comment or a user would expect, as a counterexample.

| configuration | property | what it shows |
|---|---|---|
| `MCTerminalsTabs` | `TypeOK`, `OneRecordPerTab`, `TypingKeepsFocus` hold | a tab's host is recorded once unless a save of it is in flight; tabs do not take the focus from a text field |
| `MCLLMServiceFailure` | `FailureIsReported` fails | `openai.go` 91: an error with the channel full is dropped, the request ends as `llm:done` |
| `MCLLMChatTimeout` | `IndicatorClears` fails | `llm_service.go` 309: the five-minute limit ends the goroutine without an event, the indicator stays on |
| `MCScanPanelEarly` | `EndedScanIsNotActive` fails | a terminal event before the answer of `Start` leaves the panel scanning |
| `MCStartupGateRace` | `HealthyKeychainIsUsed` fails | two probes share one canary; a working keychain is refused |
| `MCStartupGateRetry` | `RetryLoadsFromKeychain` fails | a retry finds the keychain, the keys are read from the cached file backend |
| `MCMasterPasswordRace` | `ChangedMeansReadable` fails | a `Set` beside a change is left under the old password |
| `MCTerminalsFocus` | `FocusFollowsActiveTab` fails | an F-key changes the active tab and leaves the focus in another terminal |
| `MCCopyModeLines` | `FilteredIsWhatIsSent` fails | the overlay keeps the context line count of its mount, `/context` changes ChatPane's |
| `MCSettingsLate` | `OptOutStaysShown` fails | `connectionProbe.ts` 58 shows *Checking* when the answer of `GetSettings` comes, whatever is shown by then: one read before an opt-out was saved and shown overrules it, and the test then shows *Connected*, against the comment of 15-18 |
| `MCCommandsCut` | `PinsSurviveRestarts` fails | `config.go` 349 truncates the file and then writes it: an application that ends in between (or a write that fails) leaves no pinned command, not even those saved before, against the comment of 18-19 |

### Other things met while modelling

- `Stop` after the sweep's last look at its context (`service.go` 377) and before
  `run` unregisters returns nil and the scan ends as done, though the comment of
  `Stop` promises `scan:cancelled`; `ScanLifecycle` allows it, as every pair has
  been reported.  Nothing refuses a second scan (`NetworkPanel.tsx` 124, before the
  first `Start` has answered): the panel's properties are about scans that met no
  other.
- The blocking send of `Done` (`openai.go` 85) holds an adapter's goroutine for
  ever when the loop has returned with the channel full; nothing waits for it.
- A change of password cut short and tried again with a third one can leave an item
  under each (`keychain.go` 452); `RetryCompletes` is about the same change.
- A refused `GetSettings` (`connectionProbe.ts` 70) leaves *Checking*, the first value
  of the indicator, with no probe behind it: the exception of `CheckingHasProbe`.  The
  comment at 25-26 says so.
- `connectionProbe.ts` 56-62: of two probes the one that answers first leaves
  *Checking*, so a stale result can stand until the next save.  A terminals tab
  saved before its `GetSettings` has answered writes the defaults it was mounted
  with (`TerminalsTab.tsx` 23).
- `HotkeysTab` ends a capture at the first key, a modifier included; the timers of
  its label and of Save Pinned's (`CommandSidebar.tsx` 48) may end the label of a
  later save.
- `EditCommandDialog` loads the text anew when an F-key uses the card meanwhile.  A
  Save Pinned before the restore has answered saves a list without the restored
  cards.  An F-key for a tab closed since the chord makes it the active one.
- An overlay of Copy Mode opened over a filter call of an earlier showing shows its
  answer until it is asked again (the exception of `SessionsAreSeparate`).
- `NewTerminalDialog.tsx` 262: the handler looks at the `saveWarning` of its own
  render, so the dialog closes over a warning it has just set.
  `TerminalTab.tsx` 135: saving a tab twice before the first
  answer makes two records (the exception of `OneRecordPerTab`).
- `remote_winrm.go` 182: each completed line is written by a goroutine of its own,
  so lines of one paste may be reordered.  Output that comes before a preview has
  subscribed is lost (`TerminalPreview.tsx` 244, `remote_ssh.go` 316).
- A clipboard delay of 0 is taken for the default of 60 s (`commands.go` 105).

## 4. Theorems

TLAPS proves the following for every value of the constants, from the named
assumptions of the modules only (bounds are natural numbers, special values are
not ordinary ones, the application is started at least once, the null record is neither a record nor an id, there are more
keyrings than callers, rows saved at the start of a remote kind name a host, the
panes of one look at `tmux` are finitely many).  Each strengthening was checked by TLC on the
instance of the component's run before it was proved.

**LLMServiceProofs.**  `TypeCorrect`: the type invariant, with
`seq <= flushed <= received <= sent`, which is what makes it inductive.
`TerminalEventIsLast`: nothing follows the terminal event of a request; the
strengthening says that a request with a terminal event has left the loop and
cannot enter it again, and each loop step appends at most one terminal event,
last (`LoopStepEmits`, on top of `FlushFacts`).  `RequestsAreAudited`: a provider
is called only for audited requests and a refused one stays refused; each audit
entry is tied to the stage its request has reached (`AuditStep`).  `DoneIsWhole`:
what `llm:done` ends is whole and in the log.  `WholeInv` says that the chunks of a
request cover the pieces flushed so far and do not overlap, and that after a done
event nothing was left to flush; a step that emits nothing keeps it (`WholeKept`),
and one that appends at most a chunk and a terminal event does too (`WholeGrows`).
`SavesTakeEffect`: `SaveInv` follows a save that met no other: what it reloads is what
it wrote, and what it assigns and builds is that.

The module goes on with `LLMChat`, whose every step is a step of `LLMService` or none
(`ChatRunsTheService`), so what is proved of the one holds in the other.  `OrderInv`:
on the wire each chunk and the done event of a request go on where the events before
stop.  `PiecesStayInSequence` rests on `MessagesInv`, that a message's pieces are in
sequence and the one the hook writes to has as many as the hook has numbered;
`RunEnds` shows that the run of pending chunks is finite (among finitely many some
number is missing, and there is a least one).  `IndicatorStaysOn`: `SettledInv`, when a
request is settled and that what is still to be delivered belongs to one that is not;
`CompanyInv`, that two in flight have met.  `QuietResponsesShown`: `QuietInv`, that what
was delivered of a quiet request is what the hook has written to its tab, and that its
finished message is no longer the hook's and stays until the tab is cleared.

**ScanServiceProofs.**  `IInv` is the shape of the variables and five facts about
each scan: `PhaseInv`, what run knows at each phase; `StopInv`, that a stop freezes
the dispatch loop but for the pair it had already cleared (a slot that was
*checked*), and the rows but for the results already accepted; `ProbeInv`, that
the pairs dispatched are those before the next one and the loop's end finds none
busy; `CountInv`, that each counter is the cardinality of the pairs it stands for;
`DoneInv`, that of a scan nobody cancelled every completed pair was reported.  An
action of one scan leaves the others alone (`OthersKeep`, `SameKeeps`), so each is
proved for its own.  From it: `TypeCorrect`, `StopIsFinal`, `DoneIsComplete`, and
`ImplementsLifecycle`, the refinement: `InitMaps` and `StepMaps` map each action to
`Begin`, `Report`, `Stop`, `End` of `ScanLifecycle` or to a stutter.
`DoneScansAreListed` is about `ScanPanel`, whose steps are steps of `ScanService` or
leave it alone (`PanelMoves`, `PanelHolds`): `CallInv`, the call of `Start`, its answer
and the outcome handled; `QueueInv`, that each queued event says what its scan did and
a row or an outcome is queued once; `AloneInv`, that a last search which met no other is
the only one still open; `ListInv`, that each row it has reported is queued or, once, in
the panel.  `DoneCounts` says that a done scan has reported every pair, and `RowsCount`
that pairwise different rows 1 to n are n rows.

**StartupGateProofs.**  `IInv` adds to the type `CallInv`, that of the gate's
probe, its answer and its load one is under way, and who loads after a submit holds
the password; `EarlyInv`, that until the keychain changes a probe has passed only
where it is up; `OneInHand`, that probes that never met have one canary in hand;
and `HealthInv`, that a keychain which is up is then not taken for another.  From
it: `TypeCorrect`, `KeychainIsFound`, `LoadsUnlocked`.

**MasterPasswordProofs.**  One inductive invariant, `IInv`, of five parts:
the type; `OwnerInv`, what the owner's call knows at each step (the hash is the
old password until `WriteHash` and the new one after it) and that every call
beside a change is marked; `MemoryInv`, that the password in memory and those
captured by the cached keyring and by undisturbed calls are the hash file's, but
for the moment between `WriteHash` and `Invalidate`; `FreshInv`, that nothing is
stored before the first password; and, unless a `Set` or `Remove` ran beside a
change, `ItemInv` and `LoopInv`: each item is under the hash file's password or an
attempted one and holds what was stored, those the loop has passed are under the
new one, the one at `CheckNew` is not under the old one.  From it follow
`TypeCorrect`, `ItemsStayReadable`, `InterruptedChangeCanBeRetried` and
`GetIsRight`.

**HostKeysProofs.**  About every behaviour of `ConnectDialog`, of which only what
the host keys depend on is kept in `IInv`: `KeysInv` (types; as long as no file was
loaded beside a save, one connection at most is about to save and has loaded what
the file still holds, `TrustInv`; with the prompt on, whatever is or is about to be
in the file was accepted by the user, `PromptInv`), `JobInv` (a connection is
trusted for an accepted host only), `FormInv`, `RecentsInv` and `StoreInv` (a remote
row names a host wherever it is kept).  From it: `TrustOnFirstUse` and
`PinnedKeysWerePrompted`.  `RecordInv` is about the saved records: `CallsInv`, a call
that names a record is about it; `HostsInv`, there is one host for each record that
everything naming the record names (form, row, recent connection, call), until the
user edits it or a refused key carries it over; `SecretsInv`, one operation at a time
is under way on an undisturbed record and its row and password agree but between that
operation's two writes.  From it `SecretsFollowRecords` and `RecordsKeepTheirHost`.

**ViewProofs.**  About two views that share nothing.  For `CopyMode`, `IInv` is the type, `RequestInv` (the call with the newest
number carries the newest text) and `SessionInv` (what an open overlay holds or
waits for is of its own showing).  From it: `TypeCorrect`, `ShowsTheNewest` and
`ShowsItsOwn`.

For `Commands` the invariant is `CardsInv`: `ListInv`, that the cards have ids of
their own and a text for one use waits on one card at most, unsent (`Sound`); `SavedInv`,
that while no two saves met there is one in flight at most, of a later click than any
that was written (`SavesApart`), and the file holds the list of the last click that was
written or is torn; `OpeningInv`, that what the restore has read is the list that was
due, where that was sure; `KeysInv`, that badges are shown for the list the F-keys use;
and `PinsInv`, that after a restore into a list without pinned cards these are the texts
that were due, each once and in their order (`Matched`).  The restore is answered with
what it has read, so a save in between changes nothing of it; an end of the application
leaves the file and `torn` as they are, which is why a torn file is not sure.  Every step yields the new list from the old one by taking out,
putting in, moving or changing a card; `OnlyFacts` says what filtering a list does,
`InsertFacts` and `MovedFrom` what putting a card elsewhere does, `From` that nothing
came up twice.  The restore is a loop over the saved list: `RestoringNext` is one turn
of it.  Recursive functions are known to be what they compute by `Recursion`, and of the
turn that fails a least one is taken (`Least`).  From the invariant: `CardsTypeCorrect`,
`OverridesSentOnce`, `SavedPinsReturn` and `FKeysUseTheirCards`.

**SettingsProofs.**  `TypeInv` says of each save at each stage whose it is and which
fields it carries, and bounds the timers by the saves that are over.  What a read finds
is the file unless another call is between load and write (`ReadingsFacts`), and a write
that fails half way leaves the empty configuration as what each owner has last
(`Emptied`).  Beside it
`AloneInv`, what a save that met no other has read is what each owner wrote last;
`PinnedInv`, the same of the pinned commands and the two last stages; `OptOutInv`,
who may still write another status once the opt-out is stored, unless a probe has
overruled it with what it had read before.  `CheckingEnds` follows each probe from its
read, its answer and its test to its end: one that claims the indicator is under way
until it has said how it ended, and no save is probed before it is over (`UnprobedStep`).
From them:
`TypeCorrect`, `SavesMergeWhole`, `TabsKeepPinned`, `OptOutIsShown`, `CheckingEnds` and
`KeyGoesWithProvider`, which is all that the run `settings` checks.

**TerminalsProofs.**  `OwnedOnce`: a session is in the table, or in the hands of the
one caller that took it out, or released, and never two of these; so
`ReleasedOnce`, for any number of sessions and whatever the capture does beside them.
`TabsInv` gives the events in the queue their types (`EventTypes`) and says of each
session (`TabInv`) that what has been taken out of the table is still being ended, by
a pump, an event under way or an answered click, until its tab is gone.  From it
`TabsAndSessions`, and `ActiveStaysATab`, that every step keeps the active tab among
the tabs.  Both need what `Without`, `AddTabs` and `Remaining` do to the set of tabs;
`WithoutRange` is shown by taking the least length at which a counterexample exists.

*Only model-checked:* the properties with fairness (`RequestEnds`, `QuietScanSettles`,
`GateDecides`, `PasswordPassesGate`, `PreviewCatchesUp`, `FilteringEnds`), which are out
of the prover's reach.  All other properties of the passing runs are theorems.  The
library's induction theorems cannot be used, as they take an operator; where an argument
over lengths is needed it goes by a least counterexample.

## 5. Plan

1. *Composition:* `Settings` over the truncated file of `LLMService`, with remote
   hosts among its writers.
2. *Sessions:* input and output of a session, with the line feeder of WinRM.

## 6. Not modelled

- The policy engine, the scanner's target and port lists, output filters and
  prompt context: functions of text without state.  Their results are free choices
  in the models that use them.
- What a probe of the scanner, `tmux`, AT-SPI2, the Windows console, an SSH server
  or an LLM answers: free choices as well.
- Input, output and resizing of sessions, the line feeder of WinRM, key files, the
  test of a connection in the New Terminal dialog.
- The clipboard and its timer: nothing in the frontend calls `CopyToClipboard`.
- `FilterCommand`, chat commands other than `/clear`, `/model`, `/context` and
  `/refresh`, export of a chat, `RemoveAll` of the keychain.
- The audit file (one append under a mutex), elevation, Windows wrappers, parsing of
  hotkeys, layout and rendering.
