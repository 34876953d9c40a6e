------------------------------- MODULE Terminals -------------------------------
(***************************************************************************)
(* The terminal tabs: the store (terminalStore.ts), the handlers of the    *)
(* capture's and the sessions' events (useTerminalCapture.ts), the shells  *)
(* and remote sessions behind the tabs the user opened (pty_service.go,    *)
(* remote_ssh.go, remote_winrm.go), the keyboard focus                     *)
(* (useDefaultTerminalFocus.ts) and the quick-select keys over the tabs    *)
(* (useQuickSelect.ts), above CaptureManager.                              *)
(*                                                                         *)
(* React shows a change of the store, with the effects it leads to, before *)
(* the next event is handled: a tab in the list has its preview mounted.   *)
(***************************************************************************)
EXTENDS CaptureManager, SequencesExt

CONSTANTS Sess,       \* sessions the user opens, each with its tab id
          Kinds,      \* kinds of session: "pty" has one output pump, "remote" two
          Typing      \* the focus in a text field outside the terminals

ASSUME TerminalsAssumption ==
    /\ Sess \cap Panes = {} /\ None \notin Sess \cup Panes /\ Typing \notin Sess \cup Panes \cup {None}
    /\ Kinds \subseteq {"pty", "remote"}

VARIABLES
    tabs,       \* state.tabs, the ids in order
    active,     \* activeTabId, None for ""
    screen,     \* what the preview of a captured pane shows
    quick,      \* itemsRef of the quick select: tabs as they were
    focus,      \* where the keyboard is: a tab's terminal, Typing or None
    conn,       \* the calls that open sessions
    registered, \* PTYService.sessions
    alive,      \* sessions whose shell and connection are there
    pump,       \* the goroutines that read a session's output
    closing,    \* CloseTerminal calls of the close buttons
    released,   \* how often a session's handles were closed
    renaming,   \* the tab whose name is being edited, and for what
    savedHost,  \* sessions whose tab has a savedHostId
    saving,     \* SaveRemoteHost calls without an id, of tabs, in flight
    records,    \* how many saved hosts a tab has made
    late,       \* history: sessions whose end was handled before their tab was added
    evicted,    \* history: sessions whose tab a tabs event removed
    doubled     \* history: tabs saved while a save of theirs was in flight

storeVars == <<tabs, active, screen, quick, focus>>
sessVars  == <<conn, registered, alive, pump, released>>
saveVars  == <<savedHost, saving, records, doubled>>
tabHist   == <<late, evicted>>
vars      == <<captureVars, storeVars, sessVars, closing, renaming, saveVars, tabHist>>

Ids   == Panes \cup Sess
Pumps == {1, 2}
Clicks == {1, 2}
Shown == Range(tabs)

TypeOK ==
    /\ CaptureTypeOK
    /\ Shown \subseteq Ids /\ IsInjective(tabs)
    /\ active \in Ids \cup {None} /\ focus \in Ids \cup {None, Typing}
    /\ screen \in [Panes -> Content \cup {None}]
    /\ Range(quick) \subseteq Ids
    /\ conn \in [Sess -> [kind : Kinds, pc : {"new", "opening", "adding", "over"}]]
    /\ registered \cup alive \subseteq Sess
    /\ pump \in [Sess -> [Pumps -> {"none", "reading", "closing", "done"}]]
    /\ closing \in [Ids \X Clicks -> {"no", "called", "taken", "answered"}]
    /\ released \in [Sess -> 0..2]
    /\ renaming = None \/ renaming \in [tab : Sess, mode : {"rename", "saveTmux"}]
    /\ saving \in [Sess -> 0..MaxMoves] /\ records \in [Sess -> 0..MaxMoves]
    /\ savedHost \cup late \cup evicted \cup doubled \subseteq Sess

Init ==
    /\ CaptureInit
    /\ tabs = <<>> /\ active = None /\ screen = [p \in Panes |-> None]
    /\ quick = <<>> /\ focus = None
    /\ conn \in [Sess -> [kind : Kinds, pc : {"new"}]]
    /\ registered = {} /\ alive = {}
    /\ pump = [s \in Sess |-> [n \in Pumps |-> "none"]]
    /\ closing = [c \in Ids \X Clicks |-> "no"]
    /\ released = [s \in Sess |-> 0]
    /\ renaming = None /\ savedHost = {} /\ saving = [s \in Sess |-> 0]
    /\ records = [s \in Sess |-> 0] /\ doubled = {}
    /\ late = {} /\ evicted = {}

-----------------------------------------------------------------------------
(* The store, and what the mounted views make of a change of it. *)

\* The elements of seq that are not in gone, in their order.
Without(seq, gone) ==
    LET rest[n \in 0..Len(seq)] ==
          IF n = 0 THEN <<>> ELSE IF seq[n] \in gone THEN rest[n - 1] ELSE Append(rest[n - 1], seq[n])
    IN  rest[Len(seq)]

\* addTab for each id in turn, but for one that is there: the first tab of all becomes active.
AddTabs(s, ids) ==
    LET new == Without(ids, Range(s.tabs))
    IN  [tabs |-> s.tabs \o new, active |-> IF s.tabs = <<>> /\ new # <<>> THEN new[1] ELSE s.active]

\* Mutant: the active tab is left as it was.
RemainingKeepsActive(gone) ==
    [tabs |-> Without(tabs, gone), active |-> active]

\* removeTab for each id in turn: for an active one, the first tab left takes over.
Remaining(gone) ==
    LET left == Without(tabs, gone)
    IN  [tabs |-> left, active |-> IF active \notin gone THEN active
                                   ELSE IF left = <<>> THEN None ELSE left[1]]

\* refocusTerminal: neither a text field nor any terminal loses the focus.
Refocused(f, ids, a) == IF f = None /\ a \in ids THEN a ELSE f

\* The store becomes `s`: previews come and go, a focus in one that went is lost, and the
\* effect on the active tab asks for the focus.
Become(s) ==
    LET ids  == Range(s.tabs)
        left == IF focus \in Ids \ ids \/ renaming' # renaming THEN None ELSE focus
    IN  /\ tabs' = s.tabs /\ active' = s.active
        /\ renaming' = IF renaming # None /\ renaming.tab \notin ids THEN None ELSE renaming
        /\ screen' = [p \in Panes |-> IF p \in ids THEN screen[p] ELSE None]
        /\ focus' = IF s.active # active THEN Refocused(left, ids, s.active) ELSE left

-----------------------------------------------------------------------------
(* The events. *)

\* "terminal:tabs": every tab it does not list is removed, every id that has none is added.
HandleTabs(ids) ==
    /\ \E order \in SetToSeqs(ids \ Shown) : Become(AddTabs(Remaining(Shown \ ids), order))
    /\ evicted' = evicted \cup ((Shown \cap Sess) \ ids)
    /\ UNCHANGED late

\* "terminal:update", dropped when the pane has no preview.
HandleUpdate(p, content) ==
    /\ screen' = IF p \in Shown THEN [screen EXCEPT ![p] = content] ELSE screen
    /\ UNCHANGED <<tabs, active, focus, renaming, tabHist>>

\* Mutant: the closed session's tab stays, to show its last output.
HandleClosedStays(s) ==
    /\ late' = IF conn[s].pc # "over" THEN late \cup {s} ELSE late
    /\ UNCHANGED <<tabs, active, screen, focus, renaming, evicted>>

\* "pty:closed".
HandleClosed(s) ==
    /\ Become(Remaining({s}))
    /\ late' = IF conn[s].pc # "over" THEN late \cup {s} ELSE late
    /\ UNCHANGED evicted

Handle ==
    /\ events # <<>> /\ events' = Tail(events)
    /\ LET e == Head(events)
       IN  \/ e.type = "tabs" /\ HandleTabs(e.ids)
           \/ e.type = "update" /\ HandleUpdate(e.id, e.content)
           \/ e.type = "closed" /\ HandleClosed(e.id)
    /\ UNCHANGED <<world, panes, tick, moves, quick, sessVars, closing, saveVars>>

-----------------------------------------------------------------------------
(* The name of a tab and its saved host. *)

\* SaveRemoteHost without an id, for a tab that has none yet.
SaveNew(s) ==
    /\ saving' = [saving EXCEPT ![s] = @ + 1]
    /\ doubled' = IF saving[s] > 0 THEN doubled \cup {s} ELSE doubled

\* commitRename, when the input loses the focus: a blank name is dropped, "rename and save"
\* also attaches tmux and saves, under the id of the tab when it has one.  What a plain rename
\* writes into the saved host, and a save under an id, leaves the number of records alone.
Blurred ==
    /\ renaming' = None
    /\ \/ /\ renaming # None /\ renaming.mode = "saveTmux" /\ renaming.tab \notin savedHost
          /\ SaveNew(renaming.tab)
       \/ UNCHANGED <<saving, doubled>>

\* "Rename", or for a local shell "Rename and Save tmux session".
StartRename(s, mode) ==
    /\ s \in Shown /\ renaming = None /\ Move
    /\ mode = "saveTmux" => conn[s].kind = "pty"
    /\ renaming' = [tab |-> s, mode |-> mode]
    /\ focus' = Typing
    /\ UNCHANGED <<worldVars, tabs, active, screen, quick, sessVars, closing, saveVars, late, evicted>>

\* Enter, or Escape, which forgets the name; the input goes and takes the focus with it.
CommitRename ==
    /\ renaming # None
    /\ Blurred \/ (renaming' = None /\ UNCHANGED <<saving, doubled>>)
    /\ focus' = None
    /\ UNCHANGED <<captureVars, tabs, active, screen, quick, sessVars, closing, savedHost, records, tabHist>>

\* "Save Terminal", offered for a remote tab without a saved host.
SaveTerminal(s) ==
    /\ s \in Shown \ savedHost /\ conn[s].kind = "remote" /\ Move
    /\ SaveNew(s)
    /\ UNCHANGED <<worldVars, storeVars, sessVars, closing, renaming, savedHost, records, tabHist>>

\* A new record, and setSavedHostId if the tab is still there; or an error, only logged.
Saved(s) ==
    /\ saving[s] > 0 /\ saving' = [saving EXCEPT ![s] = @ - 1]
    /\ \/ /\ records' = [records EXCEPT ![s] = @ + 1]
          /\ savedHost' = savedHost \cup ({s} \cap Shown)
       \/ UNCHANGED <<records, savedHost>>
    /\ UNCHANGED <<captureVars, storeVars, sessVars, closing, renaming, doubled, tabHist>>

-----------------------------------------------------------------------------
(* Sessions. *)

Open(s) ==
    /\ conn[s].pc = "new" /\ Move
    /\ conn' = [conn EXCEPT ![s].pc = "opening"]
    /\ UNCHANGED <<worldVars, storeVars, registered, alive, pump, released, closing, tabHist, renaming, saveVars>>

\* The shell or the connection cannot be started.
OpenFails(s) ==
    /\ conn[s].pc = "opening"
    /\ conn' = [conn EXCEPT ![s].pc = "over"]
    /\ UNCHANGED <<captureVars, storeVars, registered, alive, pump, released, closing, tabHist, renaming, saveVars>>

PumpsOf(s) == IF conn[s].kind = "pty" THEN {1} ELSE Pumps

\* The session is started and registered, and its pumps run.
Register(s) ==
    /\ conn[s].pc = "opening"
    /\ conn' = [conn EXCEPT ![s].pc = "adding"]
    /\ registered' = registered \cup {s} /\ alive' = alive \cup {s}
    /\ pump' = [pump EXCEPT ![s] = [n \in Pumps |-> IF n \in PumpsOf(s) THEN "reading" ELSE "none"]]
    /\ UNCHANGED <<captureVars, storeVars, released, closing, tabHist, renaming, saveVars>>

\* The dialog, when it has also saved or touched the host: the tab is added and made active,
\* the dialog closes and gives the focus to it.
TabAdded(s) ==
    /\ conn[s].pc = "adding"
    /\ conn' = [conn EXCEPT ![s].pc = "over"]
    /\ tabs' = AddTabs([tabs |-> tabs, active |-> active], <<s>>).tabs
    /\ active' = s /\ focus' = s /\ Blurred
    /\ savedHost' \in {savedHost, savedHost \cup {s}}
    /\ UNCHANGED <<captureVars, screen, quick, registered, alive, pump, released, closing, late, evicted, records>>

\* The shell exits or the connection breaks.
Dies(s) ==
    /\ s \in alive /\ alive' = alive \ {s}
    /\ UNCHANGED <<captureVars, storeVars, conn, registered, pump, released, closing, tabHist, renaming, saveVars>>

Closed(s) == [type |-> "closed", id |-> s]

\* A read fails: the pump takes the session out of the table; a remote session's pump that
\* finds none there is done, a shell's tells the frontend all the same.
PumpTakes(s, n) ==
    /\ pump[s][n] = "reading" /\ (s \notin alive \/ released[s] > 0)
    /\ registered' = registered \ {s}
    /\ pump' = [pump EXCEPT ![s][n] = IF s \in registered THEN "closing" ELSE "done"]
    /\ events' = IF s \notin registered /\ conn[s].kind = "pty" THEN Append(events, Closed(s)) ELSE events
    /\ UNCHANGED <<world, panes, tick, moves, storeVars, conn, alive, released, closing, tabHist, renaming, saveVars>>

\* It closes the handles and emits pty:closed.
PumpCloses(s, n) ==
    /\ pump[s][n] = "closing"
    /\ released' = [released EXCEPT ![s] = @ + 1]
    /\ alive' = alive \ {s}
    /\ pump' = [pump EXCEPT ![s][n] = "done"]
    /\ events' = Append(events, Closed(s))
    /\ UNCHANGED <<world, panes, tick, moves, storeVars, conn, registered, closing, tabHist, renaming, saveVars>>

-----------------------------------------------------------------------------
(* The close button of a tab. *)

\* handleClose; the click ends where refocusTerminal puts the focus.
Close(i, n) ==
    /\ i \in Shown /\ closing[<<i, n>>] = "no" /\ (n > 1 => closing[<<i, n - 1>>] # "no") /\ Move
    /\ closing' = [closing EXCEPT ![<<i, n>>] = "called"]
    /\ focus' = Refocused(None, Shown, active) /\ Blurred
    /\ UNCHANGED <<worldVars, tabs, active, screen, quick, sessVars, late, evicted, savedHost, records>>

\* Mutant: the session is looked up and stays in the table.
CloseTakesNot(i, n) ==
    /\ closing[<<i, n>>] = "called"
    /\ closing' = [closing EXCEPT ![<<i, n>>] = IF i \in registered THEN "taken" ELSE "answered"]
    /\ UNCHANGED <<captureVars, storeVars, sessVars, tabHist, renaming, saveVars>>

\* CloseTerminal under the mutex: the session, if it is there, is taken out of the table.
CloseTakes(i, n) ==
    /\ closing[<<i, n>>] = "called"
    /\ closing' = [closing EXCEPT ![<<i, n>>] = IF i \in registered THEN "taken" ELSE "answered"]
    /\ registered' = registered \ {i}
    /\ UNCHANGED <<captureVars, storeVars, conn, alive, pump, released, tabHist, renaming, saveVars>>

\* Its handles are closed and its process killed.
CloseReleases(i, n) ==
    /\ closing[<<i, n>>] = "taken"
    /\ closing' = [closing EXCEPT ![<<i, n>>] = "answered"]
    /\ released' = [released EXCEPT ![i] = @ + 1]
    /\ alive' = alive \ {i}
    /\ UNCHANGED <<captureVars, storeVars, conn, registered, pump, tabHist, renaming, saveVars>>

\* The answer, whatever it is: the tab is removed.
CloseAnswered(i, n) ==
    /\ closing[<<i, n>>] = "answered"
    /\ closing' = [closing EXCEPT ![<<i, n>>] = "no"]
    /\ Become(Remaining({i}))
    /\ UNCHANGED <<captureVars, quick, sessVars, late, evicted, saveVars>>

-----------------------------------------------------------------------------
(* The user between the tabs and the other fields. *)

\* A click on a tab, anywhere else outside a text field, or into one.
Click ==
    /\ Move
    /\ \/ \E i \in Shown : active' = i /\ focus' = i
       \/ active' = active /\ focus' \in {Refocused(None, Shown, active), Typing}
    /\ Blurred
    /\ UNCHANGED <<worldVars, tabs, screen, quick, sessVars, closing, late, evicted, savedHost, records>>

\* isForeignTextEntry: a text field, or a terminal that is not the active one.
Foreign == focus = Typing \/ (focus \in Ids /\ focus # active)

\* The chord is pressed.
Activate ==
    /\ ~Foreign /\ quick # tabs
    /\ quick' = tabs
    /\ UNCHANGED <<captureVars, tabs, active, screen, focus, sessVars, closing, tabHist, renaming, saveVars>>

\* An F-key in the chord: the tab of that place when the chord was pressed.
FKey(n) ==
    /\ ~Foreign /\ n \in DOMAIN quick /\ Move
    /\ active' = quick[n]
    /\ focus' = IF active' # active THEN Refocused(focus, Shown, active') ELSE focus
    /\ UNCHANGED <<worldVars, tabs, screen, quick, sessVars, closing, late, evicted, renaming, saveVars>>

\* The browser takes the focus from a terminal it no longer shows.
Hidden ==
    /\ focus \in Ids /\ focus # active
    /\ focus' = None
    /\ UNCHANGED <<captureVars, tabs, active, screen, quick, sessVars, closing, late, evicted, renaming, saveVars>>

-----------------------------------------------------------------------------
(* The capture, as part of the whole. *)

tabVars == <<storeVars, sessVars, closing, renaming, saveVars, tabHist>>

PollTick     == Polls /\ UNCHANGED tabVars
ForceTick(k) == ForceCapture(k) /\ UNCHANGED tabVars
Ticking(k)   == TickStep(k) /\ UNCHANGED tabVars
World(p)     == WorldChanges(p) /\ UNCHANGED tabVars

Next ==
    \/ PollTick \/ Handle \/ Click \/ Activate \/ Hidden \/ CommitRename
    \/ \E k \in Ticks : Ticking(k) \/ ForceTick(k)
    \/ \E p \in Panes : World(p)
    \/ \E s \in Sess : Open(s) \/ OpenFails(s) \/ Register(s) \/ TabAdded(s) \/ Dies(s) \/ SaveTerminal(s) \/ Saved(s)
    \/ \E s \in Sess, mode \in {"rename", "saveTmux"} : StartRename(s, mode)
    \/ \E s \in Sess, n \in Pumps : PumpTakes(s, n) \/ PumpCloses(s, n)
    \/ \E i \in Ids, n \in Clicks : \/ Close(i, n) \/ CloseTakes(i, n)
                                   \/ CloseReleases(i, n) \/ CloseAnswered(i, n)
    \/ \E n \in DOMAIN quick : FKey(n)

\* The poll loop's ticker, a tick under way and the page's event loop are never held up for good.
Fairness ==
    /\ WF_vars(PollTick) /\ WF_vars(Handle)
    /\ \A k \in Ticks : WF_vars(Ticking(k))

Spec == Init /\ [][Next]_vars /\ Fairness

-----------------------------------------------------------------------------
(* Properties. *)

\* Nothing more will happen to session s that was not asked for.
Settled(s) ==
    /\ conn[s].pc = "over"
    /\ \A n \in Pumps : pump[s][n] # "closing"
    /\ \A n \in Clicks : closing[<<s, n>>] = "no"
    /\ Closed(s) \notin Range(events)

\* CloseTerminal and the pumps of a session race for it: its handles are closed once, and
\* only after nobody can find it in the table any more.
SessionReleasedOnce ==
    \A s \in Sess : /\ released[s] <= 1
                    /\ s \in registered => released[s] = 0
                    /\ Settled(s) /\ s \notin registered /\ pump[s][1] # "none" => released[s] = 1

\* A tab with nothing behind it is one whose session ended before the dialog added it, and a
\* session nobody can reach is one whose tab an event of the capture removed.
TabsFollowSessions ==
    \A s \in Sess : Settled(s) => /\ s \in Shown => s \in registered \cup late
                                  /\ s \in registered => s \in Shown \cup evicted

\* Whatever events and clicks come, the active tab stays one of the tabs; only an F-key
\* pressed for a tab that has gone since the chord was pressed can make it another.
ActiveTabExists ==
    [][ (IF tabs = <<>> THEN active = None ELSE active \in Shown)
        => \/ IF tabs' = <<>> THEN active' = None ELSE active' \in Shown'
           \/ \E n \in DOMAIN quick : active' = quick[n] /\ quick[n] \notin Shown ]_vars

\* Tabs that come and go by themselves do not take the focus from a text field, but for the
\* field of a tab's name when that tab goes.
TypingKeepsFocus ==
    [][ focus = Typing /\ focus' # Typing
        => \/ moves' > moves \/ renaming' # renaming
           \/ \E s \in Sess : conn'[s].pc # conn[s].pc ]_vars

\* A tab makes one record of its host, however it is saved, unless it is saved again before
\* the first answer has put the record's id on it.
OneRecordPerTab == \A s \in Sess : records[s] <= 1 \/ s \in doubled

\* What a preview shows catches up with its pane, even when an older capture of a second
\* tick was sent after a newer one.
PreviewCatchesUp ==
    \A p \in Panes \ Degraded :
        moves = MaxMoves /\ world[p] # None /\ screen[p] # None ~> screen[p] \in {None, world[p]}

\* useDefaultTerminalFocus.ts says it restores the focus to the active terminal "whenever the
\* active tab changes"; only a text field outside the terminals may keep it.
FocusFollowsActiveTab == [][active' # active /\ focus # Typing /\ active' \in Shown' => focus' = active']_vars
================================================================================
