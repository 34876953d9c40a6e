-------------------------------- MODULE CopyMode --------------------------------
(***************************************************************************)
(* The Copy Mode overlay (CopyModeDialog.tsx): a frozen text of the active *)
(* terminal in two views, the whole buffer and what the LLM would get of   *)
(* it, the second computed by LLMService.FilterText on demand.  The        *)
(* component stays mounted while the overlay is closed, so its refs, its   *)
(* timer and the calls in flight outlive one showing of it.  ChatPane has  *)
(* a count of context lines of its own, which /context changes; each has   *)
(* read the saved one when it was mounted, before the first state here.    *)
(*                                                                         *)
(* A text is known by when and how it was read: what the active terminal   *)
(* held, the lines asked for and the showing (session) of the overlay.     *)
(* Filtering keeps what a text is known by; it may fail.  The effects of   *)
(* `open` run in the commit that changes it.                               *)
(***************************************************************************)
EXTENDS Naturals, FiniteSets

CONSTANTS Windows,          \* counts of context lines
          Whole,            \* no count: the whole buffer
          Nothing,          \* no text (null, or "" of the snapshot)
          MaxOutput,        \* how often the text of the active terminal changes
          MaxSessions,      \* how often the overlay is opened
          MaxRequests,      \* FilterText calls
          MaxCopies,        \* clicks of Copy All
          MaxContexts       \* /context commands that change the count

ASSUME CopyModeAssumption ==
    /\ Whole \notin Windows
    /\ {MaxOutput, MaxSessions, MaxRequests, MaxCopies, MaxContexts} \subseteq Nat

VARIABLES
    screen,     \* what a read of the active terminal gives, by number
    lines,      \* contextLinesRef of ChatPane and of the overlay
    dialog,     \* open, view, snapshot, filteredText, filtering, filterError, copied
    request,    \* filterRequestRef
    calls,      \* FilterText calls in flight
    writes,     \* clipboard writes in flight, oldest first not promised
    timer,      \* the "Copied!" timer is armed
    session,    \* history: how often the overlay has been opened
    copies,     \* history: clicks of Copy All
    contexts,   \* history: /context commands
    newest,     \* history: the text the newest request sent
    crossed     \* history: the overlay was opened while a filter call was in flight

vars == <<screen, lines, dialog, request, calls, writes, timer,
          session, copies, contexts, newest, crossed>>
settings == <<lines, contexts>>
history  == <<session, copies, newest, crossed>>

Texts == [at : 0..MaxOutput, lines : Windows \cup {Whole},
          chat : Windows, session : 1..MaxSessions] \cup {Nothing}
Views == {"complete", "filtered"}

TypeOK ==
    /\ screen \in 0..MaxOutput
    /\ lines \in [{"chat", "copy"} -> Windows]
    /\ dialog \in [open : BOOLEAN, view : Views, snapshot : Texts, filtered : Texts,
                   filtering : BOOLEAN, failed : BOOLEAN, copied : BOOLEAN]
    /\ request \in 0..MaxRequests /\ newest \in Texts
    /\ \A c \in calls : c.id \in 1..request /\ c.source \in Texts
    /\ \A w \in writes : w.id \in 1..copies /\ w.text \in Texts
    /\ {timer, crossed} \subseteq BOOLEAN
    /\ session \in 0..MaxSessions /\ copies \in 0..MaxCopies /\ contexts \in 0..MaxContexts

-----------------------------------------------------------------------------
\* What goes on behind the overlay.

\* The terminal prints, or another tab becomes the active one.
ScreenChanges ==
    /\ screen < MaxOutput
    /\ screen' = screen + 1
    /\ UNCHANGED <<settings, dialog, request, calls, writes, timer, history>>

\* /context: SetContextLines has saved the count and ChatPane uses it from now on.
ContextCommand(n) ==
    /\ contexts < MaxContexts /\ n # lines["chat"]
    /\ contexts' = contexts + 1
    /\ lines' = [lines EXCEPT !["chat"] = n]
    /\ UNCHANGED <<screen, dialog, request, calls, writes, timer, history>>

-----------------------------------------------------------------------------
\* The overlay.

\* The text of the terminal that is active now, not of the one the render saw.
readTerminalLines(n, s) ==
    [at |-> screen, lines |-> n, chat |-> lines["chat"], session |-> s]

Closed == [open |-> FALSE, view |-> "complete", snapshot |-> Nothing, filtered |-> Nothing,
           filtering |-> FALSE, failed |-> FALSE, copied |-> FALSE]

\* The configured hotkey; pressed again it changes nothing.
OpenedAsLeft == [dialog EXCEPT !.open = TRUE, !.snapshot = readTerminalLines(Whole, session + 1)]
Opened == [Closed EXCEPT !.open = TRUE, !.snapshot = readTerminalLines(Whole, session + 1)]
OpenCopyMode ==
    /\ ~dialog.open /\ session < MaxSessions
    /\ dialog' = Opened
    /\ session' = session + 1
    /\ crossed' = (crossed \/ calls # {})
    /\ UNCHANGED <<screen, settings, request, calls, writes, timer, copies, newest>>

\* Escape, a click outside or the button: what the close effect leaves alone stays.
CloseCopyMode ==
    /\ dialog.open
    /\ dialog' = [dialog EXCEPT !.open = FALSE, !.snapshot = Nothing, !.filtered = Nothing,
                                !.failed = FALSE, !.copied = FALSE]
    /\ UNCHANGED <<screen, settings, request, calls, writes, timer, history>>

\* The capped tail goes to the backend under the next request number; d is the
\* dialog the click has made.
runFilter(d) ==
    LET source == readTerminalLines(lines["copy"], session)
    IN  /\ request < MaxRequests
        /\ request' = request + 1
        /\ dialog' = [d EXCEPT !.filtering = TRUE, !.failed = FALSE]
        /\ calls' = calls \cup {[id |-> request + 1, source |-> source]}
        /\ newest' = source

\* The first switch to the filtered view asks for it, unless it is being computed.
ChooseView(v) ==
    LET d == [dialog EXCEPT !.view = v, !.copied = FALSE]
    IN  /\ dialog.open /\ v # dialog.view
        /\ IF v = "filtered" /\ d.filtered = Nothing /\ ~d.filtering
           THEN runFilter(d)
           ELSE dialog' = d /\ UNCHANGED <<request, calls, newest>>
        /\ UNCHANGED <<screen, settings, writes, timer, session, copies, crossed>>

Refresh ==
    LET d == [dialog EXCEPT !.copied = FALSE]
    IN  /\ dialog.open
        /\ \/ dialog.view = "filtered" /\ runFilter(d)
           \/ /\ dialog.view = "complete"
              /\ dialog' = [d EXCEPT !.snapshot = readTerminalLines(Whole, session)]
              /\ UNCHANGED <<request, calls, newest>>
        /\ UNCHANGED <<screen, settings, writes, timer, session, copies, crossed>>

\* FilterText has answered c, with the text or with an error; only the newest request counts.
AppliedAny(c, d)  == d
AppliedOpen(c, d) == IF c.id = request /\ dialog.open THEN d ELSE dialog
Applied(c, d)     == IF c.id = request THEN d ELSE dialog
FilterAnswered(c) ==
    /\ \/ dialog' = Applied(c, [dialog EXCEPT !.filtered = c.source, !.filtering = FALSE])
       \/ dialog' = Applied(c, [dialog EXCEPT !.filtered = Nothing, !.failed = TRUE,
                                              !.filtering = FALSE])
    /\ calls' = calls \ {c}
    /\ UNCHANGED <<screen, settings, request, writes, timer, history>>

-----------------------------------------------------------------------------
\* Copy All.

\* The text in the panel; the filtered one is replaced by its state while there is none.
textShown == IF dialog.view = "complete" THEN dialog.snapshot
             ELSE IF dialog.filtering \/ dialog.failed THEN Nothing
             ELSE dialog.filtered

\* What Copy All writes, which is the last answer while the next one is computed.
activeText   == IF dialog.view = "complete" THEN dialog.snapshot ELSE dialog.filtered
copyDisabled == dialog.view = "filtered" /\ dialog.filtered = Nothing

CopyAll ==
    /\ dialog.open /\ ~copyDisabled /\ copies < MaxCopies
    /\ copies' = copies + 1
    /\ writes' = writes \cup {[id |-> copies + 1, text |-> activeText]}
    /\ UNCHANGED <<screen, settings, dialog, request, calls, timer, session, newest, crossed>>

\* The clipboard took the text: the label shows it, for as long as the last timer runs.
Written(w) ==
    /\ writes' = writes \ {w}
    /\ dialog' = [dialog EXCEPT !.copied = TRUE]
    /\ timer' = TRUE
    /\ UNCHANGED <<screen, settings, request, calls, history>>
WriteRefused(w) ==
    /\ writes' = writes \ {w}
    /\ UNCHANGED <<screen, settings, dialog, request, calls, timer, history>>
TimerFires ==
    /\ timer
    /\ timer' = FALSE
    /\ dialog' = [dialog EXCEPT !.copied = FALSE]
    /\ UNCHANGED <<screen, settings, request, calls, writes, history>>

-----------------------------------------------------------------------------
Init ==
    /\ screen = 0
    /\ lines \in {[who \in {"chat", "copy"} |-> n] : n \in Windows}
    /\ dialog = Closed /\ request = 0 /\ calls = {} /\ writes = {} /\ timer = FALSE
    /\ session = 0 /\ copies = 0 /\ contexts = 0 /\ newest = Nothing /\ crossed = FALSE

FilterAnswers == \E c \in calls : FilterAnswered(c)
Next ==
    \/ ScreenChanges
    \/ \E n \in Windows : ContextCommand(n)
    \/ OpenCopyMode \/ CloseCopyMode
    \/ \E v \in Views : ChooseView(v)
    \/ Refresh \/ FilterAnswers
    \/ CopyAll
    \/ \E w \in writes : Written(w) \/ WriteRefused(w)
    \/ TimerFires

\* FilterText is local and always answers; nothing else is promised.
Spec == Init /\ [][Next]_vars /\ WF_vars(FilterAnswers)

-----------------------------------------------------------------------------
(* The filtered view, when it does not say "Filtering", shows the answer to the newest request: *)
(* neither a Refresh while a call is in flight, nor closing the overlay and opening it over one *)
(* lets an older answer replace it (filterRequestRef).                                         *)
FilteredIsNewest ==
    dialog.open /\ dialog.view = "filtered" /\ textShown # Nothing => textShown = newest

(* The text shown was read since the overlay was last opened, also when a filter call of an *)
(* earlier showing answers after it was closed, unless it was opened over a call in flight.  *)
SessionsAreSeparate ==
    dialog.open /\ textShown # Nothing /\ ~crossed => textShown.session = session

(* "Filtering" ends, whatever is refreshed, closed and opened meanwhile. *)
FilteringEnds == dialog.filtering ~> ~dialog.filtering

(* The filtered text has exactly the lines a message sent when it was read would have carried, *)
(* as its own text and the comment of takeFilteredSource say.                                  *)
FilteredIsWhatIsSent ==
    dialog.filtered # Nothing => dialog.filtered.lines = dialog.filtered.chat
=============================================================================
