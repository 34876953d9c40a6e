-------------------------------- MODULE Settings --------------------------------
(***************************************************************************)
(* The Settings dialog and what it writes: the tabs (components/settings)  *)
(* over mergeAndSaveSettings (utils/settingsSync.ts), the Go calls that    *)
(* load config.yaml, change it and write all of it back                    *)
(* (settings_service.go, config.go), and the probe of the saved connection *)
(* (utils/connectionProbe.ts) behind the indicator of the status bar.      *)
(* Wails runs every call in a goroutine of its own and nothing locks the   *)
(* file, so loads and writes of different calls interleave.                *)
(*                                                                         *)
(* config.yaml has one field for all that one writer owns: the choice of   *)
(* the LLM tab, one for each other tab, the context lines and the pinned   *)
(* commands.  A value is the number of the save that set it, 0 that of an  *)
(* absent field; the LLM choice is a provider (its model and hosts go with *)
(* it), and the key field is known by the provider it was typed for.  What *)
(* the fields of the other tabs hold is what the user saves.               *)
(*                                                                         *)
(* A write truncates the file first, so whoever reads it between another's *)
(* load and write may find the empty configuration (Readings), and a write *)
(* that fails may leave it.  The probe's read of the file and its handling *)
(* of the answer are two steps.  A tab's merge and the mount of the LLM    *)
(* tab take their answer with the read: of what they read nothing reaches  *)
(* the file or the form but by steps of their own.  Of the labels of the   *)
(* buttons only "saving" and "testing", which disable them, are kept.      *)
(***************************************************************************)
EXTENDS Integers, FiniteSets

CONSTANTS Providers,   \* the provider ids of the catalog
          First,       \* the one a new LLM tab shows ("openai")
          Disabled,    \* the provider that is the opt-out ("Disable Pair LLM")
          None,        \* no provider configured, no key typed
          SimpleTabs,  \* tabs whose Save is one mergeAndSaveSettings (Terminals, Hotkeys...)
          MaxSaves,    \* saves of one behaviour
          MaxAsks,     \* GetAPIKeyStatus calls in flight
          MaxMoves     \* what the user does in the dialog besides saving, and commands and answers of the chat

ASSUME SettingsAssumption ==
    /\ First \in Providers /\ None # Disabled
    /\ {None, Disabled} \cap Providers = {}
    /\ {"llm", "context", "pinned", "closed", "nobody"} \cap SimpleTabs = {}
    /\ {MaxSaves, MaxAsks, MaxMoves} \subseteq Nat /\ MaxAsks > 0

VARIABLES
    disk,        \* config.yaml
    saves,       \* the saves, by number: who, what, how far
    form,        \* the mounted tab
    llm,         \* what only the LLM tab has
    status,      \* settingsStore.connectionStatus
    probes,      \* probeLLMConnection: 0 at mount, i after save i
    moves,       \* how many of the bounded actions there were
    last,        \* history: the last value each owner has written, in the file of the last
                 \* write that failed half way, if any
    overruled,   \* history: what a probe has read, or its refusal, left the indicator at
                 \* something else although the file says Disabled, and it does not say so yet
    crossed,     \* history: a save read the file while another was under way
    goCrossed    \* history: a Go call loaded the file inside another's load and write

vars == <<disk, saves, form, llm, status, probes, moves, last, overruled, crossed, goCrossed>>

Saves   == 1..MaxSaves
Choices == Providers \cup {Disabled}
Fields  == SimpleTabs \cup {"llm", "context", "pinned"}
Values(f) == IF f = "llm" THEN Choices \cup {None} ELSE 0..MaxSaves
Empty   == [f \in Fields |-> IF f = "llm" THEN None ELSE 0]
NoSave  == [by |-> "nobody", from |-> "tab", value |-> 0, key |-> None, cur |-> Empty,
            stage |-> "new", here |-> FALSE]
Stages  == {"new", "merge", "save", "write", "key", "reload", "rewrite", "answer", "over"}
NoProbe == [stage |-> "none", found |-> None]
Closed  == [tab |-> "closed", saving |-> FALSE, timers |-> 0]
Unmounted == [loaded |-> FALSE, provider |-> First, key |-> None, asks |-> 0, missed |-> FALSE,
              testing |-> FALSE]

TypeOK ==
    /\ disk \in [Fields -> Choices \cup {None} \cup 0..MaxSaves]
    /\ \A f \in Fields : disk[f] \in Values(f) /\ last[f] \in Values(f)
    /\ \A i \in Saves : saves[i].by \in Fields \cup {"nobody"} /\ saves[i].stage \in Stages
                        /\ \A f \in Fields : saves[i].cur[f] \in Values(f)
    /\ form.tab \in SimpleTabs \cup {"llm", "closed"} /\ form.timers \in 0..MaxSaves + 1
    /\ llm.provider \in Choices /\ llm.key \in Providers \cup {None} /\ llm.asks \in 0..MaxAsks
    /\ status \in {"checking", "connected", "disconnected", "disabled"}
    /\ probes \in [0..MaxSaves -> [stage : {"none", "start", "read", "test", "over", "refused"},
                                  found : Choices \cup {None}]]

-----------------------------------------------------------------------------
\* The file.

\* Between a read of the file and the write that rests on it.
Holding(i) == saves[i].stage \in {"save", "write", "rewrite"}
InGo(i)    == saves[i].stage \in {"write", "rewrite"}

\* What a read of the file finds: a write of another call may have truncated it just now.
Readings == {disk} \cup {Empty : j \in {k \in Saves : InGo(k)}}

-----------------------------------------------------------------------------
\* The dialog.

Move == moves < MaxMoves /\ moves' = moves + 1

\* Leaving a tab unmounts it: the answers of its calls find no form any more.
Left == [i \in Saves |-> [saves[i] EXCEPT !.here = FALSE]]

\* The LLM tab is mounted with the default provider and asks for its key status.
Mount(t) ==
    /\ Move
    /\ form' = [Closed EXCEPT !.tab = t]
    /\ llm' = IF t = "llm" THEN [Unmounted EXCEPT !.asks = 1] ELSE Unmounted
    /\ saves' = Left
    /\ UNCHANGED <<disk, status, probes, last, overruled, crossed, goCrossed>>

OpenSettings == form.tab = "closed" /\ Mount("llm")
ShowTab(t)   == form.tab \notin {"closed", t} /\ Mount(t)
CloseSettings ==
    /\ form.tab # "closed" /\ Move
    /\ form' = Closed /\ llm' = Unmounted /\ saves' = Left
    /\ UNCHANGED <<disk, status, probes, last, overruled, crossed, goCrossed>>

FormOnly == UNCHANGED <<disk, saves, status, probes, last, overruled, crossed, goCrossed>>

\* Another provider in the field: its key status is asked for.
SwitchedUnasked(p) == [llm EXCEPT !.provider = p]
Switched(p) == [llm EXCEPT !.provider = p, !.asks = @ + 1]

\* The answer of the GetSettings call of the mount shows the saved provider, whatever
\* was chosen meanwhile.
Loaded(p) == IF p \in {None, llm.provider} THEN llm ELSE Switched(p)
LoadLLM ==
    /\ form.tab = "llm" /\ ~llm.loaded /\ llm.asks < MaxAsks
    /\ \E c \in Readings : llm' = [Loaded(c["llm"]) EXCEPT !.loaded = TRUE]
    /\ UNCHANGED <<form, moves>> /\ FormOnly
ChooseProvider(p) ==
    /\ form.tab = "llm" /\ p # llm.provider /\ llm.asks < MaxAsks /\ Move
    /\ llm' = Switched(p)
    /\ UNCHANGED form /\ FormOnly
TypeKey ==
    /\ form.tab = "llm" /\ llm.provider \in Providers \ {llm.key} /\ Move
    /\ llm' = [llm EXCEPT !.key = llm.provider]
    /\ UNCHANGED form /\ FormOnly
\* The key status empties the key field; a call the keychain refuses leaves it alone.
KeyStatusAnswered(known) ==
    /\ llm.asks > 0
    /\ llm' = [llm EXCEPT !.asks = @ - 1, !.key = IF known THEN None ELSE @, !.missed = @ \/ ~known]
    /\ UNCHANGED <<form, moves>> /\ FormOnly

\* Test Connection tries the typed key and never touches the indicator.
TestTyped ==
    /\ form.tab = "llm" /\ llm.provider # Disabled /\ ~llm.testing /\ Move
    /\ llm' = [llm EXCEPT !.testing = TRUE] /\ UNCHANGED form /\ FormOnly
TestAnswered ==
    /\ llm.testing /\ llm' = [llm EXCEPT !.testing = FALSE] /\ UNCHANGED <<form, moves>> /\ FormOnly

-----------------------------------------------------------------------------
\* Saves.

Next1 == 1 + Cardinality({i \in Saves : saves[i].stage # "new"})
Begin(by, value, key, from) ==
    /\ Next1 \in Saves
    /\ saves' = [saves EXCEPT ![Next1] = [by |-> by, from |-> from, value |-> value, key |-> key,
                    cur |-> Empty, stage |-> IF from = "tab" THEN "merge" ELSE "reload",
                    here |-> from = "tab"]]
    /\ UNCHANGED <<disk, llm, status, probes, last, overruled, crossed, goCrossed>>
Command(by, value) == Move /\ UNCHANGED form /\ Begin(by, value, None, "command")

\* A Save button is dead only while its label says "Saving...".
Saving == ~form.saving /\ UNCHANGED moves /\ form' = [form EXCEPT !.saving = TRUE]

SaveTab(t) == form.tab = t /\ Saving /\ Begin(t, Next1, None, "tab")
SaveLLM ==
    /\ form.tab = "llm" /\ Saving
    /\ Begin("llm", llm.provider, IF llm.provider = Disabled THEN None ELSE llm.key, "tab")
\* A model name with a backslash.
SaveRefused ==
    /\ form.tab = "llm" /\ llm.provider # Disabled /\ ~form.saving
    /\ form.timers = 0 /\ Move /\ form' = [form EXCEPT !.timers = 1]
    /\ UNCHANGED llm /\ FormOnly

\* The chat commands /model and /context (the input is dead while the LLM is disabled)
\* and the sidebar's Save Pinned: Go calls that load, change and write on their own.
\* (/model names a provider of the catalog here.)
ModelCommand   == status # "disabled" /\ \E p \in Providers : Command("llm", p)
ContextCommand == status # "disabled" /\ Command("context", Next1)
SavePinned     == Command("pinned", Next1)

Step(i, from, to, cur) ==
    /\ saves[i].stage = from
    /\ saves' = [saves EXCEPT ![i].stage = to, ![i].cur = cur]
    /\ UNCHANGED <<form, llm, status, probes, moves, overruled>>

\* mergeAndSaveSettings: the configuration its fields are laid over.
FetchedNothing == {Empty}
Fetched == Readings
MergeRead(i) ==
    /\ \E c \in Fetched : Step(i, "merge", "save", c)
    /\ crossed' = (crossed \/ \E j \in Saves \ {i} : Holding(j))
    /\ UNCHANGED <<disk, last, goCrossed>>

\* SaveSettings takes the pinned commands from the file, not from its caller.
PreservedNothing(i, c) == [saves[i].cur EXCEPT ![saves[i].by] = saves[i].value]
Preserved(i, c) == [saves[i].cur EXCEPT ![saves[i].by] = saves[i].value, !["pinned"] = c["pinned"]]
SaveLoad(i) ==
    /\ \E c \in Readings : Step(i, "save", "write", Preserved(i, c))
    /\ goCrossed' = (goCrossed \/ \E j \in Saves \ {i} : InGo(j))
    /\ UNCHANGED <<disk, last, crossed>>

\* SaveAppConfig writes every field.
Write(i) == disk' = saves[i].cur /\ last' = [last EXCEPT ![saves[i].by] = saves[i].value]

\* The end of a save: its label, and the timer that will reset it, where its form still is.
Labelled(i) ==
    form' = IF saves[i].here THEN [form EXCEPT !.saving = FALSE, !.timers = @ + 1] ELSE form
Over(i) == [NoSave EXCEPT !.by = saves[i].by, !.stage = "over"]
End(i)  == /\ Labelled(i) /\ saves' = [saves EXCEPT ![i] = Over(i)]
           /\ UNCHANGED <<llm, status, probes, moves, overruled, crossed, goCrossed>>

TabSaved(i) ==
    /\ saves[i].stage = "write" /\ saves[i].by \in SimpleTabs
    /\ Write(i) /\ End(i)
LLMWritten(i) ==
    /\ saves[i].by = "llm" /\ UNCHANGED <<crossed, goCrossed>> /\ Write(i)
    /\ Step(i, "write", IF saves[i].value = Disabled THEN "answer"
                        ELSE IF saves[i].key # None THEN "key" ELSE "reload", Empty)

\* SaveAPIKey, and then SetModel.
KeyStored(i) == Step(i, "key", "reload", Empty) /\ UNCHANGED <<disk, last, crossed, goCrossed>>
Reload(i) ==
    /\ \E c \in Readings : Step(i, "reload", "rewrite", [c EXCEPT ![saves[i].by] = saves[i].value])
    /\ crossed' = (crossed \/ \E j \in Saves \ {i} : Holding(j))
    /\ goCrossed' = (goCrossed \/ \E j \in Saves \ {i} : InGo(j))
    /\ UNCHANGED <<disk, last>>
ModelWritten(i) ==
    /\ saves[i].from = "tab" /\ Step(i, "rewrite", "answer", Empty)
    /\ Write(i) /\ UNCHANGED <<crossed, goCrossed>>
CommandDone(i) ==
    /\ saves[i].stage = "rewrite" /\ saves[i].from = "command"
    /\ Write(i) /\ End(i)

\* The file cannot be read or written, or the keychain refuses the key: the rest of the
\* save is left out.  A write that fails after it has truncated the file leaves it so.
SaveFailed(i) ==
    /\ saves[i].stage \in {"merge", "save", "write", "key", "reload", "rewrite"} /\ End(i)
    /\ \/ UNCHANGED <<disk, last>>
       \/ InGo(i) /\ disk' = Empty /\ last' = Empty

\* The LLM tab's save closes the dialog, whatever it shows by then, and has the saved
\* connection probed; the opt-out sets the indicator itself.
LLMAnswered(i) ==
    /\ saves[i].stage = "answer"
    /\ form' = Closed /\ llm' = Unmounted
    /\ saves' = [j \in Saves |-> IF j = i THEN Over(i) ELSE [saves[j] EXCEPT !.here = FALSE]]
    /\ IF saves[i].value = Disabled
       THEN status' = "disabled" /\ overruled' = FALSE /\ UNCHANGED probes
       ELSE probes' = [probes EXCEPT ![i].stage = "start"] /\ UNCHANGED <<status, overruled>>
    /\ UNCHANGED <<disk, moves, last, crossed, goCrossed>>

\* The timer of an earlier save resets the label of the form, a later save's too.
TimerFires ==
    /\ form.timers > 0 /\ form' = [form EXCEPT !.saving = FALSE, !.timers = @ - 1]
    /\ UNCHANGED <<llm, moves>> /\ FormOnly

-----------------------------------------------------------------------------
\* The indicator.

Probed(i, from, to) ==
    probes[i].stage = from /\ probes' = [probes EXCEPT ![i] = [NoProbe EXCEPT !.stage = to]]
ProbeOnly == UNCHANGED <<disk, saves, form, llm, last, crossed, goCrossed>>
Overruling == overruled' = (status' # "disabled" /\ (overruled \/ disk["llm"] = Disabled))

\* GetSettings reads the file, or is refused: then the indicator is left as it was.
ProbeRead(i) ==
    /\ probes[i].stage = "start"
    /\ \E c \in Readings : probes' = [probes EXCEPT ![i] = [stage |-> "read", found |-> c["llm"]]]
    /\ UNCHANGED <<status, moves, overruled>> /\ ProbeOnly
ProbeRefused(i) ==
    /\ Probed(i, "start", "refused") /\ UNCHANGED <<status, moves>> /\ Overruling /\ ProbeOnly

\* The answer claims the indicator, whatever it says by then, and a provider is tested.
ProbeClaim(i) ==
    LET p == probes[i].found IN
    /\ Probed(i, "read", IF p \in Providers THEN "test" ELSE "over")
    /\ status' = CASE p \in Providers -> "checking" [] p = Disabled -> "disabled"
                   [] OTHER -> "disconnected"
    /\ Overruling /\ UNCHANGED moves /\ ProbeOnly

\* A result counts while the indicator is still claimed.
ShownAlways(result) == result
ShownWhenWell(result) == IF status = "checking" /\ result = "connected" THEN result ELSE status
Shown(result) == IF status = "checking" THEN result ELSE status
ProbeAnswered(i) ==
    /\ Probed(i, "test", "over")
    /\ \E result \in {"connected", "disconnected"} : status' = Shown(result)
    /\ UNCHANGED <<moves, overruled>> /\ ProbeOnly

\* A chat request ends well or badly (useLLMStream).
ChatEnds ==
    /\ status # "disabled" /\ \E result \in {"connected", "disconnected"} : status' = result
    /\ Move /\ UNCHANGED <<probes, overruled>> /\ ProbeOnly

Init ==
    /\ disk \in {[Empty EXCEPT !["llm"] = c] : c \in Choices \cup {None}}
    /\ saves = [i \in Saves |-> NoSave]
    /\ form = Closed /\ llm = Unmounted
    /\ status = "checking"
    /\ probes = [i \in 0..MaxSaves |-> IF i = 0 THEN [NoProbe EXCEPT !.stage = "start"] ELSE NoProbe]
    /\ moves = 0 /\ last = disk /\ overruled = FALSE /\ crossed = FALSE /\ goCrossed = FALSE

DialogNext ==
    \/ OpenSettings \/ CloseSettings \/ \E t \in SimpleTabs \cup {"llm"} : ShowTab(t)
    \/ LoadLLM \/ (\E p \in Choices : ChooseProvider(p)) \/ TypeKey
    \/ (\E known \in BOOLEAN : KeyStatusAnswered(known)) \/ TestTyped \/ TestAnswered
    \/ (\E t \in SimpleTabs : SaveTab(t)) \/ SaveLLM \/ SaveRefused
    \/ TimerFires
SaveNext == \E i \in Saves :
    \/ MergeRead(i) \/ SaveLoad(i) \/ TabSaved(i) \/ LLMWritten(i) \/ KeyStored(i) \/ Reload(i)
    \/ ModelWritten(i) \/ CommandDone(i) \/ LLMAnswered(i) \/ SaveFailed(i)
Next ==
    \/ DialogNext \/ SaveNext
    \/ ModelCommand \/ ContextCommand \/ SavePinned
    \/ \E i \in 0..MaxSaves : ProbeRead(i) \/ ProbeRefused(i) \/ ProbeClaim(i) \/ ProbeAnswered(i)
    \/ ChatEnds

Spec == Init /\ [][Next]_vars

-----------------------------------------------------------------------------
\* Saves none of which read the file while another was under way lose nothing: every
\* field holds what its owner wrote last, or last since a write failed half way
\* (mergeAndSaveSettings, SetModel and the others write the whole file back).
SavesAloneSurvive == ~crossed => disk = last

\* The pinned commands survive every tab's save, one that read the file long before
\* they were saved included, unless two Go calls met between load and write.
PinnedSurviveTabs == ~goCrossed => disk["pinned"] = last["pinned"]

\* "Disable Pair LLM" wins over what is tested and over the chat: with the opt-out in the
\* file, shown or read by the probe of the start, no result of an earlier probe and no end
\* of a request shows anything else.  Only what a probe has read before, or its refusal,
\* overrules it (OptOutStaysShown).
OptingOut(i) == saves[i].stage = "answer" /\ saves[i].value = Disabled
OptOutWins ==
    (/\ disk["llm"] = Disabled /\ ~overruled /\ ~crossed
     /\ \A i \in Saves : ~OptingOut(i)
     /\ probes[0].stage \notin {"start", "read"})
        => status = "disabled"

\* What connectionProbe.ts says of every stale answer: an opt-out that is in the file and
\* shown stays shown while it is in the file.
OptOutStaysShown ==
    [][status = "disabled" /\ disk["llm"] = Disabled /\ ~crossed => status' = "disabled"]_vars

\* When all key status calls have been answered, the key in the field was typed for the
\* provider that is selected: Save stores no provider's key under another's name.
KeyFieldFollowsProvider ==
    (llm.asks = 0 /\ ~llm.missed /\ llm.key # None) => llm.key = llm.provider

\* "Checking..." is not left behind by probes and chats that answer in any order: as long
\* as it is up, one that will still say how it ended is under way, unless no probe ever got
\* the settings (then it is the indicator's first value).
Probing(i) == probes[i].stage \in {"start", "read", "test"}
CheckingHasProbe ==
    status = "checking" =>
        \/ \E i \in 0..MaxSaves : Probing(i)
        \/ \A i \in 0..MaxSaves : probes[i].stage \in {"none", "refused"}
================================================================================
