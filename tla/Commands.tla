-------------------------------- MODULE Commands --------------------------------
(***************************************************************************)
(* The command sidebar: the cards of commandStore.ts, what CommandSidebar  *)
(* and CommandCard do to them, the pinned ones kept in config.yaml by Save *)
(* Pinned and restored at the next start (ThreeColumnLayout), and the      *)
(* quick-select chord (useQuickSelect.ts): while it is held every pinned   *)
(* card shows an F-key that uses it; the tabs, which come after the cards  *)
(* in the same list, are in Terminals.                                     *)
(*                                                                         *)
(* A card's name, question and timestamp go with it and decide nothing.    *)
(* The dialogs are modal: opening one, typing and saving is one action.    *)
(* Text for one use is known by the number of its edit.  Quitting or       *)
(* killing the application loses all but config.yaml.  A save truncates it *)
(* and then writes it: what ends in between, or reads it, finds no list.   *)
(* The saves of the other settings, which write the same file, are in      *)
(* Settings.                                                               *)
(***************************************************************************)
EXTENDS Naturals, Sequences, SequencesExt

CONSTANTS CommandTexts, \* the texts of commands
          None,      \* no text for one use
          MaxCards,  \* cards created, in one run of the application, other than by the restore
          MaxEdits,  \* edits for one use
          MaxSaves,  \* clicks of Save Pinned
          MaxMoves,  \* other changes to the cards, chords and moves of the focus
          MaxStarts  \* starts of the application

ASSUME CommandsAssumption ==
    /\ None \notin Nat
    /\ {MaxCards, MaxEdits, MaxSaves, MaxMoves} \subseteq Nat /\ MaxStarts \in Nat \ {0}

VARIABLES
    cards,     \* commandStore.commands
    lastId,    \* the ids handed out (crypto.randomUUID)
    restore,   \* the restore: "start", the settings "read", "over"
    loaded,    \* the pinned commands it has read
    disk,      \* PinnedCommands of config.yaml
    pinSave,   \* pinSaveStatus, and its timers still running
    saves,     \* SavePinnedCommands calls in flight that have not touched the file
    writing,   \* those that have truncated it
    chord,     \* held: the keys are down; typing: the focus is in a text field
    items,     \* itemsRef of useQuickSelect, the ids of its cards
    badges,    \* quickSelectStore: the id of the card each F-key is shown on, <<>> when not visible
    edits, clicks, moves, starts, \* how many of each bounded action there were
    sent,      \* history: how often each text for one use was sent
    kept,      \* history: of the saves written, the one clicked last: its number and list
    met,       \* history: two saves were in flight together
    torn,      \* history: the file was truncated and has not been written since
    due,       \* history: the list of kept when the restore read the file, and whether it
               \* was sure to be there: no two saves had met and the file was not torn
    fresh      \* history: the restore found no pinned card, and no card changed since

cardsVars ==
    <<cards, lastId, restore, loaded, disk, pinSave, saves, writing, chord, items, badges,
      edits, clicks, moves, starts, sent, kept, met, torn, due, fresh>>
list    == <<cards, lastId, edits, sent, fresh>>
opening == <<restore, loaded, due>>
saving  == <<disk, pinSave, saves, writing, clicks, kept, met, torn>>
keys    == <<chord, items, badges>>

Cards   == [id : Nat, text : CommandTexts, pinned : BOOLEAN, override : {None} \cup 1..MaxEdits]
NoneDue == [list |-> <<>>, sure |-> FALSE]
Save    == [no : Nat, list : Seq(CommandTexts)]

CardsTypeOK ==
    /\ cards \in Seq(Cards) /\ \A i \in DOMAIN cards : cards[i].id \in 1..lastId
    /\ \A i, j \in DOMAIN cards : cards[i].id = cards[j].id => i = j
    /\ lastId \in Nat /\ {met, torn, fresh} \subseteq BOOLEAN
    /\ restore \in {"start", "read", "over"} /\ {disk, loaded} \subseteq Seq(CommandTexts)
    /\ due \in [list : Seq(CommandTexts), sure : BOOLEAN]
    /\ kept \in Save /\ kept.no <= clicks
    /\ pinSave \in [status : {"idle", "saving", "saved", "error"}, timers : Nat]
    /\ saves \cup writing \subseteq Save /\ \A s \in saves \cup writing : s.no \in 1..clicks
    /\ chord \in [held : BOOLEAN, typing : BOOLEAN]
    /\ items \in Seq(Nat) /\ badges \in Seq(Nat)
    /\ sent \in [1..MaxEdits -> Nat]
    /\ edits \in 0..MaxEdits /\ clicks \in 0..MaxSaves /\ moves \in 0..MaxMoves
    /\ starts \in 1..MaxStarts

-----------------------------------------------------------------------------
\* The store.

\* The elements of s that are in chosen, in their order.
Only(s, chosen) ==
    LET part[n \in 0..Len(s)] ==
          IF n = 0 THEN <<>> ELSE IF s[n] \in chosen THEN Append(part[n - 1], s[n]) ELSE part[n - 1]
    IN  part[Len(s)]

Pinned(s)      == Only(s, {c \in Range(s) : c.pinned})
PinnedTexts(s) == [i \in DOMAIN Pinned(s) |-> Pinned(s)[i].text]
IdsOf(s)       == {s[i].id : i \in DOMAIN s}
Where(s, id)   == CHOOSE i \in DOMAIN s : s[i].id = id
Card(id)       == cards[Where(cards, id)]
New(id, text, pinned) == [id |-> id, text |-> text, pinned |-> pinned, override |-> None]
Without(id)    == Only(cards, {c \in Range(cards) : c.id # id})

Move == moves < MaxMoves /\ moves' = moves + 1

\* A change of the cards by the user.
Changes(s) == Move /\ fresh' = FALSE /\ cards' = s
              /\ UNCHANGED <<opening, saving, keys, starts>>

\* The Add Command dialog, Save to Commands of a code block, the clipboard hotkey.
addCommand(text) ==
    /\ lastId < MaxCards
    /\ lastId' = lastId + 1
    /\ Changes(Append(cards, New(lastId + 1, text, FALSE)))
    /\ UNCHANGED <<edits, sent>>

CardsOnly == UNCHANGED <<lastId, edits, sent>>
clearAll == Changes(Pinned(cards)) /\ CardsOnly
togglePin(id)     == Changes([cards EXCEPT ![Where(cards, id)].pinned = ~@]) /\ CardsOnly
removeCommand(id) == Changes(Without(id)) /\ CardsOnly

\* saveEdit, permanent: any text waiting for one use goes too.
editCommand(id, text) ==
    Changes([cards EXCEPT ![Where(cards, id)].text = text, ![Where(cards, id)].override = None])
    /\ CardsOnly
\* saveEdit, temporary.
editForNextUse(id) ==
    /\ edits < MaxEdits
    /\ edits' = edits + 1
    /\ Changes([cards EXCEPT ![Where(cards, id)].override = edits + 1])
    /\ UNCHANGED <<lastId, sent>>

\* A pinned card dropped on another goes in front of it.
reorderPinned(dragged, target) ==
    LET rest == Without(dragged) IN
    /\ dragged # target /\ Card(dragged).pinned /\ Card(target).pinned
    /\ Changes(InsertAt(rest, Where(rest, target), Card(dragged)))
    /\ CardsOnly

\* consumeCommandText: the text for one use, if there is one, is taken; the text goes
\* to the active terminal, with a return or not.
ConsumedKept(id) == cards
Consumed(id) == [cards EXCEPT ![Where(cards, id)].override = None]
Use(id) ==
    LET o == Card(id).override IN
    /\ cards' = Consumed(id)
    /\ sent' = IF o = None THEN sent ELSE [sent EXCEPT ![o] = @ + 1]
    /\ UNCHANGED <<lastId, edits, fresh>>
UseCard(id) == Use(id) /\ UNCHANGED <<opening, saving, keys, moves, starts>>

-----------------------------------------------------------------------------
\* Save Pinned.

\* The button takes the list as it is; it is disabled while saving, or with none pinned.
handleSavePinned ==
    /\ clicks < MaxSaves /\ pinSave.status # "saving" /\ Pinned(cards) # <<>>
    /\ clicks' = clicks + 1
    /\ pinSave' = [pinSave EXCEPT !.status = "saving"]
    /\ saves' = saves \cup {[no |-> clicks + 1, list |-> PinnedTexts(cards)]}
    /\ met' = (met \/ saves \cup writing # {})
    /\ UNCHANGED <<list, opening, keys, disk, writing, kept, torn, moves, starts>>

SaveOnly == UNCHANGED <<list, opening, keys, clicks, met, moves, starts>>
\* SavePinnedCommands reads the rest of the file, and opens it to write it again.
Truncate(s) ==
    /\ saves' = saves \ {s} /\ writing' = writing \cup {s}
    /\ disk' = <<>> /\ torn' = TRUE
    /\ UNCHANGED <<pinSave, kept>> /\ SaveOnly

Ended(st) == [status |-> st, timers |-> pinSave.timers + 1]
\* The whole list replaces the saved one.
SavePinnedCommands(s) ==
    /\ disk' = s.list /\ torn' = FALSE /\ kept' = (IF s.no > kept.no THEN s ELSE kept)
    /\ pinSave' = Ended("saved") /\ writing' = writing \ {s}
    /\ UNCHANGED saves /\ SaveOnly
\* The file cannot be read or opened, or not be written: then it stays truncated.
SaveFails(s) ==
    /\ pinSave' = Ended("error") /\ saves' = saves \ {s} /\ writing' = writing \ {s}
    /\ UNCHANGED <<disk, torn, kept>> /\ SaveOnly
\* The timer of an earlier save enables the button again while a later one runs.
LabelReset ==
    /\ pinSave.timers > 0
    /\ pinSave' = [status |-> "idle", timers |-> pinSave.timers - 1]
    /\ UNCHANGED <<disk, torn, kept, saves, writing>> /\ SaveOnly

-----------------------------------------------------------------------------
\* The restore of a start.

\* GetSettings reads the file, or is refused.
RestoreRead ==
    /\ restore = "start" /\ restore' = "read" /\ loaded' = disk
    /\ due' = [list |-> kept.list, sure |-> ~torn /\ ~met]
    /\ UNCHANGED <<list, saving, keys, moves, starts>>
RestoreFails ==
    /\ restore = "start" /\ restore' = "over"
    /\ UNCHANGED <<loaded, due, list, saving, keys, moves, starts>>

\* addPinnedCommand, for each saved command: not if its text is pinned already.
addPinnedAlways(s, text) == Append(s, New(lastId + Len(s) - Len(cards) + 1, text, TRUE))
addPinnedCommand(s, text) ==
    IF \E i \in DOMAIN s : s[i].pinned /\ s[i].text = text THEN s
    ELSE Append(s, New(lastId + Len(s) - Len(cards) + 1, text, TRUE))
\* The answer, whatever has been saved since.
RestorePinned ==
    LET back[n \in 0..Len(loaded)] ==
          IF n = 0 THEN cards ELSE addPinnedCommand(back[n - 1], loaded[n])
        s == back[Len(loaded)]
    IN
    /\ restore = "read" /\ restore' = "over" /\ loaded' = <<>>
    /\ cards' = s /\ lastId' = lastId + Len(s) - Len(cards)
    /\ fresh' = (Pinned(cards) = <<>>)
    /\ UNCHANGED <<due, moves, edits, sent, saving, keys, starts>>

Restart ==
    /\ starts < MaxStarts /\ starts' = starts + 1
    /\ cards' = <<>> /\ lastId' = 0 /\ fresh' = FALSE
    /\ restore' = "start" /\ loaded' = <<>> /\ due' = NoneDue
    /\ saves' = {} /\ writing' = {} /\ pinSave' = [status |-> "idle", timers |-> 0]
    /\ chord' = [held |-> FALSE, typing |-> FALSE] /\ items' = <<>> /\ badges' = <<>>
    /\ UNCHANGED <<disk, torn, kept, met, moves, edits, sent, clicks>>

-----------------------------------------------------------------------------
\* Quick select.

KeysOnly == UNCHANGED <<list, opening, saving, starts>>

\* The pinned cards in the order shown (F1 to F12; the bounds stay below).
Listed    == [i \in DOMAIN Pinned(cards) |-> Pinned(cards)[i].id]
Activated == items' = Listed /\ badges' = Listed

\* The chord goes down, or one of its keys repeats; not for a text field.
ChordDown ==
    /\ Move
    /\ chord' = [chord EXCEPT !.held = TRUE]
    /\ IF chord.typing THEN UNCHANGED <<items, badges>> ELSE Activated
    /\ KeysOnly
\* A key of it is released: the badges go, the list stays; the window may lose the
\* focus and never hear of it.
ChordUp ==
    /\ chord.held
    /\ chord' = [chord EXCEPT !.held = FALSE]
    /\ badges' \in {<<>>, badges}
    /\ UNCHANGED <<items, moves>> /\ KeysOnly
MoveFocus ==
    /\ Move
    /\ chord' = [chord EXCEPT !.typing = ~@]
    /\ UNCHANGED <<items, badges>> /\ KeysOnly

\* What the k-th F-key uses: for a card that is gone an empty text is sent.
ItemOfNow(k) == IF k \in DOMAIN Listed THEN Listed[k] ELSE items[k]
ItemOf(k)    == items[k]
FKey(k) ==
    /\ chord.held /\ ~chord.typing /\ k \in DOMAIN items
    /\ IF ItemOf(k) \in IdsOf(cards) THEN Use(ItemOf(k)) ELSE UNCHANGED list
    /\ UNCHANGED <<opening, saving, keys, moves, starts>>

-----------------------------------------------------------------------------
CardsInit ==
    /\ cards = <<>> /\ lastId = 0 /\ restore = "start" /\ loaded = <<>> /\ due = NoneDue
    /\ disk = <<>> /\ torn = FALSE
    /\ pinSave = [status |-> "idle", timers |-> 0] /\ saves = {} /\ writing = {}
    /\ chord = [held |-> FALSE, typing |-> FALSE] /\ items = <<>> /\ badges = <<>>
    /\ edits = 0 /\ clicks = 0 /\ moves = 0 /\ starts = 1
    /\ sent = [e \in 1..MaxEdits |-> 0]
    /\ kept = [no |-> 0, list |-> <<>>] /\ met = FALSE /\ fresh = FALSE

UserChanges ==
    \/ \E text \in CommandTexts : addCommand(text)
    \/ clearAll
    \/ \E id \in IdsOf(cards) :
         \/ togglePin(id) \/ removeCommand(id) \/ editForNextUse(id) \/ UseCard(id)
         \/ \E text \in CommandTexts : editCommand(id, text)
         \/ \E target \in IdsOf(cards) : reorderPinned(id, target)
CardsNext ==
    \/ UserChanges
    \/ handleSavePinned
    \/ \E s \in saves : Truncate(s) \/ SaveFails(s)
    \/ \E s \in writing : SavePinnedCommands(s) \/ SaveFails(s)
    \/ LabelReset \/ RestoreRead \/ RestoreFails \/ RestorePinned \/ Restart
    \/ ChordDown \/ ChordUp \/ MoveFocus
    \/ \E k \in DOMAIN items : FKey(k)

CardsSpec == CardsInit /\ [][CardsNext]_cardsVars

-----------------------------------------------------------------------------
(* What a restore brings back of a list: each of its texts once, pinned, in the order of *)
(* its first card.                                                                       *)
FirstOf(s, x) == CHOOSE i \in DOMAIN s : s[i] = x /\ \A j \in 1..i - 1 : s[j] # x
BroughtBack(saved) ==
    LET back == PinnedTexts(cards) IN
    /\ Range(back) = Range(saved)
    /\ \A i, j \in DOMAIN back : i < j => FirstOf(saved, back[i]) < FirstOf(saved, back[j])

(* As long as no two saves were in flight together, the restore brings back the last list *)
(* that was clicked and written when it read the file, unless a later save had truncated  *)
(* the file and was not, or never, at its end (Save Pinned, the restore).                 *)
SavedPinsComeBack == fresh /\ due.sure => BroughtBack(due.list)

(* What config.go says of the saved commands, that they survive across app restarts: so   *)
(* they would whatever became of a later save.                                            *)
PinsSurviveRestarts == fresh /\ ~met => BroughtBack(due.list)

(* A text edited for the next use is sent at most once, by whichever of the buttons and *)
(* F-keys comes first.                                                                  *)
OverrideSentOnce == \A e \in 1..MaxEdits : sent[e] <= 1

(* While badges are shown an F-key uses the card that shows it and no other, however the *)
(* cards have changed since the list was made.                                           *)
FKeyUsesItsCard ==
    [][\A k \in DOMAIN badges : FKey(k) =>
          \A i \in DOMAIN cards : cards'[i] # cards[i] => cards[i].id = badges[k]]_cardsVars
=============================================================================
