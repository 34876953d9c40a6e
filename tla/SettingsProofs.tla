----------------------------- MODULE SettingsProofs -----------------------------
(***************************************************************************)
(* Proofs about Settings, for any providers, any tabs and any number of    *)
(* saves, whose loads and writes interleave in any way.                    *)
(***************************************************************************)
EXTENDS Settings, FiniteSetTheorems, TLAPS

-----------------------------------------------------------------------------
(* The inductive invariant. *)

\* What config.yaml, or what a save read of it, may hold.
Any   == Choices \cup {None} \cup 0..MaxSaves
Files == {c \in [Fields -> Any] : \A f \in Fields : c[f] \in Values(f)}

SaveRecords == [by : Fields \cup {"nobody"}, from : {"tab", "command"}, value : Any,
                key : Providers \cup {None}, cur : Files, stage : Stages, here : BOOLEAN]

\* Who a save under way is of: the tabs merge, the LLM tab alone goes on to the key and to
\* SetModel, and a command names a provider and never the opt-out.
OwnerOK(s) ==
    /\ s.stage \notin {"new", "over"} => s.by \in Fields /\ s.value \in Values(s.by)
    /\ s.stage \in {"merge", "save", "write", "key", "answer"} => s.from = "tab"
    /\ s.stage \in {"merge", "save", "write"} => s.by \in SimpleTabs \cup {"llm"}
    /\ s.stage \in {"key", "answer"} => s.by = "llm"
    /\ s.stage \in {"reload", "rewrite"} /\ s.from = "tab" => s.by = "llm"
    /\ s.stage \in {"reload", "rewrite"} /\ s.from = "command" /\ s.by = "llm" => s.value \in Providers

\* The saves are numbered as they begin.
Numbered == \E n \in 0..MaxSaves : \A i \in Saves : saves[i].stage = "new" <=> i > n

SavesInv == /\ saves \in [Saves -> SaveRecords]
            /\ \A i \in Saves : OwnerOK(saves[i])
            /\ Numbered

\* Each timer was set by a save that is over, or is that of a refused one.
Overs     == {i \in Saves : saves[i].stage = "over"}
TimersInv == form.timers \in Nat /\ form.timers <= 1 + Cardinality(Overs)

ProbeRecords == [stage : {"none", "start", "read", "test", "over", "refused"},
                 found : Choices \cup {None}]

FormInv ==
    /\ form \in [tab : SimpleTabs \cup {"llm", "closed"}, saving : BOOLEAN, timers : Nat]
    /\ llm \in [loaded : BOOLEAN, provider : Choices, key : Providers \cup {None},
                asks : 0..MaxAsks, missed : BOOLEAN, testing : BOOLEAN]
    /\ status \in {"checking", "connected", "disconnected", "disabled"}
    /\ probes \in [0..MaxSaves -> ProbeRecords]

FilesInv == disk \in Files /\ last \in Files

TypeInv == FilesInv /\ SavesInv /\ FormInv /\ TimersInv

\* As long as no save read the file while another held what it had read: one save at most
\* does, what it read is the file, and what it will write differs from the file only in
\* the field of its owner.
AloneInv ==
    /\ disk = last
    /\ \A i, j \in Saves : Holding(i) /\ Holding(j) => i = j
    /\ \A i \in Saves :
         /\ saves[i].stage = "save" => saves[i].cur = last
         /\ InGo(i) => saves[i].cur = [last EXCEPT ![saves[i].by] = saves[i].value]

\* As long as no Go call loaded the file inside another's load and write: one Go call at
\* most is there, and it will write the pinned commands of the file, or new ones.
PinnedInv ==
    /\ disk["pinned"] = last["pinned"]
    /\ \A i, j \in Saves : InGo(i) /\ InGo(j) => i = j
    /\ \A i \in Saves : InGo(i) =>
         saves[i].cur["pinned"] = IF saves[i].by = "pinned" THEN saves[i].value ELSE last["pinned"]

\* The opt-out is shown already while other saves of the LLM choice have still to write,
\* unless one will say what it wrote, or the first probe what it reads.
OptOutInv ==
    /\ disk["llm"] = Disabled
    /\ ~overruled
    /\ \A i \in Saves : ~OptingOut(i)
    /\ probes[0].stage \notin {"start", "read"}
    => status = "disabled"

IInv == /\ TypeInv
        /\ ~crossed => AloneInv /\ OptOutInv
        /\ ~goCrossed => PinnedInv

-----------------------------------------------------------------------------
(* How the saves move. *)

\* Save j is as it was, but for its form.
Same(j) == /\ saves'[j].by = saves[j].by /\ saves'[j].from = saves[j].from
           /\ saves'[j].value = saves[j].value /\ saves'[j].key = saves[j].key
           /\ saves'[j].cur = saves[j].cur /\ saves'[j].stage = saves[j].stage

\* Save i goes from one stage to the next, and no other save does.
Moves(i, to) ==
    /\ saves'[i].by = saves[i].by /\ saves'[i].stage = to /\ saves[i].stage \notin {"new", "over"}
    /\ \A j \in Saves \ {i} : Same(j)

\* Save i goes on to stage to, with cur.
GoesOn(i, to, cur) ==
    /\ Moves(i, to) /\ saves'[i].cur = cur /\ saves'[i].value = saves[i].value

\* The empty file, and a file with one field changed, are files.
LEMMA FilesClosed ==
    /\ Empty \in Files
    /\ \A c \in Files, f \in Fields : \A v \in Values(f) : [c EXCEPT ![f] = v] \in Files
  <1>1. \A f \in Fields : Values(f) \subseteq Any
    BY SettingsAssumption DEF Values, Any
  <1>2. Empty \in Files
    BY SettingsAssumption DEF Empty, Files, Any, Values
  <1>3. ASSUME NEW c \in Files, NEW f \in Fields, NEW v \in Values(f)
        PROVE  [c EXCEPT ![f] = v] \in Files
    BY <1>1 DEF Files
  <1> QED BY <1>2, <1>3

\* A read finds a file, and where no Go call of another holds one, the file.
LEMMA ReadingsFacts ==
    ASSUME FilesInv
    PROVE  /\ \A c \in Readings : c \in Files
           /\ (\A j \in Saves : ~InGo(j)) => \A c \in Readings : c = disk
  BY FilesClosed DEF Readings, FilesInv

\* A numbering survives a save that only goes on.
LEMMA NumberingKept ==
    ASSUME Numbered, \A j \in Saves : saves'[j].stage = "new" <=> saves[j].stage = "new"
    PROVE  Numbered'
  BY DEF Numbered, Saves

\* A save that has begun goes on (Step).
LEMMA StepMoves ==
    ASSUME SavesInv, NEW i \in Saves, NEW from \in Stages \ {"new", "over"},
           NEW to \in Stages \ {"new", "over"}, NEW cur \in Files, Step(i, from, to, cur),
           OwnerOK([saves[i] EXCEPT !.stage = to, !.cur = cur])
    PROVE  SavesInv' /\ GoesOn(i, to, cur) /\ saves[i].stage = from
  <1> DEFINE s == [saves[i] EXCEPT !.stage = to, !.cur = cur]
  <1>1. saves[i].stage = from /\ saves' = [saves EXCEPT ![i] = s]
    BY DEF Step, SavesInv
  <1>2. s \in SaveRecords
    BY DEF SavesInv, SaveRecords
  <1>3. saves' \in [Saves -> SaveRecords]
    BY <1>1, <1>2 DEF SavesInv
  <1>4. saves'[i] = s /\ \A j \in Saves \ {i} : saves'[j] = saves[j]
    BY <1>1 DEF SavesInv
  <1>5. \A j \in Saves : OwnerOK(saves'[j])
    BY <1>4 DEF SavesInv
  <1>6. s.by = saves[i].by /\ s.value = saves[i].value /\ s.stage = to /\ s.cur = cur
    BY DEF SavesInv, SaveRecords
  <1>7. Numbered'
    BY <1>1, <1>4, <1>6, NumberingKept DEF SavesInv
  <1>8. SavesInv'
    BY <1>3, <1>5, <1>7 DEF SavesInv, OwnerOK
  <1>9. GoesOn(i, to, cur)
    BY <1>1, <1>4, <1>6 DEF GoesOn, Moves, Same
  <1> QED BY <1>1, <1>8, <1>9

\* What is left of a save that is over.
LEMMA OverFacts ==
    ASSUME SavesInv, NEW i \in Saves
    PROVE  Over(i) \in SaveRecords /\ OwnerOK(Over(i)) /\ Over(i).stage = "over"
           /\ Over(i).by = saves[i].by
  <1>1. NoSave \in SaveRecords
    BY FilesClosed, SettingsAssumption DEF NoSave, SaveRecords, Any, Stages
  <1>2. saves[i].by \in Fields \cup {"nobody"}
    BY DEF SavesInv, SaveRecords
  <1> QED BY <1>1, <1>2 DEF Over, SaveRecords, Stages, OwnerOK, NoSave

\* A save whose form is left keeps the rest.
LEMMA HereFacts ==
    ASSUME NEW s \in SaveRecords
    PROVE  LET t == [s EXCEPT !.here = FALSE] IN
           /\ t \in SaveRecords /\ t.by = s.by /\ t.from = s.from /\ t.value = s.value
           /\ t.key = s.key /\ t.cur = s.cur /\ t.stage = s.stage
  BY DEF SaveRecords

\* A save is over, where no form is left to some others or where they keep theirs.
LEMMA EndMoves ==
    ASSUME SavesInv, NEW i \in Saves, saves[i].stage \notin {"new", "over"},
           \/ saves' = [saves EXCEPT ![i] = Over(i)]
           \/ saves' = [j \in Saves |-> IF j = i THEN Over(i)
                                         ELSE [saves[j] EXCEPT !.here = FALSE]]
    PROVE  SavesInv' /\ Moves(i, "over")
  <1>1. saves'[i] = Over(i)
    BY DEF SavesInv
  <1>2. ASSUME NEW j \in Saves \ {i} PROVE Same(j) /\ saves'[j] \in SaveRecords
    <2>1. saves[j] \in SaveRecords
      BY DEF SavesInv
    <2>2. saves'[j] = saves[j] \/ saves'[j] = [saves[j] EXCEPT !.here = FALSE]
      BY DEF SavesInv
    <2>3. CASE saves'[j] = saves[j]
      BY <2>1, <2>3 DEF Same
    <2>4. CASE saves'[j] = [saves[j] EXCEPT !.here = FALSE]
      BY <2>1, <2>4, HereFacts DEF Same
    <2> QED BY <2>2, <2>3, <2>4
  <1>3. saves' \in [Saves -> SaveRecords]
    BY <1>1, <1>2, OverFacts DEF SavesInv
  <1>4. \A j \in Saves : OwnerOK(saves'[j])
    BY <1>1, <1>2, OverFacts DEF Same, OwnerOK, SavesInv
  <1>5. Numbered'
    BY <1>1, <1>2, OverFacts, NumberingKept DEF Same, SavesInv
  <1>6. SavesInv'
    BY <1>3, <1>4, <1>5 DEF SavesInv, OwnerOK
  <1> QED BY <1>1, <1>2, <1>6, OverFacts DEF Moves

\* A form is left: no save moves.
LEMMA LeftStays ==
    ASSUME SavesInv, saves' = Left \/ UNCHANGED saves
    PROVE  SavesInv' /\ \A j \in Saves : Same(j)
  <1>1. ASSUME NEW j \in Saves PROVE Same(j) /\ saves'[j] \in SaveRecords
    <2>1. saves[j] \in SaveRecords
      BY DEF SavesInv
    <2>2. saves'[j] = saves[j] \/ saves'[j] = [saves[j] EXCEPT !.here = FALSE]
      BY DEF SavesInv, Left
    <2> QED BY <2>1, <2>2, HereFacts DEF Same
  <1>2. saves' \in [Saves -> SaveRecords]
    BY <1>1 DEF Left, SavesInv
  <1>3. \A j \in Saves : OwnerOK(saves'[j])
    BY <1>1 DEF Same, OwnerOK, SavesInv
  <1>4. Numbered'
    BY <1>1, NumberingKept DEF Same, SavesInv
  <1> QED BY <1>1, <1>2, <1>3, <1>4 DEF SavesInv, OwnerOK

\* The next save is the first of those that have not begun.
LEMMA NextIsNew ==
    ASSUME Numbered, Next1 \in Saves
    PROVE  /\ saves[Next1].stage = "new"
           /\ \A j \in Saves : saves[j].stage = "new" <=> j >= Next1
  <1>1. PICK n \in 0..MaxSaves : \A i \in Saves : saves[i].stage = "new" <=> i > n
    BY DEF Numbered
  <1>2. {i \in Saves : saves[i].stage # "new"} = 1..n
    BY <1>1, SettingsAssumption DEF Saves
  <1>3. Cardinality(1..n) = n
    BY <1>1, FS_Interval, SettingsAssumption
  <1>4. Next1 = 1 + Cardinality(1..n)
    BY <1>2, Zenon DEF Next1
  <1>5. Next1 = n + 1
    BY <1>3, <1>4
  <1> QED BY <1>1, <1>5, SettingsAssumption DEF Saves

\* A save begins (Begin): it is not one that had, and no other moves.
Begins(i, stage) == /\ saves[i].stage = "new" /\ saves'[i].stage = stage
                    /\ \A j \in Saves \ {i} : Same(j)
LEMMA BeginMoves ==
    ASSUME SavesInv, NEW by \in Fields, NEW value \in Values(by), NEW key \in Providers \cup {None},
           NEW from \in {"tab", "command"}, Begin(by, value, key, from),
           from = "tab" => by \in SimpleTabs \cup {"llm"},
           from = "command" /\ by = "llm" => value \in Providers
    PROVE  SavesInv' /\ \E i \in Saves, stage \in {"merge", "reload"} : Begins(i, stage)
  <1> DEFINE stage == IF from = "tab" THEN "merge" ELSE "reload"
             s == [by |-> by, from |-> from, value |-> value, key |-> key, cur |-> Empty,
                   stage |-> stage, here |-> from = "tab"]
  <1>1. /\ Next1 \in Saves /\ saves' = [saves EXCEPT ![Next1] = s]
        /\ Next1 \in 1..MaxSaves
    BY DEF Begin, Saves
  <1>2. /\ saves[Next1].stage = "new"
        /\ \A j \in Saves : saves[j].stage = "new" <=> j >= Next1
    BY <1>1, NextIsNew DEF SavesInv
  <1>3. s \in SaveRecords
    BY FilesClosed, SettingsAssumption DEF SaveRecords, Stages, Any, Values
  <1>4. saves' \in [Saves -> SaveRecords]
    BY <1>1, <1>3 DEF SavesInv
  <1>5. saves'[Next1] = s /\ \A j \in Saves \ {Next1} : saves'[j] = saves[j]
    BY <1>1 DEF SavesInv
  <1>6. OwnerOK(s)
    BY DEF OwnerOK
  <1>7. \A j \in Saves : OwnerOK(saves'[j])
    BY <1>5, <1>6 DEF SavesInv
  <1>8. saves'[Next1].stage = stage
    BY <1>5
  <1>9. Numbered'
    <2>1. \A j \in Saves : saves'[j].stage = "new" <=> j > Next1
      BY <1>1, <1>2, <1>5, <1>8 DEF Saves
    <2> DEFINE m == Next1
    <2>2. m \in 0..MaxSaves /\ \A j \in Saves : saves'[j].stage = "new" <=> j > m
      BY <1>1, <2>1, SettingsAssumption
    <2> HIDE DEF m
    <2> QED BY <2>2 DEF Numbered
  <1>10. SavesInv'
    BY <1>4, <1>7, <1>9 DEF SavesInv, OwnerOK
  <1>11. Begins(Next1, stage)
    BY <1>2, <1>5, <1>8 DEF Begins, Same
  <1> QED BY <1>1, <1>10, <1>11

\* The steps of a save, by the stages they take it from and to.
LEMMA SaveSteps ==
    ASSUME FilesInv, SavesInv, NEW i \in Saves
    PROVE
      /\ MergeRead(i) => /\ SavesInv' /\ saves[i].stage = "merge"
                         /\ \E c \in Readings : GoesOn(i, "save", c)
      /\ SaveLoad(i) => /\ SavesInv' /\ saves[i].stage = "save"
                        /\ \E c \in Readings : GoesOn(i, "write", Preserved(i, c))
      /\ LLMWritten(i) =>
           /\ SavesInv' /\ saves[i].stage = "write"
           /\ \E to \in {"answer", "key", "reload"} :
                GoesOn(i, to, Empty) /\ (saves[i].value = Disabled => to = "answer")
      /\ KeyStored(i) => SavesInv' /\ GoesOn(i, "reload", Empty) /\ saves[i].stage = "key"
      /\ Reload(i) => /\ SavesInv' /\ saves[i].stage = "reload"
                      /\ \E c \in Readings :
                           GoesOn(i, "rewrite", [c EXCEPT ![saves[i].by] = saves[i].value])
      /\ ModelWritten(i) => SavesInv' /\ GoesOn(i, "answer", Empty) /\ saves[i].stage = "rewrite"
      /\ TabSaved(i) => SavesInv' /\ Moves(i, "over") /\ saves[i].stage = "write"
      /\ CommandDone(i) => SavesInv' /\ Moves(i, "over") /\ saves[i].stage = "rewrite"
      /\ SaveFailed(i) => /\ SavesInv' /\ Moves(i, "over")
                          /\ saves[i].stage \in {"merge", "save", "write", "key", "reload", "rewrite"}
      /\ LLMAnswered(i) => SavesInv' /\ Moves(i, "over") /\ saves[i].stage = "answer"
  <1> DEFINE At(to, c) == [saves[i] EXCEPT !.stage = to, !.cur = c]
  <1>1. saves[i] \in SaveRecords /\ OwnerOK(saves[i])
    BY DEF SavesInv
  <1>2. ASSUME NEW to \in Stages, NEW c \in Files
        PROVE  /\ At(to, c).stage = to /\ At(to, c).by = saves[i].by
               /\ At(to, c).from = saves[i].from /\ At(to, c).value = saves[i].value
    BY <1>1 DEF SaveRecords
  <1> HIDE DEF At
  <1>3. ASSUME NEW from \in Stages \ {"new", "over"}, NEW to \in Stages \ {"new", "over"},
               NEW c \in Files, Step(i, from, to, c), OwnerOK(At(to, c))
        PROVE  SavesInv' /\ GoesOn(i, to, c) /\ saves[i].stage = from
    BY <1>3, StepMoves DEF At
  <1>4. ASSUME MergeRead(i)
        PROVE  /\ SavesInv' /\ saves[i].stage = "merge"
               /\ \E c \in Readings : GoesOn(i, "save", c)
    <2>1. PICK c \in Readings : Step(i, "merge", "save", c)
      BY <1>4 DEF MergeRead, Fetched
    <2>2. c \in Files /\ saves[i].stage = "merge"
      BY <2>1, ReadingsFacts DEF Step
    <2>3. OwnerOK(At("save", c))
      BY <1>1, <1>2, <2>2 DEF OwnerOK, Stages
    <2> QED BY <1>3, <2>1, <2>2, <2>3 DEF Stages
  <1>5. ASSUME SaveLoad(i)
        PROVE  /\ SavesInv' /\ saves[i].stage = "save"
               /\ \E c \in Readings : GoesOn(i, "write", Preserved(i, c))
    <2>1. PICK c \in Readings : Step(i, "save", "write", Preserved(i, c))
      BY <1>5 DEF SaveLoad
    <2>2. /\ saves[i].cur \in Files /\ saves[i].by \in Fields /\ saves[i].stage = "save"
          /\ saves[i].value \in Values(saves[i].by)
      BY <1>1, <2>1 DEF SaveRecords, OwnerOK, Step
    <2>3. c["pinned"] \in Values("pinned") /\ "pinned" \in Fields
      BY ReadingsFacts DEF Files, Fields
    <2>4. [saves[i].cur EXCEPT ![saves[i].by] = saves[i].value] \in Files
      BY <2>2, FilesClosed
    <2>5. [[saves[i].cur EXCEPT ![saves[i].by] = saves[i].value] EXCEPT !["pinned"] = c["pinned"]]
            \in Files
      BY <2>3, <2>4, FilesClosed
    <2>6. Preserved(i, c) \in Files
      BY <2>5 DEF Preserved
    <2>7. OwnerOK(At("write", Preserved(i, c)))
      BY <1>1, <1>2, <2>2, <2>6 DEF OwnerOK, Stages
    <2> QED BY <1>3, <2>1, <2>2, <2>6, <2>7 DEF Stages
  <1>6. ASSUME LLMWritten(i)
        PROVE  /\ SavesInv' /\ saves[i].stage = "write"
               /\ \E to \in {"answer", "key", "reload"} :
                    GoesOn(i, to, Empty) /\ (saves[i].value = Disabled => to = "answer")
    <2>1. PICK to \in {"answer", "key", "reload"} :
            Step(i, "write", to, Empty) /\ (saves[i].value = Disabled => to = "answer")
      BY <1>6 DEF LLMWritten
    <2>2. saves[i].by = "llm" /\ saves[i].stage = "write"
      BY <1>6 DEF LLMWritten, Step
    <2>3. OwnerOK(At(to, Empty))
      BY <1>1, <1>2, <2>2, FilesClosed DEF OwnerOK, Stages
    <2> QED BY <1>3, <2>1, <2>2, <2>3, FilesClosed DEF Stages
  <1>7. ASSUME KeyStored(i)
        PROVE  SavesInv' /\ GoesOn(i, "reload", Empty) /\ saves[i].stage = "key"
    <2>1. Step(i, "key", "reload", Empty) /\ saves[i].stage = "key"
      BY <1>7 DEF KeyStored, Step
    <2>2. OwnerOK(At("reload", Empty))
      BY <1>1, <1>2, <2>1, FilesClosed DEF OwnerOK, Stages
    <2> QED BY <1>3, <2>1, <2>2, FilesClosed DEF Stages
  <1>8. ASSUME Reload(i)
        PROVE  /\ SavesInv' /\ saves[i].stage = "reload"
               /\ \E c \in Readings :
                    GoesOn(i, "rewrite", [c EXCEPT ![saves[i].by] = saves[i].value])
    <2>1. PICK r \in Readings :
            Step(i, "reload", "rewrite", [r EXCEPT ![saves[i].by] = saves[i].value])
      BY <1>8 DEF Reload
    <2> DEFINE c == [r EXCEPT ![saves[i].by] = saves[i].value]
    <2>2. c \in Files /\ saves[i].stage = "reload"
      BY <1>1, <2>1, FilesClosed, ReadingsFacts DEF OwnerOK, Step
    <2>3. OwnerOK(At("rewrite", c))
      BY <1>1, <1>2, <2>2 DEF OwnerOK, Stages
    <2>4. Step(i, "reload", "rewrite", c)
      BY <2>1
    <2> HIDE DEF c
    <2>5. SavesInv' /\ GoesOn(i, "rewrite", c) /\ saves[i].stage = "reload"
      BY <1>3, <2>2, <2>3, <2>4 DEF Stages
    <2> QED BY <2>5 DEF c
  <1>9. ASSUME ModelWritten(i)
        PROVE  SavesInv' /\ GoesOn(i, "answer", Empty) /\ saves[i].stage = "rewrite"
    <2>1. Step(i, "rewrite", "answer", Empty) /\ saves[i].stage = "rewrite" /\ saves[i].from = "tab"
      BY <1>9 DEF ModelWritten, Step
    <2>2. OwnerOK(At("answer", Empty))
      BY <1>1, <1>2, <2>1, FilesClosed DEF OwnerOK, Stages
    <2> QED BY <1>3, <2>1, <2>2, FilesClosed DEF Stages
  <1>10. TabSaved(i) => SavesInv' /\ Moves(i, "over") /\ saves[i].stage = "write"
    BY EndMoves DEF TabSaved, End
  <1>11. CommandDone(i) => SavesInv' /\ Moves(i, "over") /\ saves[i].stage = "rewrite"
    BY EndMoves DEF CommandDone, End
  <1>12. SaveFailed(i) => /\ SavesInv' /\ Moves(i, "over")
                         /\ saves[i].stage \in {"merge", "save", "write", "key", "reload", "rewrite"}
    BY EndMoves DEF SaveFailed, End
  <1>13. LLMAnswered(i) => SavesInv' /\ Moves(i, "over") /\ saves[i].stage = "answer"
    BY EndMoves DEF LLMAnswered
  <1> QED BY <1>4, <1>5, <1>6, <1>7, <1>8, <1>9, <1>10, <1>11, <1>12, <1>13

\* The actions that leave the file and every save where they are.
Idle == /\ \A j \in Saves : Same(j)
        /\ UNCHANGED <<disk, last, crossed, goCrossed>>
\* The actions that begin a save.
BeginsOne == /\ \E i \in Saves, stage \in {"merge", "reload"} : Begins(i, stage)
             /\ UNCHANGED <<disk, llm, status, probes, last, overruled, crossed, goCrossed>>
SaveBegins == \/ \E t \in SimpleTabs : SaveTab(t)
              \/ SaveLLM \/ ModelCommand \/ ContextCommand \/ SavePinned
DialogStays == \/ OpenSettings \/ CloseSettings \/ \E t \in SimpleTabs \cup {"llm"} : ShowTab(t)
               \/ LoadLLM \/ (\E p \in Choices : ChooseProvider(p)) \/ TypeKey
               \/ (\E known \in BOOLEAN : KeyStatusAnswered(known)) \/ TestTyped \/ TestAnswered
               \/ SaveRefused \/ TimerFires
ProbeStep == \/ \E i \in 0..MaxSaves : \/ ProbeRead(i) \/ ProbeRefused(i)
                                       \/ ProbeClaim(i) \/ ProbeAnswered(i)
             \/ ChatEnds

LEMMA NextCases == Next => DialogStays \/ ProbeStep \/ SaveBegins \/ SaveNext
  BY DEF Next, DialogNext, DialogStays, ProbeStep, SaveBegins

LEMMA IdleSteps ==
    ASSUME SavesInv, DialogStays \/ ProbeStep
    PROVE  SavesInv' /\ Idle
  <1>1. UNCHANGED <<disk, last, crossed, goCrossed>> /\ (saves' = Left \/ UNCHANGED saves)
    BY DEF DialogStays, ProbeStep, OpenSettings, CloseSettings, ShowTab, Mount, LoadLLM,
           ChooseProvider, TypeKey, KeyStatusAnswered, TestTyped, TestAnswered, SaveRefused,
           TimerFires, FormOnly, ProbeRead, ProbeRefused, ProbeClaim, ProbeAnswered, ChatEnds, ProbeOnly
  <1> QED BY <1>1, LeftStays DEF Idle

LEMMA BeginSteps ==
    ASSUME SavesInv, FormInv, SaveBegins
    PROVE  SavesInv' /\ BeginsOne
  <1>1. ASSUME NEW by \in Fields, NEW value \in Values(by), NEW key \in Providers \cup {None},
               NEW from \in {"tab", "command"}, Begin(by, value, key, from),
               from = "tab" => by \in SimpleTabs \cup {"llm"},
               from = "command" /\ by = "llm" => value \in Providers
        PROVE  SavesInv' /\ BeginsOne
    BY <1>1, BeginMoves DEF Begin, BeginsOne
  <1>2. \A f \in Fields : f # "llm" /\ Next1 \in Saves => Next1 \in Values(f)
    BY SettingsAssumption DEF Values, Saves
  <1>3. ASSUME NEW t \in SimpleTabs, SaveTab(t)
        PROVE  SavesInv' /\ BeginsOne
    <2>1. t \in Fields /\ t # "llm" /\ Next1 \in Saves /\ Begin(t, Next1, None, "tab")
      BY <1>3, SettingsAssumption DEF SaveTab, Fields, Begin
    <2> QED BY <1>1, <1>2, <2>1
  <1>4. ASSUME SaveLLM
        PROVE  SavesInv' /\ BeginsOne
    <2>1. "llm" \in Fields /\ llm.provider \in Values("llm") /\ llm.key \in Providers \cup {None}
      BY DEF FormInv, Fields, Values
    <2>2. \E key \in Providers \cup {None} : Begin("llm", llm.provider, key, "tab")
      BY <1>4, <2>1 DEF SaveLLM
    <2> QED BY <1>1, <2>1, <2>2
  <1>5. ASSUME ModelCommand
        PROVE  SavesInv' /\ BeginsOne
    <2>1. "llm" \in Fields /\ \A p \in Providers : p \in Values("llm")
      BY DEF Fields, Values, Choices
    <2>2. \E p \in Providers : Begin("llm", p, None, "command")
      BY <1>5 DEF ModelCommand, Command
    <2> QED BY <1>1, <2>1, <2>2
  <1>6. ASSUME ContextCommand \/ SavePinned
        PROVE  SavesInv' /\ BeginsOne
    <2>1. PICK by \in {"context", "pinned"} : Begin(by, Next1, None, "command")
      BY <1>6 DEF ContextCommand, SavePinned, Command
    <2>2. by \in Fields /\ by # "llm" /\ Next1 \in Saves
      BY <2>1 DEF Fields, Begin
    <2> QED BY <1>1, <1>2, <2>1, <2>2
  <1> QED BY <1>3, <1>4, <1>5, <1>6 DEF SaveBegins

-----------------------------------------------------------------------------
(* Types. *)

LEMMA InitType == Init => TypeInv
  <1> SUFFICES ASSUME Init PROVE TypeInv
    OBVIOUS
  <1>1. FilesInv
    BY FilesClosed DEF Init, FilesInv, Fields, Values, Choices
  <1>2. NoSave \in SaveRecords /\ NoSave.stage = "new"
    BY FilesClosed, SettingsAssumption DEF NoSave, SaveRecords, Any, Stages
  <1>3. SavesInv
    <2>1. \A i \in Saves : saves[i] = NoSave
      BY DEF Init
    <2>2. saves \in [Saves -> SaveRecords] /\ \A i \in Saves : OwnerOK(saves[i])
      BY <1>2, <2>1 DEF Init, OwnerOK
    <2>3. 0 \in 0..MaxSaves /\ \A i \in Saves : saves[i].stage = "new" <=> i > 0
      BY <1>2, <2>1, SettingsAssumption DEF Saves
    <2> QED BY <2>2, <2>3 DEF SavesInv, Numbered, OwnerOK
  <1>4. FormInv
    BY SettingsAssumption DEF Init, FormInv, Closed, Unmounted, Choices, ProbeRecords, NoProbe
  <1>5. TimersInv
    <2>1. Overs = {}
      BY <1>2 DEF Init, Overs
    <2> QED BY <2>1, FS_EmptySet DEF Init, TimersInv, Closed
  <1> QED BY <1>1, <1>3, <1>4, <1>5 DEF TypeInv

\* A Write of a save under way leaves files.
LEMMA WriteFiles ==
    ASSUME FilesInv, SavesInv, NEW i \in Saves, saves[i].stage \in {"write", "rewrite"}, Write(i)
    PROVE  FilesInv'
  <1>1. /\ saves[i].cur \in Files /\ saves[i].by \in Fields
        /\ saves[i].value \in Values(saves[i].by)
    BY DEF SavesInv, SaveRecords, OwnerOK
  <1> QED BY <1>1, FilesClosed DEF FilesInv, Write

LEMMA FilesStep == TypeInv /\ Next => FilesInv'
  <1> SUFFICES ASSUME TypeInv, Next PROVE FilesInv'
    OBVIOUS
  <1>1. CASE DialogStays \/ ProbeStep
    BY <1>1, IdleSteps DEF TypeInv, FilesInv, Idle
  <1>2. CASE SaveBegins
    BY <1>2, BeginSteps DEF TypeInv, FilesInv, BeginsOne
  <1>3. ASSUME NEW i \in Saves,
               MergeRead(i) \/ SaveLoad(i) \/ KeyStored(i) \/ Reload(i) \/ SaveFailed(i) \/ LLMAnswered(i)
        PROVE  FilesInv'
    BY <1>3, FilesClosed DEF TypeInv, FilesInv, MergeRead, SaveLoad, KeyStored, Reload, SaveFailed, LLMAnswered
  <1>4. ASSUME NEW i \in Saves, TabSaved(i) \/ LLMWritten(i) \/ ModelWritten(i) \/ CommandDone(i)
        PROVE  FilesInv'
    <2>1. saves[i].stage \in {"write", "rewrite"} /\ Write(i)
      BY <1>4 DEF TabSaved, LLMWritten, ModelWritten, CommandDone, Step
    <2> QED BY <2>1, WriteFiles DEF TypeInv
  <1> QED BY <1>1, <1>2, <1>3, <1>4, NextCases DEF SaveNext

LEMMA SavesStep == TypeInv /\ Next => SavesInv'
  BY NextCases, IdleSteps, BeginSteps, SaveSteps DEF TypeInv, SaveNext

\* The answers are those of a probe of a provider of the catalog.
LEMMA FormStep == TypeInv /\ Next => FormInv'
  <1> SUFFICES ASSUME TypeInv, Next PROVE FormInv'
    OBVIOUS
  <1> DEFINE FormType == [tab : SimpleTabs \cup {"llm", "closed"}, saving : BOOLEAN, timers : Nat]
             LlmType == [loaded : BOOLEAN, provider : Choices, key : Providers \cup {None},
                         asks : 0..MaxAsks, missed : BOOLEAN, testing : BOOLEAN]
  <1>1. /\ form \in FormType /\ llm \in LlmType
        /\ Closed \in FormType /\ Unmounted \in LlmType
    BY SettingsAssumption DEF TypeInv, FormInv, Closed, Unmounted, Choices
  <1>2. form' \in FormType /\ llm' \in LlmType
    <2>0. MaxAsks \in Nat /\ MaxAsks > 0 /\ \A n \in Nat : n + 1 \in Nat /\ (n > 0 => n - 1 \in Nat)
      BY SettingsAssumption
    <2>1. ASSUME NEW t \in SimpleTabs \cup {"llm"}, Mount(t)
          PROVE  form' \in FormType /\ llm' \in LlmType
      <3>1. [Closed EXCEPT !.tab = t] \in FormType
        BY <1>1
      <3>2. [Unmounted EXCEPT !.asks = 1] \in LlmType
        BY <1>1, <2>0
      <3> QED BY <1>1, <2>1, <3>1, <3>2 DEF Mount
    <2>2. CASE OpenSettings \/ \E t \in SimpleTabs \cup {"llm"} : ShowTab(t)
      BY <2>1, <2>2 DEF OpenSettings, ShowTab
    <2>3. CASE CloseSettings
      BY <1>1, <2>3 DEF CloseSettings
    <2>4. ASSUME NEW p \in Choices, llm.asks < MaxAsks
          PROVE  Switched(p) \in LlmType
      <3>1. llm.asks + 1 \in 0..MaxAsks
        BY <1>1, <2>0, <2>4
      <3>2. [llm EXCEPT !.provider = p, !.asks = llm.asks + 1] \in LlmType
        BY <1>1, <3>1
      <3> QED BY <3>2 DEF Switched
    <2>5. CASE LoadLLM
      <3>1. PICK c \in Readings : llm' = [Loaded(c["llm"]) EXCEPT !.loaded = TRUE]
        BY <2>5 DEF LoadLLM
      <3>2. c["llm"] \in Choices \cup {None}
        BY ReadingsFacts DEF TypeInv, Files, Fields, Values
      <3>3. Loaded(c["llm"]) \in LlmType
        BY <1>1, <2>4, <2>5, <3>2 DEF Loaded, LoadLLM
      <3> QED BY <1>1, <2>5, <3>1, <3>3 DEF LoadLLM
    <2>6. CASE \E p \in Choices : ChooseProvider(p)
      BY <1>1, <2>4, <2>6 DEF ChooseProvider
    <2>7. CASE TypeKey \/ TestTyped \/ TestAnswered \/ SaveRefused \/ TimerFires
      <3>1. CASE TypeKey
        BY <1>1, <3>1 DEF TypeKey
      <3>2. CASE TestTyped \/ TestAnswered
        <4>1. \E b \in BOOLEAN : llm' = [llm EXCEPT !.testing = b]
          BY <3>2 DEF TestTyped, TestAnswered
        <4>2. form' = form
          BY <3>2 DEF TestTyped, TestAnswered
        <4> QED BY <1>1, <4>1, <4>2
      <3>3. CASE SaveRefused
        BY <1>1, <3>3 DEF SaveRefused
      <3>4. CASE TimerFires
        <4>1. form.timers - 1 \in Nat
          BY <1>1, <2>0, <3>4 DEF TimerFires
        <4> QED BY <1>1, <3>4, <4>1 DEF TimerFires
      <3> QED BY <2>7, <3>1, <3>2, <3>3, <3>4
    <2>8. CASE \E known \in BOOLEAN : KeyStatusAnswered(known)
      <3>1. llm.asks > 0 => llm.asks - 1 \in 0..MaxAsks
        BY <1>1, <2>0
      <3>2. PICK known \in BOOLEAN : KeyStatusAnswered(known)
        BY <2>8
      <3> DEFINE key == IF known THEN None ELSE llm.key
                 missed == llm.missed \/ ~known
      <3>3. llm' = [llm EXCEPT !.asks = llm.asks - 1, !.key = key, !.missed = missed]
            /\ llm.asks - 1 \in 0..MaxAsks /\ form' = form
        BY <1>1, <3>1, <3>2 DEF KeyStatusAnswered
      <3>4. key \in Providers \cup {None} /\ missed \in BOOLEAN
        BY <1>1
      <3> HIDE DEF key, missed
      <3> QED BY <1>1, <3>3, <3>4
    <2>9. CASE ProbeStep
      BY <1>1, <2>9 DEF ProbeStep, ProbeRead, ProbeRefused, ProbeClaim, ProbeAnswered, ChatEnds, ProbeOnly
    <2>10. CASE SaveBegins
      BY <1>1, <2>10 DEF SaveBegins, SaveTab, SaveLLM, ModelCommand, ContextCommand, SavePinned,
                         Command, Saving, Begin
    <2>11. ASSUME NEW i \in Saves, End(i)
           PROVE  form' \in FormType /\ llm' \in LlmType
      <3>1. form.timers + 1 \in Nat
        BY <1>1, <2>0
      <3> QED BY <1>1, <2>11, <3>1 DEF End, Labelled
    <2>12. CASE SaveNext
      BY <1>1, <2>11, <2>12
         DEF SaveNext, MergeRead, SaveLoad, TabSaved, LLMWritten, KeyStored, Reload, ModelWritten,
             CommandDone, LLMAnswered, SaveFailed, Step
    <2> QED BY <2>2, <2>3, <2>5, <2>6, <2>7, <2>8, <2>9, <2>10, <2>12, NextCases DEF DialogStays
  <1>3. /\ status' \in {"checking", "connected", "disconnected", "disabled"}
        /\ probes' \in [0..MaxSaves -> ProbeRecords]
    <2>1. CASE DialogStays
      BY <2>1 DEF TypeInv, FormInv, DialogStays, OpenSettings, CloseSettings, ShowTab, Mount, LoadLLM,
                  ChooseProvider, TypeKey, KeyStatusAnswered, TestTyped, TestAnswered, SaveRefused,
                  TimerFires, FormOnly
    <2>2. CASE ProbeStep
      <3>1. \A c \in Readings : c["llm"] \in Choices \cup {None}
        BY ReadingsFacts DEF TypeInv, Files, Fields, Values
      <3>2. CASE \E i \in 0..MaxSaves : ProbeRead(i)
        BY <3>1, <3>2 DEF TypeInv, FormInv, ProbeRecords, ProbeRead
      <3>3. ASSUME NEW i \in 0..MaxSaves, NEW from, NEW to \in {"test", "over", "refused"},
                   Probed(i, from, to)
            PROVE  probes' \in [0..MaxSaves -> ProbeRecords]
        BY <3>3 DEF TypeInv, FormInv, ProbeRecords, Probed, NoProbe
      <3>4. CASE \E i \in 0..MaxSaves : ProbeRefused(i) \/ ProbeClaim(i) \/ ProbeAnswered(i)
        BY <3>3, <3>4 DEF TypeInv, FormInv, ProbeRefused, ProbeClaim, ProbeAnswered, Shown
      <3>5. CASE ChatEnds
        BY <3>5 DEF TypeInv, FormInv, ChatEnds
      <3> QED BY <2>2, <3>2, <3>4, <3>5 DEF ProbeStep
    <2>3. CASE SaveBegins
      BY <2>3, BeginSteps DEF TypeInv, FormInv, BeginsOne
    <2>4. ASSUME NEW i \in Saves, LLMAnswered(i)
          PROVE  /\ status' \in {"checking", "connected", "disconnected", "disabled"}
                 /\ probes' \in [0..MaxSaves -> ProbeRecords]
      BY <2>4 DEF TypeInv, FormInv, LLMAnswered, ProbeRecords
    <2>5. CASE SaveNext
      BY <2>4, <2>5
         DEF TypeInv, FormInv, SaveNext, MergeRead, SaveLoad, TabSaved, LLMWritten, KeyStored, Reload,
             ModelWritten, CommandDone, SaveFailed, Step, End
    <2> QED BY <2>1, <2>2, <2>3, <2>5, NextCases
  <1> QED BY <1>2, <1>3 DEF FormInv

\* How many saves are over.
LEMMA OversFinite == SettingsAssumption => Cardinality(Overs) \in Nat /\ Cardinality(Overs) <= MaxSaves
  <1> SUFFICES ASSUME SettingsAssumption PROVE Cardinality(Overs) \in Nat /\ Cardinality(Overs) <= MaxSaves
    OBVIOUS
  <1>1. IsFiniteSet(Saves) /\ Cardinality(Saves) = MaxSaves
    BY FS_Interval, SettingsAssumption DEF Saves
  <1>2. Overs \in SUBSET Saves
    BY DEF Overs
  <1> QED BY <1>1, <1>2, FS_Subset, FS_CardinalityType

\* A step that ends no save, and sets no more timers than the one of a refused save.
LEMMA TimersKept ==
    ASSUME TimersInv, \A j \in Saves : saves'[j].stage = "over" <=> saves[j].stage = "over",
           form'.timers \in Nat, form'.timers <= form.timers \/ form'.timers <= 1
    PROVE  TimersInv'
  <1>1. Overs' = Overs
    BY DEF Overs, Saves
  <1>2. Cardinality(Overs)' = Cardinality(Overs)
    BY <1>1
  <1> QED BY <1>2, OversFinite, SettingsAssumption DEF TimersInv

LEMMA TimersStep == TypeInv /\ Next => TimersInv'
  <1> SUFFICES ASSUME TypeInv, Next PROVE TimersInv'
    OBVIOUS
  <1>1. form.timers \in Nat /\ form'.timers \in Nat /\ TimersInv
    BY FormStep DEF TypeInv, FormInv
  <1>2. CASE DialogStays \/ ProbeStep
    <2>1. form'.timers <= form.timers \/ form'.timers <= 1
      <3>1. CASE OpenSettings \/ CloseSettings \/ \E t \in SimpleTabs \cup {"llm"} : ShowTab(t)
        <4>1. form'.timers = 0
          BY <3>1 DEF OpenSettings, CloseSettings, ShowTab, Mount, Closed
        <4> QED BY <4>1
      <3>2. CASE SaveRefused
        <4>1. form'.timers = 1
          BY <3>2 DEF SaveRefused, TypeInv, FormInv
        <4> QED BY <4>1
      <3>3. CASE TimerFires
        <4>1. form'.timers = form.timers - 1
          BY <3>3 DEF TimerFires, TypeInv, FormInv
        <4> QED BY <1>1, <4>1
      <3>4. CASE UNCHANGED form
        BY <1>1, <3>4
      <3> QED BY <1>2, <3>1, <3>2, <3>3, <3>4
              DEF DialogStays, ProbeStep, LoadLLM, ChooseProvider, TypeKey, KeyStatusAnswered,
                  TestTyped, TestAnswered, ProbeRead, ProbeRefused, ProbeClaim, ProbeAnswered, ChatEnds, ProbeOnly
    <2>2. \A j \in Saves : saves'[j].stage = saves[j].stage
      BY <1>2, IdleSteps DEF TypeInv, Idle, Same
    <2> QED BY <1>1, <2>1, <2>2, TimersKept
  <1>3. CASE SaveBegins
    <2>1. form'.timers = form.timers
      BY <1>3 DEF SaveBegins, SaveTab, SaveLLM, ModelCommand, ContextCommand, SavePinned, Command,
                  Saving, TypeInv, FormInv
    <2>2. \A j \in Saves : saves'[j].stage = "over" <=> saves[j].stage = "over"
      BY <1>3, BeginSteps DEF TypeInv, BeginsOne, Begins, Same
    <2> QED BY <1>1, <2>1, <2>2, TimersKept
  <1>4. ASSUME NEW i \in Saves, MergeRead(i) \/ SaveLoad(i) \/ LLMWritten(i) \/ KeyStored(i)
                                \/ Reload(i) \/ ModelWritten(i)
        PROVE  TimersInv'
    <2>1. UNCHANGED form
      BY <1>4 DEF MergeRead, SaveLoad, LLMWritten, KeyStored, Reload, ModelWritten, Step
    <2>2. \A j \in Saves : saves'[j].stage = "over" <=> saves[j].stage = "over"
      <3>1. \E to \in {"save", "write", "answer", "key", "reload", "rewrite"} : Moves(i, to)
        BY <1>4, SaveSteps DEF TypeInv, GoesOn
      <3> QED BY <3>1 DEF Moves, Same
    <2> QED BY <1>1, <2>1, <2>2, TimersKept
  <1>5. ASSUME NEW i \in Saves, TabSaved(i) \/ CommandDone(i) \/ SaveFailed(i)
        PROVE  TimersInv'
    <2>1. Moves(i, "over") /\ End(i)
      BY <1>5, SaveSteps DEF TypeInv, TabSaved, CommandDone, SaveFailed
    <2>2. Overs' = Overs \cup {i} /\ i \notin Overs
      BY <2>1 DEF Moves, Same, Overs, Saves
    <2>3. IsFiniteSet(Overs)
      <3>1. IsFiniteSet(Saves) /\ Overs \in SUBSET Saves
        BY FS_Interval, SettingsAssumption DEF Saves, Overs
      <3> QED BY <3>1, FS_Subset
    <2>4. Cardinality(Overs \cup {i}) = Cardinality(Overs) + 1
      BY <2>2, <2>3, FS_AddElement
    <2>5. Cardinality(Overs)' = Cardinality(Overs) + 1
      BY <2>2, <2>4
    <2>6. form'.timers = form.timers \/ form'.timers = form.timers + 1
      BY <2>1 DEF End, Labelled, TypeInv, FormInv
    <2> QED BY <1>1, <2>5, <2>6, OversFinite, SettingsAssumption DEF TimersInv
  <1>6. ASSUME NEW i \in Saves, LLMAnswered(i)
        PROVE  TimersInv'
    <2>1. form'.timers = 0
      BY <1>6 DEF LLMAnswered, Closed
    <2>2. Cardinality(Overs)' \in Nat
      <3>1. IsFiniteSet(Saves) /\ Overs' \in SUBSET Saves
        BY FS_Interval, SettingsAssumption DEF Saves, Overs
      <3>2. Cardinality(Overs') \in Nat
        BY <3>1, FS_Subset, FS_CardinalityType
      <3> QED BY <3>2
    <2> QED BY <2>1, <2>2 DEF TimersInv
  <1> QED BY <1>2, <1>3, <1>4, <1>5, <1>6, NextCases DEF SaveNext

LEMMA TypeStep == TypeInv /\ [Next]_vars => TypeInv'
  <1> SUFFICES ASSUME TypeInv, [Next]_vars PROVE TypeInv'
    OBVIOUS
  <1>1. CASE Next
    BY <1>1, FilesStep, SavesStep, FormStep, TimersStep DEF TypeInv
  <1>2. CASE UNCHANGED vars
    <2>1. FilesInv' /\ FormInv'
      BY <1>2 DEF vars, TypeInv, FilesInv, FormInv
    <2>2. SavesInv' /\ \A j \in Saves : Same(j)
      BY <1>2, LeftStays DEF vars, TypeInv
    <2>3. TimersInv'
      BY <1>2 DEF vars, TypeInv, TimersInv, Overs
    <2> QED BY <2>1, <2>2, <2>3 DEF TypeInv
  <1> QED BY <1>1, <1>2

\* The variables keep their types; a form never has more timers running than one for each
\* save and one for a refused save (the saved and error labels of the LLM tab).
THEOREM TypeCorrect == Spec => []TypeOK
  <1>1. TypeInv => TypeOK
    <2> SUFFICES ASSUME TypeInv PROVE TypeOK
      OBVIOUS
    <2>1. form.timers \in 0..MaxSaves + 1
      BY OversFinite, SettingsAssumption DEF TypeInv, TimersInv
    <2>2. /\ disk \in [Fields -> Choices \cup {None} \cup 0..MaxSaves]
          /\ \A f \in Fields : disk[f] \in Values(f) /\ last[f] \in Values(f)
      BY DEF TypeInv, FilesInv, Files, Any
    <2>3. ASSUME NEW i \in Saves
          PROVE  saves[i].by \in Fields \cup {"nobody"} /\ saves[i].stage \in Stages
                 /\ \A f \in Fields : saves[i].cur[f] \in Values(f)
      BY DEF TypeInv, SavesInv, SaveRecords, Files
    <2>4. form.tab \in SimpleTabs \cup {"llm", "closed"} /\ llm.provider \in Choices
          /\ llm.key \in Providers \cup {None} /\ llm.asks \in 0..MaxAsks
      BY DEF TypeInv, FormInv
    <2> QED BY <2>1, <2>2, <2>3, <2>4 DEF TypeOK, TypeInv, FormInv, ProbeRecords
  <1> QED BY <1>1, InitType, TypeStep, PTL DEF Spec

-----------------------------------------------------------------------------
(* What the file keeps. *)

\* A step that moves no save between a read and a write, and neither the file nor the
\* history, keeps both invariants of the file.
LEMMA FilesKept ==
    ASSUME TypeInv, UNCHANGED <<disk, last>>, crossed => crossed', goCrossed => goCrossed',
           \A j \in Saves : Same(j) \/ ~Holding(j)'
    PROVE  /\ (~crossed => AloneInv) => (~crossed' => AloneInv')
           /\ (~goCrossed => PinnedInv) => (~goCrossed' => PinnedInv')
  <1>1. \A j \in Saves : Holding(j)' => Holding(j) /\ Same(j)
    BY DEF Holding, Same
  <1>2. \A j \in Saves : InGo(j)' => InGo(j) /\ Same(j)
    BY DEF Holding, InGo, Same
  <1>3. \A j \in Saves : saves'[j].stage = "save" => saves[j].stage = "save" /\ Same(j)
    BY DEF Holding, Same
  <1>4. ASSUME AloneInv PROVE AloneInv'
    BY <1>1, <1>2, <1>3, <1>4 DEF AloneInv, Same, Saves
  <1>5. ASSUME PinnedInv PROVE PinnedInv'
    BY <1>2, <1>5 DEF PinnedInv, Same, Saves
  <1> QED BY <1>4, <1>5

\* The stages of Holding and InGo, of a save that goes on.
LEMMA GoingOn ==
    ASSUME NEW i \in Saves, NEW to, Moves(i, to)
    PROVE  /\ \A j \in Saves \ {i} : /\ Holding(j)' <=> Holding(j)
                                     /\ InGo(j)' <=> InGo(j)
                                     /\ Same(j)
           /\ Holding(i)' <=> to \in {"save", "write", "rewrite"}
           /\ InGo(i)' <=> to \in {"write", "rewrite"}
  BY DEF Moves, Same, Holding, InGo

\* A write that fails half way leaves no save between a read and a write.
LEMMA Emptied ==
    ASSUME TypeInv, NEW i \in Saves, NEW to \in {"reload", "over"}, Moves(i, to), InGo(i),
           disk' = Empty, last' = Empty
    PROVE  /\ AloneInv => AloneInv'
           /\ PinnedInv => PinnedInv'
  <1>1. ~Holding(i)' /\ ~InGo(i)' /\ saves'[i].stage # "save" /\ Holding(i)
    BY GoingOn DEF Moves, Holding, InGo
  <1>2. ASSUME AloneInv PROVE AloneInv'
    <2>1. \A j \in Saves : ~Holding(j)'
      BY <1>1, <1>2, GoingOn DEF AloneInv
    <2>2. \A j \in Saves : ~InGo(j)' /\ saves'[j].stage # "save"
      BY <2>1 DEF Holding, InGo
    <2> QED BY <2>1, <2>2 DEF AloneInv, Saves
  <1>3. ASSUME PinnedInv PROVE PinnedInv'
    <2>1. \A j \in Saves : ~InGo(j)'
      BY <1>1, <1>3, GoingOn DEF PinnedInv
    <2> QED BY <2>1 DEF PinnedInv, Saves
  <1> QED BY <1>2, <1>3

\* Saves that do not meet, through every step.
LEMMA AloneStep ==
    ASSUME TypeInv, ~crossed => AloneInv, [Next]_vars
    PROVE  ~crossed' => AloneInv'
  <1> SUFFICES ASSUME ~crossed' PROVE AloneInv'
    OBVIOUS
  <1>1. CASE UNCHANGED vars
    <2>1. \A j \in Saves : Same(j)
      BY <1>1 DEF vars, Same
    <2> QED BY <1>1, <2>1, FilesKept DEF vars
  <1>2. CASE DialogStays \/ ProbeStep
    <2>1. Idle
      BY <1>2, IdleSteps DEF TypeInv
    <2> QED BY <2>1, FilesKept DEF Idle
  <1>3. CASE SaveBegins
    <2>1. BeginsOne
      BY <1>3, BeginSteps DEF TypeInv
    <2>2. \A j \in Saves : Same(j) \/ ~Holding(j)'
      BY <2>1 DEF BeginsOne, Begins, Holding
    <2> QED BY <2>1, <2>2, FilesKept DEF BeginsOne
  <1>4. ASSUME NEW i \in Saves, KeyStored(i) \/ SaveFailed(i) \/ LLMAnswered(i)
        PROVE  AloneInv'
    <2>1. Moves(i, "reload") \/ Moves(i, "over")
      BY <1>4, SaveSteps DEF TypeInv, GoesOn
    <2>2. ~Holding(i)' /\ ~InGo(i)' /\ \A j \in Saves \ {i} : Same(j)
      BY <2>1, GoingOn
    <2>3. UNCHANGED <<crossed, goCrossed>>
      BY <1>4 DEF KeyStored, SaveFailed, LLMAnswered, End
    <2>4. CASE UNCHANGED <<disk, last>>
      BY <2>2, <2>3, <2>4, FilesKept
    <2>5. CASE InGo(i) /\ disk' = Empty /\ last' = Empty
      BY <2>1, <2>2, <2>3, <2>5, Emptied
    <2> QED BY <1>4, <2>4, <2>5 DEF KeyStored, SaveFailed, LLMAnswered
  <1>5. ASSUME NEW i \in Saves, MergeRead(i) \/ Reload(i)
        PROVE  AloneInv'
    <2>1. ~crossed /\ (\A j \in Saves \ {i} : ~Holding(j)) /\ UNCHANGED <<disk, last>>
      BY <1>5 DEF MergeRead, Reload
    <2>2. AloneInv /\ \A c \in Readings : c = disk
      <3>1. ~InGo(i)
        BY <1>5, SaveSteps DEF TypeInv, InGo
      <3>2. \A j \in Saves : ~InGo(j)
        BY <2>1, <3>1 DEF Holding, InGo
      <3> QED BY <2>1, <3>2, ReadingsFacts DEF TypeInv
    <2>3. PICK to \in {"save", "rewrite"} :
             /\ Moves(i, to) /\ saves'[i].value = saves[i].value
             /\ to = "save" => saves'[i].cur = disk
             /\ to = "rewrite" => saves'[i].cur = [disk EXCEPT ![saves[i].by] = saves[i].value]
      BY <1>5, <2>2, SaveSteps DEF TypeInv, GoesOn
    <2>4. (\A j \in Saves \ {i} : ~Holding(j)' /\ ~InGo(j)') /\ saves'[i].by = saves[i].by
          /\ saves'[i].stage = to
      BY <2>1, <2>3, GoingOn DEF Holding, InGo, Moves
    <2>5. \A j \in Saves \ {i} : saves'[j].stage # "save"
      BY <2>4 DEF Holding
    <2> QED BY <2>1, <2>2, <2>3, <2>4, <2>5 DEF AloneInv, Saves, InGo
  <1>6. ASSUME NEW i \in Saves, SaveLoad(i)
        PROVE  AloneInv'
    <2>1. ~crossed /\ UNCHANGED <<disk, last>> /\ AloneInv
      BY <1>6 DEF SaveLoad
    <2>2. PICK c \in Readings :
             GoesOn(i, "write", Preserved(i, c)) /\ saves[i].stage = "save" /\ Holding(i)
      BY <1>6, SaveSteps DEF TypeInv, Holding
    <2>3. /\ saves[i].cur = disk /\ last = disk /\ disk \in Files /\ c = disk
          /\ \A j \in Saves : Holding(j) => j = i
      <3>1. \A j \in Saves : Holding(j) => j = i
        BY <2>1, <2>2 DEF AloneInv
      <3>2. \A j \in Saves : ~InGo(j)
        BY <2>2, <3>1 DEF Holding, InGo
      <3> QED BY <2>1, <2>2, <3>1, <3>2, ReadingsFacts DEF AloneInv, TypeInv, FilesInv
    <2>4. saves[i].by \in Fields /\ saves[i].by # "pinned"
      BY <2>2, SettingsAssumption DEF TypeInv, SavesInv, OwnerOK
    <2>5. Preserved(i, c) = [last EXCEPT ![saves[i].by] = saves[i].value]
      BY <2>3, <2>4 DEF Preserved, Files
    <2>6. \A j \in Saves \ {i} : ~Holding(j)' /\ ~InGo(j)'
      BY <2>2, <2>3, GoingOn DEF GoesOn, Holding, InGo
    <2>7. saves'[i].stage = "write" /\ saves'[i].cur = Preserved(i, c)
          /\ saves'[i].by = saves[i].by /\ saves'[i].value = saves[i].value
      BY <2>2 DEF GoesOn, Moves
    <2>8. \A j \in Saves : saves'[j].stage # "save"
      BY <2>6, <2>7 DEF Holding
    <2> QED BY <2>1, <2>5, <2>6, <2>7, <2>8 DEF AloneInv, Saves
  <1>7. ASSUME NEW i \in Saves, TabSaved(i) \/ LLMWritten(i) \/ ModelWritten(i) \/ CommandDone(i)
        PROVE  AloneInv'
    <2>1. ~crossed /\ Write(i) /\ AloneInv
      BY <1>7 DEF TabSaved, LLMWritten, ModelWritten, CommandDone, End, Step
    <2>2. /\ InGo(i) /\ Holding(i)
          /\ \E to \in {"over", "answer", "key", "reload"} : Moves(i, to)
      BY <1>7, SaveSteps DEF TypeInv, GoesOn, Holding, InGo
    <2>3. disk' = last'
      BY <2>1, <2>2 DEF Write, AloneInv
    <2>4. \A j \in Saves : ~Holding(j)' /\ ~InGo(j)'
      BY <2>1, <2>2, GoingOn DEF AloneInv, Holding, InGo
    <2>5. \A j \in Saves : saves'[j].stage # "save"
      BY <2>4 DEF Holding
    <2> QED BY <2>3, <2>4, <2>5 DEF AloneInv, Saves
  <1> QED BY <1>1, <1>2, <1>3, <1>4, <1>5, <1>6, <1>7, NextCases DEF SaveNext

\* Saves none of which read the file while another was under way lose nothing (mergeAndSaveSettings
\* and the Go calls write the whole file back): every field holds what its owner wrote last.
THEOREM SavesMergeWhole == Spec => []SavesAloneSurvive
  <1> DEFINE J == TypeInv /\ (~crossed => AloneInv)
  <1>1. Init => J
    <2>1. Init => \A i \in Saves : saves[i].stage = "new"
      BY DEF Init, NoSave
    <2> QED BY <2>1, InitType DEF Init, AloneInv, Holding, InGo
  <1>2. J /\ [Next]_vars => J'
    BY TypeStep, AloneStep
  <1>3. J => SavesAloneSurvive
    BY DEF AloneInv, SavesAloneSurvive
  <1> QED BY <1>1, <1>2, <1>3, PTL DEF Spec

\* Go calls that do not meet, through every step.
LEMMA PinnedStep ==
    ASSUME TypeInv, ~goCrossed => PinnedInv, [Next]_vars
    PROVE  ~goCrossed' => PinnedInv'
  <1> SUFFICES ASSUME ~goCrossed' PROVE PinnedInv'
    OBVIOUS
  <1>0. "pinned" \in Fields /\ disk \in Files /\ last \in Files /\ \A i \in Saves : saves[i].cur \in Files
    BY DEF Fields, TypeInv, FilesInv, SavesInv, SaveRecords
  <1>1. CASE UNCHANGED vars
    <2>1. \A j \in Saves : Same(j)
      BY <1>1 DEF vars, Same
    <2> QED BY <1>1, <2>1, FilesKept DEF vars
  <1>2. CASE DialogStays \/ ProbeStep
    <2>1. Idle
      BY <1>2, IdleSteps DEF TypeInv
    <2> QED BY <2>1, FilesKept DEF Idle
  <1>3. CASE SaveBegins
    <2>1. BeginsOne
      BY <1>3, BeginSteps DEF TypeInv
    <2>2. \A j \in Saves : Same(j) \/ ~Holding(j)'
      BY <2>1 DEF BeginsOne, Begins, Holding
    <2> QED BY <2>1, <2>2, FilesKept DEF BeginsOne
  <1>4. ASSUME NEW i \in Saves, KeyStored(i) \/ SaveFailed(i) \/ LLMAnswered(i)
        PROVE  PinnedInv'
    <2>1. Moves(i, "reload") \/ Moves(i, "over")
      BY <1>4, SaveSteps DEF TypeInv, GoesOn
    <2>2. ~Holding(i)' /\ ~InGo(i)' /\ \A j \in Saves \ {i} : Same(j)
      BY <2>1, GoingOn
    <2>3. UNCHANGED <<crossed, goCrossed>>
      BY <1>4 DEF KeyStored, SaveFailed, LLMAnswered, End
    <2>4. CASE UNCHANGED <<disk, last>>
      BY <2>2, <2>3, <2>4, FilesKept
    <2>5. CASE InGo(i) /\ disk' = Empty /\ last' = Empty
      BY <2>1, <2>2, <2>3, <2>5, Emptied
    <2> QED BY <1>4, <2>4, <2>5 DEF KeyStored, SaveFailed, LLMAnswered
  <1>5. ASSUME NEW i \in Saves, MergeRead(i)
        PROVE  PinnedInv'
    <2>1. ~goCrossed /\ UNCHANGED <<disk, last>> /\ Moves(i, "save") /\ PinnedInv
      BY <1>5, SaveSteps DEF MergeRead, TypeInv, GoesOn
    <2>2. \A j \in Saves : InGo(j)' => InGo(j) /\ Same(j)
      BY <2>1, GoingOn
    <2> QED BY <2>1, <2>2 DEF PinnedInv, Same, Saves
  <1>6. ASSUME NEW i \in Saves, SaveLoad(i) \/ Reload(i)
        PROVE  PinnedInv'
    <2>1. ~goCrossed /\ UNCHANGED <<disk, last>> /\ \A j \in Saves \ {i} : ~InGo(j)
      BY <1>6 DEF SaveLoad, Reload
    <2>2. PinnedInv /\ \A r \in Readings : r = disk
      <3>1. ~InGo(i)
        BY <1>6, SaveSteps DEF TypeInv, InGo
      <3>2. \A j \in Saves : ~InGo(j)
        BY <2>1, <3>1
      <3> QED BY <2>1, <3>2, ReadingsFacts DEF TypeInv
    <2>3. PICK to \in {"write", "rewrite"}, c \in Files :
            /\ GoesOn(i, to, c)
            /\ c["pinned"] = IF saves[i].by = "pinned" THEN saves[i].value ELSE disk["pinned"]
      <3>1. CASE SaveLoad(i)
        <4>1. SavesInv' /\ GoesOn(i, "write", Preserved(i, disk)) /\ saves[i].stage = "save"
          BY <2>2, <3>1, SaveSteps DEF TypeInv
        <4>2. saves[i].by # "pinned" /\ saves'[i].cur = Preserved(i, disk) /\ saves'[i].cur \in Files
          BY <4>1, SettingsAssumption DEF TypeInv, SavesInv, OwnerOK, GoesOn, SaveRecords
        <4>3. Preserved(i, disk)["pinned"] = disk["pinned"]
          BY <1>0 DEF Preserved, Files
        <4> QED BY <4>1, <4>2, <4>3
      <3>2. CASE Reload(i)
        <4> DEFINE c == [disk EXCEPT ![saves[i].by] = saves[i].value]
        <4>1. SavesInv' /\ GoesOn(i, "rewrite", c)
          BY <2>2, <3>2, SaveSteps DEF TypeInv
        <4>2. c \in Files
          BY <4>1 DEF SavesInv, GoesOn, SaveRecords
        <4>3. c["pinned"] = IF saves[i].by = "pinned" THEN saves[i].value ELSE disk["pinned"]
          BY <1>0 DEF Files
        <4> QED BY <4>1, <4>2, <4>3
      <3> QED BY <1>6, <3>1, <3>2
    <2>4. Moves(i, to) /\ saves'[i].cur = c /\ saves'[i].value = saves[i].value
          /\ saves'[i].by = saves[i].by
      BY <2>3 DEF GoesOn, Moves
    <2>5. \A j \in Saves \ {i} : ~InGo(j)'
      BY <2>1, <2>4, GoingOn
    <2> QED BY <2>1, <2>2, <2>3, <2>4, <2>5 DEF PinnedInv, Saves
  <1>7. ASSUME NEW i \in Saves, TabSaved(i) \/ LLMWritten(i) \/ ModelWritten(i) \/ CommandDone(i)
        PROVE  PinnedInv'
    <2>1. ~goCrossed /\ Write(i) /\ PinnedInv
      BY <1>7 DEF TabSaved, LLMWritten, ModelWritten, CommandDone, End
    <2>2. InGo(i) /\ \E to \in {"over", "answer", "key", "reload"} : Moves(i, to)
      BY <1>7, SaveSteps DEF TypeInv, GoesOn, InGo
    <2>3. disk'["pinned"] = last'["pinned"]
      BY <1>0, <2>1, <2>2 DEF Write, PinnedInv, Files
    <2>4. \A j \in Saves : ~InGo(j)'
      BY <2>1, <2>2, GoingOn DEF PinnedInv
    <2> QED BY <2>3, <2>4 DEF PinnedInv, Saves
  <1> QED BY <1>1, <1>2, <1>3, <1>4, <1>5, <1>6, <1>7, NextCases DEF SaveNext

\* The pinned commands survive every tab's save, one that read the file long before they were
\* saved included, unless two Go calls met (SaveSettings takes them from the file).
THEOREM TabsKeepPinned == Spec => []PinnedSurviveTabs
  <1> DEFINE J == TypeInv /\ (~goCrossed => PinnedInv)
  <1>1. Init => J
    <2>1. Init => \A i \in Saves : saves[i].stage = "new"
      BY DEF Init, NoSave
    <2> QED BY <2>1, InitType DEF Init, PinnedInv, InGo
  <1>2. J /\ [Next]_vars => J'
    BY TypeStep, PinnedStep
  <1>3. J => PinnedSurviveTabs
    BY DEF PinnedInv, PinnedSurviveTabs
  <1> QED BY <1>1, <1>2, <1>3, PTL DEF Spec

-----------------------------------------------------------------------------
(* The indicator and the key field. *)

\* The history of crossing saves is never forgotten.
LEMMA CrossedStays == Next => (crossed => crossed')
  <1> SUFFICES ASSUME Next PROVE crossed => crossed'
    OBVIOUS
  <1>1. CASE DialogStays \/ ProbeStep \/ SaveBegins
    BY <1>1 DEF DialogStays, ProbeStep, SaveBegins, OpenSettings, CloseSettings, ShowTab, Mount,
       LoadLLM, ChooseProvider, TypeKey, KeyStatusAnswered, TestTyped, TestAnswered, SaveRefused,
       TimerFires, FormOnly, ProbeRead, ProbeRefused, ProbeClaim, ProbeAnswered, ChatEnds, ProbeOnly, SaveTab, SaveLLM,
       ModelCommand, ContextCommand, SavePinned, Command, Begin
  <1>2. CASE SaveNext
    BY <1>2 DEF SaveNext, MergeRead, SaveLoad, TabSaved, LLMWritten, KeyStored, Reload,
       ModelWritten, CommandDone, LLMAnswered, SaveFailed, End
  <1> QED BY <1>1, <1>2, NextCases

\* What is shown of the opt-out, through every step of saves that do not meet.
LEMMA OptOutStep ==
    ASSUME TypeInv, ~crossed => AloneInv /\ OptOutInv, [Next]_vars
    PROVE  ~crossed' => OptOutInv'
  <1> DEFINE Quiet == /\ disk["llm"] = Disabled
                      /\ ~overruled
                      /\ \A i \in Saves : ~OptingOut(i)
                      /\ probes[0].stage \notin {"start", "read"}
  <1> SUFFICES ASSUME ~crossed', Quiet' PROVE status' = "disabled"
    BY DEF OptOutInv, Saves
  <1>0. ~crossed /\ AloneInv /\ (Quiet => status = "disabled")
    BY CrossedStays DEF OptOutInv, vars
  <1>1. CASE UNCHANGED vars
    BY <1>0, <1>1 DEF vars, OptingOut
  <1>2. ASSUME UNCHANGED <<disk, status, probes, overruled>>,
               \A i \in Saves : OptingOut(i) => OptingOut(i)'
        PROVE  status' = "disabled"
    BY <1>0, <1>2
  <1>3. CASE DialogStays
    <2>1. UNCHANGED <<disk, status, probes, overruled>>
      BY <1>3 DEF DialogStays, OpenSettings, CloseSettings, ShowTab, Mount, LoadLLM, ChooseProvider,
         TypeKey, KeyStatusAnswered, TestTyped, TestAnswered, SaveRefused, TimerFires, FormOnly
    <2>2. \A i \in Saves : Same(i)
      BY <1>3, IdleSteps DEF TypeInv, Idle
    <2> QED BY <1>2, <2>1, <2>2 DEF Same, OptingOut
  <1>4. CASE ProbeStep
    <2>1. UNCHANGED <<disk, saves>> /\ disk["llm"] = Disabled
      BY <1>4 DEF ProbeStep, ProbeRead, ProbeRefused, ProbeClaim, ProbeAnswered, ChatEnds, ProbeOnly
    <2>2. ASSUME NEW i \in 0..MaxSaves, ProbeRefused(i) \/ ProbeClaim(i)
          PROVE  status' = "disabled"
      BY <2>1, <2>2 DEF ProbeRefused, ProbeClaim, Overruling
    <2>3. ASSUME NEW i \in 0..MaxSaves, ProbeRead(i)
          PROVE  status' = "disabled"
      <3>1. PICK c \in Readings :
              probes' = [probes EXCEPT ![i] = [stage |-> "read", found |-> c["llm"]]]
        BY <2>3 DEF ProbeRead
      <3>2. probes[0].stage \notin {"start", "read"} /\ UNCHANGED <<status, overruled>>
        BY <2>3, <3>1, SettingsAssumption DEF ProbeRead, TypeInv, FormInv
      <3> QED BY <1>0, <2>1, <3>2 DEF OptingOut
    <2>4. ASSUME NEW i \in 0..MaxSaves, ProbeAnswered(i)
          PROVE  status' = "disabled"
      <3>1. probes[0].stage \notin {"start", "read"} /\ UNCHANGED overruled
        BY <2>4, SettingsAssumption DEF ProbeAnswered, Probed, TypeInv, FormInv
      <3>2. status = "disabled"
        BY <1>0, <2>1, <3>1 DEF OptingOut
      <3> QED BY <2>4, <3>2 DEF ProbeAnswered, Shown
    <2>5. CASE ChatEnds
      BY <1>0, <2>1, <2>5 DEF ChatEnds, OptingOut
    <2> QED BY <1>4, <2>2, <2>3, <2>4, <2>5 DEF ProbeStep
  <1>5. CASE SaveBegins
    <2>1. BeginsOne
      BY <1>5, BeginSteps DEF TypeInv
    <2> QED BY <1>2, <2>1 DEF BeginsOne, Begins, Same, OptingOut
  <1>6. ASSUME NEW i \in Saves, MergeRead(i) \/ SaveLoad(i) \/ Reload(i) \/ KeyStored(i) \/ SaveFailed(i)
        PROVE  status' = "disabled"
    <2>1. saves[i].stage # "answer" /\ \E to \in {"save", "write", "rewrite", "reload", "over"} : Moves(i, to)
      BY <1>6, SaveSteps DEF TypeInv, GoesOn
    <2>2. UNCHANGED <<status, probes, overruled>> /\ (disk' = disk \/ disk' = Empty)
      BY <1>6 DEF MergeRead, SaveLoad, Reload, KeyStored, SaveFailed, Step, End
    <2>3. Empty["llm"] # Disabled
      BY SettingsAssumption DEF Empty, Fields
    <2> QED BY <1>2, <2>1, <2>2, <2>3 DEF Moves, Same, OptingOut
  <1>7. ASSUME NEW i \in Saves, InGo(i), Write(i)
        PROVE  disk'["llm"] = IF saves[i].by = "llm" THEN saves[i].value ELSE disk["llm"]
    <2>1. saves[i].cur = [disk EXCEPT ![saves[i].by] = saves[i].value]
      BY <1>0, <1>7 DEF AloneInv
    <2>2. "llm" \in Fields /\ disk \in Files
      BY DEF Fields, TypeInv, FilesInv
    <2> QED BY <1>7, <2>1, <2>2 DEF Write, Files
  <1>8. ASSUME NEW i \in Saves, TabSaved(i) \/ CommandDone(i)
        PROVE  status' = "disabled"
    <2>1. /\ Moves(i, "over") /\ InGo(i) /\ Write(i) /\ UNCHANGED <<status, probes, overruled>>
          /\ saves[i].stage \in {"write", "rewrite"}
      BY <1>8, SaveSteps DEF TypeInv, TabSaved, CommandDone, End, InGo
    <2>2. saves[i].by = "llm" => saves[i].value \in Providers
      BY <1>8, <2>1, SettingsAssumption
         DEF TabSaved, CommandDone, TypeInv, SavesInv, OwnerOK, SaveRecords
    <2>3. disk'["llm"] = Disabled => disk["llm"] = Disabled
      BY <1>7, <2>1, <2>2, SettingsAssumption
    <2>4. \A j \in Saves : ~OptingOut(j)
      BY <2>1 DEF Moves, Same, OptingOut
    <2> QED BY <1>0, <2>1, <2>3, <2>4
  <1>9. ASSUME NEW i \in Saves, LLMWritten(i) \/ ModelWritten(i)
        PROVE  status' = "disabled"
    <2>1. PICK to \in {"answer", "key", "reload"} :
             GoesOn(i, to, Empty) /\ (to # "answer" => saves[i].value # Disabled)
      BY <1>9, SaveSteps DEF TypeInv
    <2>2. disk'["llm"] = saves[i].value
      <3>1. InGo(i) /\ Write(i) /\ saves[i].by = "llm"
        BY <1>9, SaveSteps DEF LLMWritten, ModelWritten, InGo, TypeInv, SavesInv, OwnerOK
      <3> QED BY <1>7, <3>1
    <2>3. OptingOut(i)'
      BY <2>1, <2>2 DEF GoesOn, Moves, OptingOut
    <2> QED BY <2>3
  <1>10. ASSUME NEW i \in Saves, LLMAnswered(i)
         PROVE  status' = "disabled"
    <2>1. CASE saves[i].value = Disabled
      BY <1>10, <2>1 DEF LLMAnswered
    <2>2. CASE saves[i].value # Disabled
      <3>1. Moves(i, "over") /\ UNCHANGED <<disk, status, overruled>>
            /\ probes' = [probes EXCEPT ![i].stage = "start"]
        BY <1>10, <2>2, SaveSteps DEF TypeInv, LLMAnswered
      <3>2. \A j \in Saves : ~OptingOut(j)
        BY <2>2, <3>1 DEF Moves, Same, OptingOut
      <3>3. probes'[0] = probes[0]
        BY <3>1, SettingsAssumption DEF TypeInv, FormInv, Saves
      <3> QED BY <1>0, <3>1, <3>2, <3>3
    <2> QED BY <2>1, <2>2
  <1> QED BY <1>1, <1>3, <1>4, <1>5, <1>6, <1>8, <1>9, <1>10, NextCases DEF SaveNext

\* "Disable Pair LLM" wins over every result of a test and every end of a request: with the
\* opt-out in the file, shown or read by the probe of the start, only what a probe has read
\* before, or its refusal, makes the indicator show anything else (connectionProbe.ts).
THEOREM OptOutIsShown == Spec => []OptOutWins
  <1>1. Init => IInv
    <2> SUFFICES ASSUME Init PROVE IInv
      OBVIOUS
    <2>1. \A i \in Saves : saves[i].stage = "new"
      BY DEF Init, NoSave
    <2>2. AloneInv /\ PinnedInv
      BY <2>1 DEF Init, AloneInv, PinnedInv, Holding, InGo
    <2>3. probes[0].stage = "start"
      BY SettingsAssumption DEF Init, NoProbe
    <2> QED BY <2>2, <2>3, InitType DEF IInv, OptOutInv
  <1>2. IInv /\ [Next]_vars => IInv'
    BY TypeStep, AloneStep, PinnedStep, OptOutStep DEF IInv
  <1>3. IInv => OptOutWins
    BY DEF IInv, OptOutInv, OptOutWins
  <1> QED BY <1>1, <1>2, <1>3, PTL DEF Spec

\* A save that is over stays over, and only then is its connection probed.
Unprobed == \A j \in Saves : saves[j].stage # "over" => probes[j].stage = "none"
LEMMA UnprobedStep == TypeInv /\ Unprobed /\ [Next]_vars => Unprobed'
  <1> SUFFICES ASSUME TypeInv, Unprobed, [Next]_vars, NEW j \in Saves, saves'[j].stage # "over"
               PROVE  probes'[j].stage = "none"
    BY DEF Unprobed, Saves
  <1>0. probes \in [0..MaxSaves -> ProbeRecords] /\ j \in 0..MaxSaves
    BY SettingsAssumption DEF TypeInv, FormInv, Saves
  <1>1. ASSUME saves[j].stage # "over", UNCHANGED probes
        PROVE  probes'[j].stage = "none"
    BY <1>1 DEF Unprobed
  <1>2. CASE DialogStays
    <2>1. UNCHANGED probes
      BY <1>2 DEF DialogStays, OpenSettings, CloseSettings, ShowTab, Mount, LoadLLM, ChooseProvider,
         TypeKey, KeyStatusAnswered, TestTyped, TestAnswered, SaveRefused, TimerFires, FormOnly
    <2>2. Same(j)
      BY <1>2, IdleSteps DEF TypeInv, Idle
    <2> QED BY <1>1, <2>1, <2>2 DEF Same
  <1>3. CASE ProbeStep
    <2>1. UNCHANGED saves
      BY <1>3 DEF ProbeStep, ProbeRead, ProbeRefused, ProbeClaim, ProbeAnswered, ChatEnds, ProbeOnly
    <2>2. probes[j].stage = "none"
      BY <2>1 DEF Unprobed
    <2>3. UNCHANGED probes \/ \E i \in 0..MaxSaves : /\ probes[i].stage # "none"
                                                    /\ \E p : probes' = [probes EXCEPT ![i] = p]
      BY <1>3 DEF ProbeStep, ProbeRead, ProbeRefused, ProbeClaim, ProbeAnswered, ChatEnds, Probed
    <2> QED BY <1>0, <2>2, <2>3
  <1>4. CASE SaveBegins
    <2>1. BeginsOne
      BY <1>4, BeginSteps DEF TypeInv
    <2> QED BY <1>1, <2>1 DEF BeginsOne, Begins, Same
  <1>5. ASSUME NEW i \in Saves, \/ MergeRead(i) \/ SaveLoad(i) \/ TabSaved(i) \/ LLMWritten(i) \/ KeyStored(i)
                               \/ Reload(i) \/ ModelWritten(i) \/ CommandDone(i) \/ SaveFailed(i)
        PROVE  probes'[j].stage = "none"
    <2>1. UNCHANGED probes
      BY <1>5 DEF MergeRead, SaveLoad, TabSaved, LLMWritten, KeyStored, Reload, ModelWritten,
         CommandDone, SaveFailed, Step, End
    <2>2. \E to : Moves(i, to)
      BY <1>5, SaveSteps DEF TypeInv, GoesOn
    <2> QED BY <1>1, <2>1, <2>2 DEF Moves, Same
  <1>6. ASSUME NEW i \in Saves, LLMAnswered(i)
        PROVE  probes'[j].stage = "none"
    <2>1. Moves(i, "over")
      BY <1>6, SaveSteps DEF TypeInv
    <2>2. j # i /\ saves[j].stage # "over"
      BY <2>1 DEF Moves, Same
    <2> QED BY <1>0, <1>6, <2>2 DEF LLMAnswered, Unprobed
  <1>7. CASE UNCHANGED vars
    BY <1>1, <1>7 DEF vars
  <1> QED BY <1>2, <1>3, <1>4, <1>5, <1>6, <1>7, NextCases DEF SaveNext

\* "Checking..." is not left behind: a probe that will still answer is under way, or no probe
\* ever got the settings, and then no save of the LLM tab is probed either (probeLLMConnection).
THEOREM CheckingEnds == Spec => []CheckingHasProbe
  <1> DEFINE Tested    == \E i \in 0..MaxSaves : probes[i].stage = "test"
             Unclaimed == \A i \in 0..MaxSaves : probes[i].stage \in {"none", "start", "read", "refused"}
             J == TypeInv /\ Unprobed /\ (status = "checking" => Tested \/ Unclaimed)
  <1>1. Init => J
    <2> SUFFICES ASSUME Init PROVE Unprobed /\ Unclaimed
      BY InitType
    <2>1. \A i \in 0..MaxSaves : probes[i].stage = IF i = 0 THEN "start" ELSE "none"
      BY DEF Init, NoProbe
    <2>2. \A i \in Saves : i # 0 /\ i \in 0..MaxSaves
      BY SettingsAssumption DEF Saves
    <2> QED BY <2>1, <2>2 DEF Unprobed
  <1>2. J /\ [Next]_vars => J'
    <2> SUFFICES ASSUME J, [Next]_vars, status' = "checking" PROVE Tested' \/ Unclaimed'
      BY TypeStep, UnprobedStep
    <2>0. probes \in [0..MaxSaves -> ProbeRecords]
      BY DEF TypeInv, FormInv
    <2>1. CASE UNCHANGED <<status, probes>>
      BY <2>1
    <2>2. CASE ProbeStep
      <3>1. ASSUME NEW i \in 0..MaxSaves, ProbeClaim(i)
            PROVE  Tested'
        <4>1. probes[i].found \in Providers
          BY <3>1 DEF ProbeClaim
        <4> QED BY <2>0, <3>1, <4>1 DEF ProbeClaim, Probed, NoProbe
      <3>2. ASSUME NEW i \in 0..MaxSaves, ProbeAnswered(i)
            PROVE  Tested' \/ Unclaimed'
        BY <3>2 DEF ProbeAnswered, Shown
      <3>3. ASSUME NEW i \in 0..MaxSaves, NEW to \in {"read", "refused"}, NEW p,
                   status = "checking", probes[i].stage = "start",
                   probes' = [probes EXCEPT ![i] = p], p.stage = to
            PROVE  Tested' \/ Unclaimed'
        <4>1. \A j \in 0..MaxSaves : probes'[j] = IF j = i THEN p ELSE probes[j]
          BY <2>0, <3>3
        <4>2. CASE Tested
          BY <3>3, <4>1, <4>2
        <4>3. CASE Unclaimed
          BY <3>3, <4>1, <4>3
        <4> QED BY <3>3, <4>2, <4>3
      <3>4. ASSUME NEW i \in 0..MaxSaves, ProbeRead(i)
            PROVE  Tested' \/ Unclaimed'
        <4>1. PICK c \in Readings :
                probes' = [probes EXCEPT ![i] = [stage |-> "read", found |-> c["llm"]]]
          BY <3>4 DEF ProbeRead
        <4> QED BY <3>3, <3>4, <4>1 DEF ProbeRead
      <3>5. ASSUME NEW i \in 0..MaxSaves, ProbeRefused(i)
            PROVE  Tested' \/ Unclaimed'
        BY <3>3, <3>5 DEF ProbeRefused, Probed, NoProbe
      <3>6. CASE ChatEnds
        BY <3>6 DEF ChatEnds
      <3> QED BY <2>2, <3>1, <3>2, <3>4, <3>5, <3>6 DEF ProbeStep
    <2>3. ASSUME NEW i \in Saves, LLMAnswered(i)
          PROVE  Tested' \/ Unclaimed'
      <3>1. status = "checking" /\ i \in 0..MaxSaves /\ probes' = [probes EXCEPT ![i].stage = "start"]
        BY <2>3, SettingsAssumption DEF LLMAnswered, Saves
      <3>2. ASSUME NEW j \in 0..MaxSaves
            PROVE  probes'[j].stage = IF j = i THEN "start" ELSE probes[j].stage
        BY <2>0, <3>1 DEF ProbeRecords
      <3>3. probes[i].stage = "none"
        BY <2>3 DEF LLMAnswered, Unprobed
      <3> QED BY <3>1, <3>2, <3>3
    <2>4. CASE DialogStays \/ SaveBegins
      BY <2>1, <2>4, BeginSteps DEF TypeInv, BeginsOne, DialogStays, OpenSettings, CloseSettings, ShowTab,
         Mount, LoadLLM, ChooseProvider, TypeKey, KeyStatusAnswered, TestTyped, TestAnswered,
         SaveRefused, TimerFires, FormOnly
    <2>5. CASE SaveNext
      BY <2>1, <2>3, <2>5 DEF SaveNext, MergeRead, SaveLoad, TabSaved, LLMWritten, KeyStored, Reload,
         ModelWritten, CommandDone, SaveFailed, Step, End
    <2>6. CASE UNCHANGED vars
      BY <2>1, <2>6 DEF vars
    <2> QED BY <2>2, <2>4, <2>5, <2>6, NextCases
  <1>3. J => CheckingHasProbe
    BY DEF CheckingHasProbe, Probing
  <1> QED BY <1>1, <1>2, <1>3, PTL DEF Spec

\* When all key status calls have been answered, the key in the field was typed for the provider
\* that is selected: Save stores no provider's key under another's name.
THEOREM KeyGoesWithProvider == Spec => []KeyFieldFollowsProvider
  <1> DEFINE J == TypeInv /\ KeyFieldFollowsProvider
  <1>1. Init => J
    BY InitType DEF KeyFieldFollowsProvider, Init, Unmounted
  <1>2. J /\ [Next]_vars => J'
    <2> SUFFICES ASSUME J, [Next]_vars PROVE KeyFieldFollowsProvider'
      BY TypeStep
    <2>0. llm.asks \in Nat /\ llm.asks + 1 # 0 /\ None \notin Providers
      BY SettingsAssumption DEF TypeInv, FormInv
    <2> DEFINE Follows(l) == (l.asks = 0 /\ ~l.missed /\ l.key # None) => l.key = l.provider
    <2>1. Follows(llm) /\ Follows(Unmounted) /\ Follows([Unmounted EXCEPT !.asks = 1])
      BY DEF KeyFieldFollowsProvider, Unmounted
    <2>2. \A p \in Choices : Follows(Switched(p)) /\ Follows([Switched(p) EXCEPT !.loaded = TRUE])
      BY <2>0 DEF Switched, TypeInv, FormInv
    <2> SUFFICES Follows(llm')
      BY DEF KeyFieldFollowsProvider
    <2>3. CASE UNCHANGED llm
      BY <2>1, <2>3
    <2>4. CASE llm' = Unmounted \/ llm' = [Unmounted EXCEPT !.asks = 1]
      BY <2>1, <2>4
    <2>5. CASE OpenSettings \/ CloseSettings \/ \E t \in SimpleTabs \cup {"llm"} : ShowTab(t)
      BY <2>1, <2>4, <2>5 DEF OpenSettings, CloseSettings, ShowTab, Mount
    <2>6. CASE LoadLLM
      <3>1. PICK c \in Readings : llm' = [Loaded(c["llm"]) EXCEPT !.loaded = TRUE]
        BY <2>6 DEF LoadLLM
      <3>2. c["llm"] \in Choices \cup {None}
        BY ReadingsFacts DEF TypeInv, Files, Fields, Values
      <3>3. Follows([llm EXCEPT !.loaded = TRUE])
        BY <2>1 DEF TypeInv, FormInv
      <3> QED BY <2>2, <3>1, <3>2, <3>3 DEF Loaded
    <2>7. CASE \E p \in Choices : ChooseProvider(p)
      BY <2>2, <2>7 DEF ChooseProvider
    <2>8. CASE TypeKey
      BY <2>8 DEF TypeKey, TypeInv, FormInv
    <2>9. CASE \E known \in BOOLEAN : KeyStatusAnswered(known)
      BY <2>9 DEF KeyStatusAnswered, TypeInv, FormInv
    <2>10. CASE TestTyped \/ TestAnswered
      BY <2>1, <2>10 DEF TestTyped, TestAnswered, TypeInv, FormInv
    <2>11. CASE SaveRefused \/ TimerFires \/ ProbeStep \/ SaveBegins
      BY <2>3, <2>11 DEF SaveRefused, TimerFires, ProbeStep, ProbeRead, ProbeRefused, ProbeClaim, ProbeAnswered, ChatEnds, ProbeOnly,
         SaveBegins, SaveTab, SaveLLM, ModelCommand, ContextCommand, SavePinned, Command, Begin
    <2>12. CASE SaveNext
      BY <2>3, <2>4, <2>12 DEF SaveNext, MergeRead, SaveLoad, TabSaved, LLMWritten, KeyStored, Reload,
         ModelWritten, CommandDone, LLMAnswered, SaveFailed, Step, End
    <2>13. CASE UNCHANGED vars
      BY <2>3, <2>13 DEF vars
    <2> QED BY <2>5, <2>6, <2>7, <2>8, <2>9, <2>10, <2>11, <2>12, <2>13, NextCases DEF DialogStays
  <1> QED BY <1>1, <1>2, PTL DEF Spec
=============================================================================
