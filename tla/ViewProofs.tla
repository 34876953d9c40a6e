----------------------------- MODULE ViewProofs -----------------------------
(***************************************************************************)
(* Proofs about two views that share nothing: the Copy Mode overlay        *)
(* (CopyMode), for any terminal contents, context line counts and numbers  *)
(* of showings, requests, copies and /context commands; and the command    *)
(* cards (Commands), for any texts and numbers of cards, edits, saves,     *)
(* changes and starts.                                                     *)
(***************************************************************************)
EXTENDS CopyMode, Commands, SequenceTheorems, WellFoundedInduction, TLAPS

\* A call in flight under the newest number carries the newest text, and what the
\* view shows while nothing is computed is that text.
RequestInv ==
    /\ \A c \in calls : c.id = request => c.source = newest
    /\ dialog.filtered # Nothing /\ ~dialog.filtering => dialog.filtered = newest

\* All that an open overlay holds or waits for is of its own showing.
SessionInv ==
    dialog.open =>
      /\ session > 0
      /\ dialog.snapshot # Nothing => dialog.snapshot.session = session
      /\ ~crossed => /\ dialog.filtered # Nothing => dialog.filtered.session = session
                     /\ \A c \in calls : c.source.session = session

\* The inductive invariant.
IInv == TypeOK /\ RequestInv /\ SessionInv

-----------------------------------------------------------------------------
(* The bounds, one by one. *)
LEMMA BoundsAreNats ==
  /\ MaxOutput \in Nat /\ MaxSessions \in Nat /\ MaxRequests \in Nat
  /\ MaxCopies \in Nat /\ MaxContexts \in Nat
BY CopyModeAssumption

(* A read of the terminal in the showing s is a text of that showing. *)
LEMMA ReadIsText ==
  ASSUME TypeOK, NEW n \in Windows \cup {Whole}, NEW s \in 1..MaxSessions
  PROVE  readTerminalLines(n, s) \in Texts /\ readTerminalLines(n, s).session = s
BY DEF TypeOK, readTerminalLines, Texts

LEMMA InitHolds == Init => IInv
<1> SUFFICES ASSUME Init PROVE IInv
  OBVIOUS
<1> USE BoundsAreNats
<1>1. Nothing \in Texts
  BY DEF Texts
<1>2. dialog \in [open : BOOLEAN, view : Views, snapshot : Texts, filtered : Texts,
                  filtering : BOOLEAN, failed : BOOLEAN, copied : BOOLEAN]
  BY <1>1 DEF Init, Closed, Views
<1>3. lines \in [{"chat", "copy"} -> Windows]
  BY DEF Init
<1>4. TypeOK
  <2>1. {timer, crossed} \subseteq BOOLEAN
    <3>1. timer = FALSE /\ crossed = FALSE
      BY DEF Init
    <3> QED
      BY <3>1
  <2>2. /\ screen \in 0..MaxOutput /\ request \in 0..MaxRequests /\ session \in 0..MaxSessions
        /\ copies \in 0..MaxCopies /\ contexts \in 0..MaxContexts
    BY DEF Init
  <2>3. newest \in Texts /\ calls = {} /\ writes = {}
    BY <1>1 DEF Init
  <2> QED
    BY <1>2, <1>3, <2>1, <2>2, <2>3 DEF TypeOK
<1>5. calls = {} /\ dialog.open = FALSE /\ dialog.filtered = Nothing
  BY DEF Init, Closed
<1>6. RequestInv
  BY <1>5 DEF RequestInv
<1>7. SessionInv
  BY <1>5 DEF SessionInv
<1> QED
  BY <1>4, <1>6, <1>7 DEF IInv

(* The terminal, /context, and the clipboard leave the overlay's texts alone. *)
LEMMA AsideStep ==
  ASSUME IInv,
         \/ ScreenChanges \/ (\E n \in Windows : ContextCommand(n))
         \/ CopyAll \/ (\E w \in writes : Written(w) \/ WriteRefused(w)) \/ TimerFires
  PROVE  IInv'
<1> USE BoundsAreNats
<1>1. CASE ScreenChanges
  BY <1>1 DEF IInv, TypeOK, RequestInv, SessionInv, ScreenChanges, settings, history, Texts
<1>2. ASSUME NEW n \in Windows, ContextCommand(n) PROVE IInv'
  BY <1>2 DEF IInv, TypeOK, RequestInv, SessionInv, ContextCommand, history, Texts
<1>3. CASE CopyAll
  <2>1. activeText \in Texts
    BY DEF IInv, TypeOK, activeText
  <2>2. \A w \in writes' : w.id \in 1..copies' /\ w.text \in Texts
    BY <1>3, <2>1 DEF IInv, TypeOK, CopyAll
  <2> QED
    BY <1>3, <2>2 DEF IInv, TypeOK, RequestInv, SessionInv, CopyAll, settings, Texts
<1>4. ASSUME NEW w \in writes, Written(w) PROVE IInv'
  BY <1>4 DEF IInv, TypeOK, RequestInv, SessionInv, Written, settings, history, Texts
<1>5. ASSUME NEW w \in writes, WriteRefused(w) PROVE IInv'
  BY <1>5 DEF IInv, TypeOK, RequestInv, SessionInv, WriteRefused, settings, history, Texts
<1>6. CASE TimerFires
  BY <1>6 DEF IInv, TypeOK, RequestInv, SessionInv, TimerFires, settings, history, Texts
<1> QED
  BY <1>1, <1>2, <1>3, <1>4, <1>5, <1>6

(* A new showing starts from nothing but its own snapshot. *)
LEMMA OpenStep == ASSUME IInv, OpenCopyMode PROVE IInv'
<1> USE BoundsAreNats
<1> DEFINE text == readTerminalLines(Whole, session + 1)
<1>1. session + 1 \in 1..MaxSessions
  BY DEF IInv, TypeOK, OpenCopyMode
<1>2. text \in Texts /\ text.session = session + 1
  BY <1>1, ReadIsText DEF IInv
<1>3. dialog' = [open |-> TRUE, view |-> "complete", snapshot |-> text, filtered |-> Nothing,
                 filtering |-> FALSE, failed |-> FALSE, copied |-> FALSE]
  BY DEF OpenCopyMode, Opened, Closed
<1> HIDE DEF text
<1>4. TypeOK'
  BY <1>1, <1>2, <1>3 DEF IInv, TypeOK, OpenCopyMode, settings, Texts, Views
<1>5. RequestInv'
  BY <1>3 DEF IInv, RequestInv, OpenCopyMode
<1>6. session' = session + 1 /\ calls' = calls /\ (~crossed' => calls = {})
  BY DEF IInv, TypeOK, OpenCopyMode
<1>7. SessionInv'
  <2>1. dialog'.snapshot = text /\ dialog'.filtered = Nothing
    BY <1>3
  <2> QED
    BY <1>1, <1>2, <1>6, <2>1 DEF SessionInv
<1> QED
  BY <1>4, <1>5, <1>7 DEF IInv

LEMMA CloseStep == ASSUME IInv, CloseCopyMode PROVE IInv'
BY DEF IInv, TypeOK, RequestInv, SessionInv, CloseCopyMode, settings, history, Texts

(* The request that runFilter starts is the newest one, of this showing. *)
LEMMA FilterStarts ==
  ASSUME IInv, NEW d, runFilter(d), dialog.open,
         d \in [open : BOOLEAN, view : Views, snapshot : Texts, filtered : Texts,
                filtering : BOOLEAN, failed : BOOLEAN, copied : BOOLEAN],
         d.open = dialog.open, d.snapshot = dialog.snapshot, d.filtered = dialog.filtered,
         UNCHANGED <<screen, settings, writes, timer, session, copies, crossed>>
  PROVE  IInv'
<1> USE BoundsAreNats
<1> DEFINE source == readTerminalLines(lines["copy"], session)
<1>1. session \in 1..MaxSessions
  BY DEF IInv, TypeOK, SessionInv
<1>2. source \in Texts /\ source.session = session
  <2>1. lines["copy"] \in Windows
    BY DEF IInv, TypeOK
  <2> QED
    BY <1>1, <2>1, ReadIsText DEF IInv
<1>3. /\ request < MaxRequests /\ request' = request + 1
      /\ dialog' = [d EXCEPT !.filtering = TRUE, !.failed = FALSE]
      /\ calls' = calls \cup {[id |-> request + 1, source |-> source]}
      /\ newest' = source
  BY DEF runFilter
<1> HIDE DEF source
<1>4. \A c \in calls' : \/ c \in calls /\ c.id \in 1..request
                        \/ c.id = request + 1 /\ c.source = source
  BY <1>3 DEF IInv, TypeOK
<1>5. TypeOK'
  <2>1. dialog' \in [open : BOOLEAN, view : Views, snapshot : Texts, filtered : Texts,
                     filtering : BOOLEAN, failed : BOOLEAN, copied : BOOLEAN]
    BY <1>3
  <2>2. request' \in 0..MaxRequests /\ \A c \in calls' : c.id \in 1..request' /\ c.source \in Texts'
    BY <1>2, <1>3, <1>4 DEF IInv, TypeOK, Texts
  <2> QED
    BY <1>2, <1>3, <2>1, <2>2 DEF IInv, TypeOK, settings, Texts
<1>6. RequestInv'
  BY <1>3, <1>4 DEF IInv, TypeOK, RequestInv
<1>7. SessionInv'
  BY <1>1, <1>2, <1>3, <1>4 DEF IInv, SessionInv
<1> QED
  BY <1>5, <1>6, <1>7 DEF IInv

LEMMA ChooseViewStep == ASSUME IInv, NEW v \in Views, ChooseView(v) PROVE IInv'
<1> DEFINE d == [dialog EXCEPT !.view = v, !.copied = FALSE]
<1>1. /\ d \in [open : BOOLEAN, view : Views, snapshot : Texts, filtered : Texts,
                filtering : BOOLEAN, failed : BOOLEAN, copied : BOOLEAN]
      /\ d.open = dialog.open /\ d.snapshot = dialog.snapshot /\ d.filtered = dialog.filtered
      /\ d.filtering = dialog.filtering
  BY DEF IInv, TypeOK
<1>2. /\ dialog.open
      /\ runFilter(d) \/ (dialog' = d /\ UNCHANGED <<request, calls, newest>>)
      /\ UNCHANGED <<screen, settings, writes, timer, session, copies, crossed>>
  BY DEF ChooseView
<1> HIDE DEF d
<1>3. CASE runFilter(d)
  BY <1>1, <1>2, <1>3, FilterStarts
<1>4. CASE dialog' = d /\ UNCHANGED <<request, calls, newest>>
  BY <1>1, <1>2, <1>4 DEF IInv, TypeOK, RequestInv, SessionInv, settings, Texts
<1> QED
  BY <1>2, <1>3, <1>4

LEMMA RefreshStep == ASSUME IInv, Refresh PROVE IInv'
<1> DEFINE d == [dialog EXCEPT !.copied = FALSE]
           text == readTerminalLines(Whole, session)
<1>1. /\ d \in [open : BOOLEAN, view : Views, snapshot : Texts, filtered : Texts,
                filtering : BOOLEAN, failed : BOOLEAN, copied : BOOLEAN]
      /\ d.open = dialog.open /\ d.snapshot = dialog.snapshot /\ d.filtered = dialog.filtered
      /\ d.filtering = dialog.filtering
  BY DEF IInv, TypeOK
<1>2. /\ dialog.open
      /\ \/ runFilter(d)
         \/ dialog' = [d EXCEPT !.snapshot = text] /\ UNCHANGED <<request, calls, newest>>
      /\ UNCHANGED <<screen, settings, writes, timer, session, copies, crossed>>
  BY DEF Refresh
<1>3. text \in Texts /\ text.session = session
  <2>1. session \in 1..MaxSessions
    BY <1>2, BoundsAreNats DEF IInv, TypeOK, SessionInv
  <2> QED
    BY <2>1, ReadIsText DEF IInv
<1> HIDE DEF d, text
<1>4. CASE runFilter(d)
  BY <1>1, <1>2, <1>4, FilterStarts
<1>5. CASE dialog' = [d EXCEPT !.snapshot = text] /\ UNCHANGED <<request, calls, newest>>
  BY <1>1, <1>2, <1>3, <1>5 DEF IInv, TypeOK, RequestInv, SessionInv, settings, Texts
<1> QED
  BY <1>2, <1>4, <1>5

(* An answer changes the view only under the newest number. *)
LEMMA AnswerStep == ASSUME IInv, NEW c \in calls, FilterAnswered(c) PROVE IInv'
<1> USE BoundsAreNats
<1>1. /\ calls' = calls \ {c}
      /\ UNCHANGED <<screen, lines, contexts, request, writes, timer, session, copies, newest, crossed>>
  BY DEF FilterAnswered, settings, history
<1>2. c.source \in Texts
  BY DEF IInv, TypeOK
<1>3. CASE dialog' = dialog
  BY <1>1, <1>3 DEF IInv, TypeOK, RequestInv, SessionInv, Texts
<1>4. CASE c.id = request /\ dialog' = [dialog EXCEPT !.filtered = c.source, !.filtering = FALSE]
  BY <1>1, <1>2, <1>4 DEF IInv, TypeOK, RequestInv, SessionInv, Texts
<1>5. CASE dialog' = [dialog EXCEPT !.filtered = Nothing, !.failed = TRUE, !.filtering = FALSE]
  BY <1>1, <1>5 DEF IInv, TypeOK, RequestInv, SessionInv, Texts
<1> QED
  BY <1>3, <1>4, <1>5 DEF FilterAnswered, Applied

LEMMA NextHolds == IInv /\ [Next]_vars => IInv'
<1> SUFFICES ASSUME IInv, [Next]_vars PROVE IInv'
  OBVIOUS
<1>1. CASE UNCHANGED vars
  BY <1>1 DEF vars, settings, history, IInv, TypeOK, RequestInv, SessionInv
<1>2. CASE Next
  BY <1>2, AsideStep, OpenStep, CloseStep, ChooseViewStep, RefreshStep, AnswerStep
     DEF Next, FilterAnswers
<1> QED
  BY <1>1, <1>2

LEMMA InvHolds == Spec => []IInv
BY InitHolds, NextHolds, PTL DEF Spec

-----------------------------------------------------------------------------
(* Every variable keeps its type: no call has a number that was not given out, and what is *)
(* shown, filtered or copied is a text that was read in some showing of the overlay.       *)
THEOREM TypeCorrect == Spec => []TypeOK
<1>1. IInv => TypeOK
  BY DEF IInv
<1> QED
  BY <1>1, InvHolds, PTL

(* Whatever is refreshed, closed, reopened and answered in which order: the filtered view, *)
(* when it shows a text, shows the answer to the newest request.                           *)
THEOREM ShowsTheNewest == Spec => []FilteredIsNewest
<1>1. IInv => FilteredIsNewest
  BY DEF IInv, RequestInv, FilteredIsNewest, textShown
<1> QED
  BY <1>1, InvHolds, PTL

(* Unless the overlay was opened over a call in flight, all it shows was read since it was *)
(* last opened.                                                                            *)
THEOREM ShowsItsOwn == Spec => []SessionsAreSeparate
<1>1. IInv => SessionsAreSeparate
  BY DEF IInv, SessionInv, SessionsAreSeparate, textShown
<1> QED
  BY <1>1, InvHolds, PTL

-----------------------------------------------------------------------------
(***************************************************************************)
(* The command cards.  First what the operators on lists do.               *)
(***************************************************************************)

\* A set of numbers that has an element has a least one.
LEMMA Least ==
    ASSUME NEW T \in SUBSET Nat, T # {}
    PROVE  \E m \in T : \A n \in T : ~(n < m)
  <1>1. IsWellFoundedOn(OpToRel(<, Nat), Nat)
    BY NatLessThanWellFounded
  <1>2. PICK m \in T : \A n \in T : <<n, m>> \notin OpToRel(<, Nat)
    BY <1>1, WFMin
  <1> QED BY <1>2 DEF OpToRel

\* What comes of doing step N times over, from a.
Results(N, T, a, step) == {g \in [0..N -> T] : g[0] = a /\ \A n \in 1..N : g[n] = step[<<g[n - 1], n>>]}

LEMMA Recursion ==
    ASSUME NEW N \in Nat, NEW T, NEW a \in T, NEW step \in [T \X (1..N) -> T]
    PROVE  Results(N, T, a, step) # {}
  <1> DEFINE Partial(m) == {g \in [0..m -> T] : g[0] = a /\ \A n \in 1..m : g[n] = step[<<g[n - 1], n>>]}
             Bad == {m \in 0..N : Partial(m) = {}}
  <1>a. SUFFICES Partial(N) # {}
    BY DEF Results
  <1>b. N \in 0..N
    OBVIOUS
  <1>1. SUFFICES ASSUME Bad # {} PROVE FALSE
    BY <1>b
  <1>2. PICK m \in Bad : \A n \in Bad : ~(n < m)
    <2>1. Bad \in SUBSET Nat
      OBVIOUS
    <2> HIDE DEF Bad
    <2> QED BY <1>1, <2>1, Least
  <1>3. m # 0
    <2>1. [n \in 0..0 |-> a] \in Partial(0)
      OBVIOUS
    <2> QED BY <1>2, <2>1
  <1>4. m \in 1..N /\ m - 1 \in 0..N /\ m - 1 < m /\ m - 1 \in 0..(m - 1)
    BY <1>2, <1>3
  <1>5. PICK g \in Partial(m - 1) : TRUE
    BY <1>2, <1>4
  <1>6. g[m - 1] \in T /\ step[<<g[m - 1], m>>] \in T
    BY <1>4, <1>5
  <1> DEFINE h == [n \in 0..m |-> IF n = m THEN step[<<g[m - 1], m>>] ELSE g[n]]
  <1>7. h \in [0..m -> T]
    <2>1. \A n \in 0..m : n # m => n \in 0..(m - 1)
      BY <1>4
    <2> QED BY <1>5, <1>6, <2>1
  <1>8. h[0] = a
    BY <1>4, <1>5
  <1>9. ASSUME NEW n \in 1..m PROVE h[n] = step[<<h[n - 1], n>>]
    <2>1. n - 1 \in 0..(m - 1) /\ n - 1 \in 0..m /\ n - 1 # m /\ n \in 0..m
      BY <1>4
    <2>2. n # m => n \in 1..(m - 1)
      BY <1>4
    <2> QED BY <1>5, <2>1, <2>2
  <1> QED BY <1>2, <1>7, <1>8, <1>9

\* f says where in s each element of o comes from: those in chosen, in their order.
Selects(f, s, chosen, o) ==
    /\ f \in [1..Len(o) -> 1..Len(s)]
    /\ \A k \in 1..Len(o) : o[k] = s[f[k]] /\ o[k] \in chosen
    /\ \A k, l \in 1..Len(o) : k < l => f[k] < f[l]
    /\ \A i \in 1..Len(s) : s[i] \in chosen => \E k \in 1..Len(o) : f[k] = i

\* The first n elements of s.
Covers(f, s, chosen, o, n) ==
    /\ f \in [1..Len(o) -> 1..n]
    /\ \A k \in 1..Len(o) : o[k] = s[f[k]] /\ o[k] \in chosen
    /\ \A k, l \in 1..Len(o) : k < l => f[k] < f[l]
    /\ \A i \in 1..n : s[i] \in chosen => \E k \in 1..Len(o) : f[k] = i

\* o is what is chosen of the first n elements of s, all of them in T.
IsCover(T, s, chosen, o, n) == o \in Seq(T) /\ \E f : Covers(f, s, chosen, o, n)

LEMMA CoversNext ==
    ASSUME NEW T, NEW s \in Seq(T), NEW chosen, NEW n \in Nat, n + 1 <= Len(s),
           NEW o, IsCover(T, s, chosen, o, n),
           NEW q, q = IF s[n + 1] \in chosen THEN Append(o, s[n + 1]) ELSE o
    PROVE  IsCover(T, s, chosen, q, n + 1)
  <1>1. PICK r \in Seq(T) : r = o /\ \E f : Covers(f, s, chosen, r, n)
    BY DEF IsCover
  <1>2. PICK f : Covers(f, s, chosen, r, n)
    BY <1>1
  <1>3. n + 1 \in 1..Len(s) /\ s[n + 1] \in T
    OBVIOUS
  <1>4. \A i : i \in 1..(n + 1) <=> i \in 1..n \/ i = n + 1
    OBVIOUS
  <1>5. s[n + 1] \notin chosen => Covers(f, s, chosen, r, n + 1)
    BY <1>2, <1>4 DEF Covers
  <1>6. ASSUME s[n + 1] \in chosen PROVE \E g : Covers(g, s, chosen, Append(r, s[n + 1]), n + 1)
    <2>1. PICK x \in T : x = s[n + 1]
      BY <1>3
    <2>2. PICK p : p = Append(r, x)
      OBVIOUS
    <2>3. PICK m \in Nat : m = Len(r)
      BY <1>1
    <2>4. Len(p) = m + 1 /\ p[m + 1] = x /\ \A k \in 1..m : p[k] = r[k]
      BY <2>2, <2>3
    <2>5. \A k : k \in 1..(m + 1) <=> k \in 1..m \/ k = m + 1
      OBVIOUS
    <2> DEFINE g == [k \in 1..(m + 1) |-> IF k = m + 1 THEN n + 1 ELSE f[k]]
    <2>6. /\ f \in [1..m -> 1..n]
          /\ \A k \in 1..m : r[k] = s[f[k]] /\ r[k] \in chosen
          /\ \A k, l \in 1..m : k < l => f[k] < f[l]
          /\ \A i \in 1..n : s[i] \in chosen => \E k \in 1..m : f[k] = i
      BY <1>2, <2>3 DEF Covers
    <2>7. g \in [1..(m + 1) -> 1..(n + 1)]
      BY <2>5, <2>6
    <2>8. g[m + 1] = n + 1 /\ \A k \in 1..m : g[k] = f[k]
      OBVIOUS
    <2> HIDE DEF g
    <2>9. \A k \in 1..(m + 1) : p[k] = s[g[k]] /\ p[k] \in chosen
      BY <1>6, <2>1, <2>4, <2>5, <2>6, <2>8
    <2>10. \A k, l \in 1..(m + 1) : k < l => g[k] < g[l]
      <3> SUFFICES ASSUME NEW k \in 1..(m + 1), NEW l \in 1..(m + 1), k < l PROVE g[k] < g[l]
        OBVIOUS
      <3>1. k \in 1..m /\ f[k] \in 1..n
        BY <2>6
      <3>2. CASE l = m + 1
        BY <2>8, <3>1, <3>2
      <3>3. CASE l \in 1..m
        BY <2>6, <2>8, <3>1, <3>3
      <3> QED BY <2>5, <3>2, <3>3
    <2>11. \A i \in 1..(n + 1) : s[i] \in chosen => \E k \in 1..(m + 1) : g[k] = i
      <3> SUFFICES ASSUME NEW i \in 1..(n + 1), s[i] \in chosen PROVE \E k \in 1..(m + 1) : g[k] = i
        OBVIOUS
      <3>1. CASE i = n + 1
        BY <2>5, <2>8, <3>1
      <3>2. CASE i \in 1..n
        <4>1. PICK k \in 1..m : f[k] = i
          BY <2>6, <3>2
        <4> QED BY <2>5, <2>8, <4>1
      <3> QED BY <1>4, <3>1, <3>2
    <2>12. Covers(g, s, chosen, p, n + 1)
      BY <2>4, <2>7, <2>9, <2>10, <2>11 DEF Covers
    <2> QED BY <2>1, <2>2, <2>12
  <1>7. r \in Seq(T) /\ (s[n + 1] \in chosen => Append(r, s[n + 1]) \in Seq(T))
    BY <1>1, <1>3
  <1>8. CASE s[n + 1] \in chosen
    <2>1. q = Append(r, s[n + 1])
      BY <1>1, <1>8
    <2> QED BY <1>6, <1>7, <1>8, <2>1 DEF IsCover
  <1>9. CASE s[n + 1] \notin chosen
    <2>1. q = r
      BY <1>1, <1>9
    <2> QED BY <1>5, <1>7, <1>9, <2>1 DEF IsCover
  <1> QED BY <1>8, <1>9

LEMMA OnlyFacts ==
    ASSUME NEW T, NEW s \in Seq(T), NEW chosen
    PROVE  Only(s, chosen) \in Seq(T) /\ \E f : Selects(f, s, chosen, Only(s, chosen))
  <1>1. PICK N \in Nat : N = Len(s)
    OBVIOUS
  <1>2. \A n \in 1..N : s[n] \in T
    BY <1>1
  <1>3. PICK R : R = Seq(T)
    OBVIOUS
  <1> DEFINE Grown(r, n) == IF s[n] \in chosen THEN Append(r, s[n]) ELSE r
             step == [e \in R \X (1..N) |-> Grown(e[1], e[2])]
  <1>4. \A r \in R, n \in 1..N : Grown(r, n) \in R
    BY <1>2, <1>3
  <1>5. step \in [R \X (1..N) -> R] /\ \A r \in R, n \in 1..N : step[<<r, n>>] = Grown(r, n)
    <2> HIDE DEF Grown
    <2> QED BY <1>4
  <1>6. <<>> \in R
    BY <1>3
  <1> HIDE DEF step
  <1>7. PICK g \in [0..N -> R] : g[0] = <<>> /\ \A n \in 1..N : g[n] = step[<<g[n - 1], n>>]
    <2> HIDE DEF Grown
    <2>1. PICK a \in R : a = <<>>
      BY <1>6
    <2>2. PICK grow \in [R \X (1..N) -> R] : grow = step
      BY <1>5
    <2>3. Results(N, R, a, grow) # {}
      BY Recursion
    <2> QED BY <2>1, <2>2, <2>3 DEF Results
  <1>8. \A n \in 1..N : g[n - 1] \in R /\ g[n] = Grown(g[n - 1], n)
    <2> HIDE DEF Grown
    <2>1. \A n \in 1..N : n - 1 \in 0..N
      OBVIOUS
    <2> QED BY <1>5, <1>7, <2>1
  <1> DEFINE part == CHOOSE h : h = [n \in 0..N |-> IF n = 0 THEN <<>> ELSE IF s[n] \in chosen THEN Append(h[n - 1], s[n]) ELSE h[n - 1]]
  <1>9. Only(s, chosen) = part[N]
    BY <1>1 DEF Only
  <1>10. g = [n \in 0..N |-> IF n = 0 THEN <<>> ELSE IF s[n] \in chosen THEN Append(g[n - 1], s[n]) ELSE g[n - 1]]
    <2>1. \A n \in 0..N : n = 0 \/ n \in 1..N
      OBVIOUS
    <2> QED BY <1>7, <1>8, <2>1
  <1>11. part = [n \in 0..N |-> IF n = 0 THEN <<>> ELSE IF s[n] \in chosen THEN Append(part[n - 1], s[n]) ELSE part[n - 1]]
    BY <1>10
  <1> HIDE DEF part
  <1> DEFINE Fine(n) == IsCover(T, s, chosen, part[n], n)
             Wrong == {n \in 0..N : ~Fine(n)}
  <1>12. ASSUME Wrong # {} PROVE FALSE
    <2>1. PICK m \in Wrong : \A n \in Wrong : ~(n < m)
      <3>1. Wrong \in SUBSET Nat
        OBVIOUS
      <3> HIDE DEF Wrong
      <3> QED BY <1>12, <3>1, Least
    <2>2. m # 0
      <3>1. part[0] = <<>>
        BY <1>11
      <3>2. Covers(<<>>, s, chosen, <<>>, 0)
        BY DEF Covers
      <3>3. Fine(0)
        BY <3>1, <3>2 DEF IsCover
      <3> HIDE DEF Fine
      <3> QED BY <2>1, <3>3
    <2>3. PICK n \in Nat : n + 1 = m
      BY <2>1, <2>2
    <2>4. n \in 0..N /\ n + 1 \in 0..N /\ n < m /\ n + 1 # 0 /\ (n + 1) - 1 = n
      BY <2>1, <2>3
    <2>5. Fine(n) /\ ~Fine(n + 1)
      <3> HIDE DEF Fine
      <3> QED BY <2>1, <2>3, <2>4
    <2>6. part[n + 1] = IF s[n + 1] \in chosen THEN Append(part[n], s[n + 1]) ELSE part[n]
      BY <1>11, <2>4
    <2>7. PICK q : q = part[n + 1]
      OBVIOUS
    <2>8. IsCover(T, s, chosen, q, n + 1)
      <3>1. n + 1 <= Len(s)
        BY <1>1, <2>4
      <3>2. IsCover(T, s, chosen, part[n], n)
        BY <2>5
      <3>3. q = IF s[n + 1] \in chosen THEN Append(part[n], s[n + 1]) ELSE part[n]
        BY <2>6, <2>7
      <3> QED BY <3>1, <3>2, <3>3, CoversNext
    <2> QED BY <2>5, <2>7, <2>8
  <1>13. Fine(N)
    <2>1. N \in 0..N
      OBVIOUS
    <2> HIDE DEF Fine
    <2> QED BY <1>12, <2>1
  <1>14. PICK f : part[N] \in Seq(T) /\ Covers(f, s, chosen, part[N], N)
    BY <1>13 DEF IsCover
  <1>15. Selects(f, s, chosen, part[N])
    BY <1>1, <1>14 DEF Covers, Selects
  <1> QED BY <1>9, <1>14, <1>15

-----------------------------------------------------------------------------
(* What the store's operations keep of a list of cards.                    *)

\* The list s when n ids and e numbers of edits are given out and u says how often each
\* text for one use was sent: ids differ, and what waits for one use waits at one card and
\* was not sent.
Sound(s, n, e, u) ==
    /\ s \in Seq(Cards)
    /\ \A i \in 1..Len(s) :
         /\ s[i].id \in 1..n
         /\ s[i].override # None => s[i].override \in 1..e /\ u[s[i].override] = 0
    /\ \A i, j \in 1..Len(s) :
         s[i].id = s[j].id \/ (s[i].override # None /\ s[i].override = s[j].override) => i = j

\* Each of the n cards of t is one of s, at a place of its own, f.
Places(f, t, n, s) ==
    /\ f \in [1..n -> 1..Len(s)]
    /\ \A k \in 1..n : t[k] = s[f[k]]
    /\ \A k, l \in 1..n : f[k] = f[l] => k = l
From(t, s) ==
    /\ t \in Seq(Cards)
    /\ \E f : Places(f, t, Len(t), s)

LEMMA SoundFrom ==
    ASSUME NEW s, NEW t, NEW n, NEW e, NEW u, Sound(s, n, e, u), From(t, s)
    PROVE  Sound(t, n, e, u)
  <1>1. PICK f \in [1..Len(t) -> 1..Len(s)] :
          /\ \A k \in 1..Len(t) : t[k] = s[f[k]]
          /\ \A k, l \in 1..Len(t) : f[k] = f[l] => k = l
    BY DEF From, Places
  <1>2. \A k \in 1..Len(t) : f[k] \in 1..Len(s)
    BY <1>1
  <1>3. t \in Seq(Cards)
    BY DEF From
  <1>4. ASSUME NEW k \in 1..Len(t)
        PROVE  /\ t[k].id \in 1..n
               /\ t[k].override # None => t[k].override \in 1..e /\ u[t[k].override] = 0
    BY <1>1, <1>2 DEF Sound
  <1>5. ASSUME NEW k \in 1..Len(t), NEW l \in 1..Len(t),
               t[k].id = t[l].id \/ (t[k].override # None /\ t[k].override = t[l].override)
        PROVE  k = l
    <2>1. PICK i \in 1..Len(s) : i = f[k] /\ t[k] = s[i]
      BY <1>1, <1>2
    <2>2. PICK j \in 1..Len(s) : j = f[l] /\ t[l] = s[j]
      BY <1>1, <1>2
    <2>3. s[i].id = s[j].id \/ (s[i].override # None /\ s[i].override = s[j].override)
      BY <1>5, <2>1, <2>2
    <2>4. i = j
      BY <2>3 DEF Sound
    <2> QED BY <1>1, <2>1, <2>2, <2>4
  <1> QED BY <1>3, <1>4, <1>5 DEF Sound

\* t is s with the card c at place w.
Replaced(t, s, w, c) ==
    /\ t \in Seq(Cards) /\ Len(t) = Len(s) /\ w \in 1..Len(s) /\ c \in Cards
    /\ t[w] = c /\ \A i \in 1..Len(s) : i # w => t[i] = s[i]

LEMMA ReplacedFacts ==
    ASSUME NEW s \in Seq(Cards), NEW w \in 1..Len(s), NEW c \in Cards
    PROVE  Replaced([s EXCEPT ![w] = c], s, w, c)
  <1>1. PICK R : R = Cards
    OBVIOUS
  <1>2. s \in Seq(R) /\ c \in R
    BY <1>1
  <1>3. PICK t : t = [s EXCEPT ![w] = c]
    OBVIOUS
  <1>4. /\ t \in Seq(R) /\ Len(t) = Len(s)
        /\ t[w] = c /\ \A i \in 1..Len(s) : i # w => t[i] = s[i]
    BY <1>2, <1>3
  <1> QED BY <1>1, <1>3, <1>4 DEF Replaced

\* A card changed in place, with or without what waits for its next use.
LEMMA SoundReplaced ==
    ASSUME NEW s, NEW t, NEW n, NEW e, NEW u, Sound(s, n, e, u),
           NEW w, NEW c, Replaced(t, s, w, c), c.id = s[w].id, c.override \in {None, s[w].override}
    PROVE  Sound(t, n, e, u)
  <1>1. /\ t \in Seq(Cards) /\ Len(t) = Len(s) /\ w \in 1..Len(s)
        /\ t[w] = c /\ \A i \in 1..Len(s) : i # w => t[i] = s[i]
    BY DEF Replaced
  <1>2. \A i \in 1..Len(s) : t[i].id = s[i].id /\ t[i].override \in {None, s[i].override}
    BY <1>1
  <1>3. ASSUME NEW i \in 1..Len(t)
        PROVE  /\ t[i].id \in 1..n
               /\ t[i].override # None => t[i].override \in 1..e /\ u[t[i].override] = 0
    BY <1>1, <1>2 DEF Sound
  <1>4. ASSUME NEW i \in 1..Len(t), NEW j \in 1..Len(t),
               t[i].id = t[j].id \/ (t[i].override # None /\ t[i].override = t[j].override)
        PROVE  i = j
    BY <1>1, <1>2, <1>4 DEF Sound
  <1> QED BY <1>1, <1>3, <1>4 DEF Sound

\* What is sent next does not matter to the list, once it is no longer in it.
LEMMA SoundSent ==
    ASSUME NEW s, NEW n, NEW e, NEW u, Sound(s, n, e, u), NEW v, NEW o,
           \A i \in 1..e : i # o => v[i] = u[i],
           \A i \in 1..Len(s) : s[i].override # None => s[i].override # o
    PROVE  Sound(s, n, e, v)
  BY DEF Sound

\* A card gets a text for its next use.
LEMMA SoundNext ==
    ASSUME NEW s, NEW t, NEW n, NEW e \in Nat, NEW u, Sound(s, n, e, u), u[e + 1] = 0,
           NEW w, NEW c, Replaced(t, s, w, c), c.id = s[w].id, c.override = e + 1
    PROVE  Sound(t, n, e + 1, u)
  <1>1. /\ t \in Seq(Cards) /\ Len(t) = Len(s) /\ w \in 1..Len(s)
        /\ t[w] = c /\ \A i \in 1..Len(s) : i # w => t[i] = s[i]
    BY DEF Replaced
  <1>2. \A i \in 1..e : i \in 1..(e + 1) /\ i # e + 1
    OBVIOUS
  <1>3. \A i \in 1..Len(s) : t[i].id = s[i].id /\ (i # w => t[i].override = s[i].override)
    BY <1>1
  <1>4. e + 1 \in 1..(e + 1)
    OBVIOUS
  <1>5. ASSUME NEW i \in 1..Len(t)
        PROVE  /\ t[i].id \in 1..n
               /\ t[i].override # None => t[i].override \in 1..(e + 1) /\ u[t[i].override] = 0
    <2>1. CASE i = w
      BY <1>1, <1>3, <1>4, <2>1 DEF Sound
    <2>2. CASE i # w
      BY <1>1, <1>2, <1>3, <2>2 DEF Sound
    <2> QED BY <2>1, <2>2
  <1>6. ASSUME NEW i \in 1..Len(t), NEW j \in 1..Len(t),
               t[i].id = t[j].id \/ (t[i].override # None /\ t[i].override = t[j].override)
        PROVE  i = j
    <2>1. CASE t[i].id = t[j].id
      BY <1>1, <1>3, <2>1 DEF Sound
    <2>2. CASE i # w /\ j # w
      BY <1>1, <1>3, <1>6, <2>2 DEF Sound
    <2>3. ASSUME NEW k \in 1..Len(t), k # w, t[k].override = e + 1, t[k].override # None PROVE FALSE
      <3>1. s[k].override = e + 1 /\ s[k].override \in 1..e
        BY <1>1, <1>3, <2>3 DEF Sound
      <3> QED BY <1>2, <3>1
    <2> QED BY <1>1, <1>6, <2>1, <2>2, <2>3
  <1> QED BY <1>1, <1>5, <1>6 DEF Sound

\* A new card at the end.
LEMMA SoundAppend ==
    ASSUME NEW s, NEW n \in Nat, NEW e, NEW u, Sound(s, n, e, u),
           NEW text \in CommandTexts, NEW pinned \in BOOLEAN
    PROVE  Sound(Append(s, New(n + 1, text, pinned)), n + 1, e, u)
  <1>1. PICK c \in Cards : c = New(n + 1, text, pinned)
    <2>1. New(n + 1, text, pinned) \in Cards
      BY DEF New, Cards
    <2> QED BY <2>1
  <1>2. c.id = n + 1 /\ c.override = None
    BY <1>1 DEF New
  <1>3. PICK m \in Nat : m = Len(s)
    BY DEF Sound
  <1>4. PICK t : t = Append(s, c)
    OBVIOUS
  <1>5. t \in Seq(Cards) /\ Len(t) = m + 1 /\ t[m + 1] = c /\ \A i \in 1..m : t[i] = s[i]
    <2>1. PICK R : R = Cards
      OBVIOUS
    <2>2. s \in Seq(R) /\ c \in R
      BY <2>1 DEF Sound
    <2>3. t \in Seq(R) /\ Len(t) = m + 1 /\ t[m + 1] = c /\ \A i \in 1..m : t[i] = s[i]
      BY <1>3, <1>4, <2>2
    <2> QED BY <2>1, <2>3
  <1>6. \A i : i \in 1..(m + 1) <=> i \in 1..m \/ i = m + 1
    OBVIOUS
  <1>7. \A i : i \in 1..n => i \in 1..(n + 1) /\ i # n + 1
    OBVIOUS
  <1>8. n + 1 \in 1..(n + 1)
    OBVIOUS
  <1>9. ASSUME NEW i \in 1..(m + 1)
        PROVE  /\ t[i].id \in 1..(n + 1)
               /\ t[i].override # None => t[i].override \in 1..e /\ u[t[i].override] = 0
    BY <1>2, <1>3, <1>5, <1>6, <1>7, <1>8 DEF Sound
  <1>10. ASSUME NEW i \in 1..(m + 1), NEW j \in 1..(m + 1),
                t[i].id = t[j].id \/ (t[i].override # None /\ t[i].override = t[j].override)
         PROVE  i = j
    <2>1. \A k \in 1..m : t[k] = s[k] /\ s[k].id \in 1..n
      BY <1>3, <1>5 DEF Sound
    <2>2. CASE i \in 1..m /\ j \in 1..m
      BY <1>3, <1>10, <2>1, <2>2 DEF Sound
    <2> QED BY <1>2, <1>5, <1>6, <1>7, <1>10, <2>1, <2>2
  <1> QED BY <1>1, <1>4, <1>5, <1>9, <1>10 DEF Sound

LEMMA WhereFacts ==
    ASSUME NEW s \in Seq(Cards), NEW id \in IdsOf(s)
    PROVE  Where(s, id) \in 1..Len(s) /\ s[Where(s, id)].id = id
  <1>1. DOMAIN s = 1..Len(s)
    OBVIOUS
  <1>2. \E i \in DOMAIN s : s[i].id = id
    BY DEF IdsOf
  <1> QED BY <1>1, <1>2 DEF Where

LEMMA OnlyFrom ==
    ASSUME NEW s \in Seq(Cards), NEW chosen
    PROVE  From(Only(s, chosen), s)
  <1>1. PICK o \in Seq(Cards) : o = Only(s, chosen)
    BY OnlyFacts
  <1>2. PICK f : Selects(f, s, chosen, o)
    BY <1>1, OnlyFacts
  <1>3. f \in [1..Len(o) -> 1..Len(s)] /\ \A k \in 1..Len(o) : o[k] = s[f[k]]
    BY <1>2 DEF Selects
  <1>4. ASSUME NEW k \in 1..Len(o), NEW l \in 1..Len(o), f[k] = f[l] PROVE k = l
    <2>1. f[k] \in 1..Len(s) /\ f[l] \in 1..Len(s) /\ ~(f[k] < f[l]) /\ ~(f[l] < f[k])
      BY <1>3, <1>4
    <2> QED BY <1>2, <2>1 DEF Selects
  <1> QED BY <1>1, <1>3, <1>4 DEF From, Places

\* SequencesExt's InsertAt, place by place.
Inserted(new, R, q, m, w, c) ==
    /\ new \in Seq(R) /\ Len(new) = m + 1
    /\ \A k \in 1..(m + 1) : new[k] = IF k < w THEN q[k] ELSE IF k = w THEN c ELSE q[k - 1]

LEMMA InsertFacts ==
    ASSUME NEW R, NEW q \in Seq(R), NEW m \in Nat, m = Len(q), NEW w \in 1..m, NEW c \in R
    PROVE  Inserted(InsertAt(q, w, c), R, q, m, w, c)
  <1>1. PICK a : a = SubSeq(q, 1, w - 1)
    OBVIOUS
  <1>2. PICK b : b = SubSeq(q, w, m)
    OBVIOUS
  <1>3. a \in Seq(R) /\ Len(a) = w - 1 /\ \A k \in 1..(w - 1) : a[k] = q[k]
    <2>1. \A i \in 1..(w - 1) : q[i] \in R
      OBVIOUS
    <2>2. 1 \in Int /\ w - 1 \in Int /\ (w - 1) - 1 + 1 = w - 1
      OBVIOUS
    <2>3. /\ a \in Seq(R) /\ Len(a) = IF 1 <= w - 1 THEN (w - 1) - 1 + 1 ELSE 0
          /\ \A i \in 1..((w - 1) - 1 + 1) : a[i] = q[1 + i - 1]
      BY <1>1, <2>1, <2>2, SubSeqProperties
    <2> QED BY <2>3
  <1>4. b \in Seq(R) /\ Len(b) = m - w + 1 /\ \A k \in 1..(m - w + 1) : b[k] = q[w + k - 1]
    <2>1. \A i \in w..m : q[i] \in R
      OBVIOUS
    <2>2. w \in Int /\ m \in Int /\ w <= m
      OBVIOUS
    <2>3. /\ b \in Seq(R) /\ Len(b) = IF w <= m THEN m - w + 1 ELSE 0
          /\ \A i \in 1..(m - w + 1) : b[i] = q[w + i - 1]
      BY <1>2, <2>1, <2>2, SubSeqProperties
    <2> QED BY <2>2, <2>3
  <1>5. PICK ac : ac = Append(a, c)
    OBVIOUS
  <1>6. ac \in Seq(R) /\ Len(ac) = w /\ ac[w] = c /\ \A k \in 1..(w - 1) : ac[k] = q[k]
    BY <1>3, <1>5
  <1>7. InsertAt(q, w, c) = ac \o b
    <2>1. ac = a \o <<c>>
      BY <1>3, <1>5, AppendIsConcat
    <2> QED BY <1>1, <1>2, <2>1 DEF InsertAt
  <1>8. PICK new : new = ac \o b
    OBVIOUS
  <1>9. /\ new \in Seq(R) /\ Len(new) = m + 1
        /\ \A i \in 1..(m + 1) : new[i] = IF i <= w THEN ac[i] ELSE b[i - w]
    <2>1. /\ new \in Seq(R) /\ Len(new) = Len(ac) + Len(b)
          /\ \A i \in 1..(Len(ac) + Len(b)) : new[i] = IF i <= Len(ac) THEN ac[i] ELSE b[i - Len(ac)]
      BY <1>4, <1>6, <1>8, ConcatProperties
    <2>2. Len(ac) = w /\ Len(ac) + Len(b) = m + 1
      BY <1>4, <1>6
    <2> QED BY <2>1, <2>2
  <1>10. ASSUME NEW k \in 1..(m + 1)
         PROVE  new[k] = IF k < w THEN q[k] ELSE IF k = w THEN c ELSE q[k - 1]
    <2>1. new[k] = IF k <= w THEN ac[k] ELSE b[k - w]
      BY <1>9
    <2>2. CASE k <= w
      <3>1. new[k] = ac[k]
        BY <2>1, <2>2
      <3>2. CASE k < w
        <4>1. k \in 1..(w - 1)
          BY <3>2
        <4>2. ac[k] = q[k]
          BY <1>6, <4>1
        <4> QED BY <3>1, <3>2, <4>2
      <3>3. CASE k = w
        BY <1>6, <3>1, <3>3
      <3> QED BY <2>2, <3>2, <3>3
    <2>3. CASE k > w
      <3>1. k - w \in 1..(m - w + 1) /\ w + (k - w) - 1 = k - 1
        BY <2>3
      <3> QED BY <1>4, <2>1, <2>3, <3>1
    <2> QED BY <2>2, <2>3
  <1> QED BY <1>7, <1>8, <1>9, <1>10 DEF Inserted

\* A card taken from its place and put in front of another.
LEMMA MovedFrom ==
    ASSUME NEW s \in Seq(Cards), NEW d \in IdsOf(s), NEW t \in IdsOf(s), d # t
    PROVE  LET rest == Only(s, {c \in Range(s) : c.id # d})
           IN  From(InsertAt(rest, Where(rest, t), s[Where(s, d)]), s)
  <1> DEFINE others == {c \in Range(s) : c.id # d}
  <1>1. PICK rest \in Seq(Cards) : rest = Only(s, others)
    BY OnlyFacts
  <1>2. PICK f : Selects(f, s, others, rest)
    BY <1>1, OnlyFacts
  <1>3. PICK p \in 1..Len(s) : p = Where(s, d) /\ s[p].id = d
    BY WhereFacts
  <1>4. PICK m \in Nat : m = Len(rest)
    OBVIOUS
  <1>5. /\ f \in [1..m -> 1..Len(s)]
        /\ \A k \in 1..m : rest[k] = s[f[k]] /\ rest[k].id # d
        /\ \A k, l \in 1..m : f[k] = f[l] => k = l
    <2>1. /\ f \in [1..m -> 1..Len(s)] /\ \A k \in 1..m : rest[k] = s[f[k]] /\ rest[k].id # d
      BY <1>2, <1>4 DEF Selects
    <2>2. ASSUME NEW k \in 1..m, NEW l \in 1..m, f[k] = f[l] PROVE k = l
      <3>1. f[k] \in 1..Len(s) /\ f[l] \in 1..Len(s) /\ ~(f[k] < f[l]) /\ ~(f[l] < f[k])
        BY <2>1, <2>2
      <3> QED BY <1>2, <1>4, <3>1 DEF Selects
    <2> QED BY <2>1, <2>2
  <1>6. PICK w \in 1..m : w = Where(rest, t)
    <2>1. PICK i \in 1..Len(s) : s[i].id = t
      BY DEF IdsOf
    <2>2. s[i] \in others
      BY <2>1 DEF Range
    <2>3. PICK k \in 1..m : f[k] = i
      BY <1>2, <1>4, <2>2 DEF Selects
    <2>4. t \in IdsOf(rest)
      <3>1. k \in DOMAIN rest /\ rest[k].id = t
        BY <1>4, <1>5, <2>1, <2>3
      <3> QED BY <3>1 DEF IdsOf
    <2> QED BY <1>4, <2>4, WhereFacts
  <1>7. PICK c \in Cards : c = s[p]
    OBVIOUS
  <1>8. PICK new : new = InsertAt(rest, w, c)
    OBVIOUS
  <1>9. /\ new \in Seq(Cards) /\ Len(new) = m + 1
        /\ \A k \in 1..(m + 1) : new[k] = IF k < w THEN rest[k] ELSE IF k = w THEN c ELSE rest[k - 1]
    <2>1. Inserted(InsertAt(rest, w, c), Cards, rest, m, w, c)
      BY <1>4, InsertFacts
    <2> QED BY <1>8, <2>1 DEF Inserted
  <1> DEFINE g == [k \in 1..(m + 1) |-> IF k < w THEN f[k] ELSE IF k = w THEN p ELSE f[k - 1]]
  <1>10. \A k \in 1..(m + 1) : (k < w => k \in 1..m) /\ (k > w => k - 1 \in 1..m)
    OBVIOUS
  <1>11. g \in [1..(m + 1) -> 1..Len(s)] /\ \A k \in 1..(m + 1) : new[k] = s[g[k]]
    <2>1. ASSUME NEW k \in 1..(m + 1) PROVE g[k] \in 1..Len(s) /\ new[k] = s[g[k]]
      <3>1. CASE k < w
        <4>1. k \in 1..m /\ g[k] = f[k] /\ new[k] = rest[k]
          BY <1>9, <1>10, <3>1
        <4> QED BY <1>5, <4>1
      <3>2. CASE k = w
        <4>1. g[k] = p /\ new[k] = c
          BY <1>9, <3>2
        <4> QED BY <1>7, <4>1
      <3>3. CASE k > w
        <4>1. PICK j \in 1..m : j = k - 1
          BY <1>10, <3>3
        <4>2. g[k] = f[j] /\ new[k] = rest[j]
          BY <1>9, <3>3, <4>1
        <4> QED BY <1>5, <4>1, <4>2
      <3> QED BY <3>1, <3>2, <3>3
    <2>2. g \in [1..(m + 1) -> 1..Len(s)]
      BY <2>1
    <2> HIDE DEF g
    <2> QED BY <2>1, <2>2
  <1>12. ASSUME NEW k \in 1..(m + 1), NEW l \in 1..(m + 1), g[k] = g[l] PROVE k = l
    <2>1. \A i \in 1..m : f[i] # p
      BY <1>3, <1>5
    <2>2. CASE k = w \/ l = w
      BY <1>10, <1>12, <2>1, <2>2
    <2>3. CASE k # w /\ l # w
      <3>1. PICK i \in 1..m : f[i] = g[k] /\ i = IF k < w THEN k ELSE k - 1
        BY <1>10, <2>3
      <3>2. PICK j \in 1..m : f[j] = g[l] /\ j = IF l < w THEN l ELSE l - 1
        BY <1>10, <2>3
      <3>3. i = j
        BY <1>5, <1>12, <3>1, <3>2
      <3> QED BY <2>3, <3>1, <3>2, <3>3
    <2> QED BY <2>2, <2>3
  <1>13. From(new, s)
    <2> HIDE DEF g
    <2>1. Places(g, new, m + 1, s)
      BY <1>11, <1>12 DEF Places
    <2> QED BY <1>9, <2>1 DEF From
  <1> QED BY <1>1, <1>3, <1>6, <1>7, <1>8, <1>13

-----------------------------------------------------------------------------
(* What the restore makes of the saved list.                               *)

LEMMA FirstFacts ==
    ASSUME NEW T, NEW d \in Seq(T), NEW m \in 1..Len(d)
    PROVE  /\ FirstOf(d, d[m]) \in 1..m /\ d[FirstOf(d, d[m])] = d[m]
           /\ (\A j \in 1..(m - 1) : d[j] # d[m]) => FirstOf(d, d[m]) = m
  <1> DEFINE Same == {i \in 1..m : d[i] = d[m]}
  <1>1. DOMAIN d = 1..Len(d)
    OBVIOUS
  <1>2. PICK i \in Same : \A j \in Same : ~(j < i)
    <2>1. m \in Same /\ Same \in SUBSET Nat
      OBVIOUS
    <2> HIDE DEF Same
    <2> QED BY <2>1, Least
  <1>3. i \in DOMAIN d /\ d[i] = d[m] /\ \A j \in 1..(i - 1) : d[j] # d[m]
    <2>1. \A j \in 1..(i - 1) : j \in 1..m /\ j < i
      BY <1>2
    <2> QED BY <1>1, <1>2, <2>1
  <1>4. PICK f : f = FirstOf(d, d[m])
    OBVIOUS
  <1>5. f \in DOMAIN d /\ d[f] = d[m] /\ \A j \in 1..(f - 1) : d[j] # d[m]
    BY <1>3, <1>4 DEF FirstOf
  <1>6. f = i
    <2>1. f \in Nat /\ i \in Nat /\ f >= 1 /\ i >= 1
      BY <1>1, <1>2, <1>5
    <2>2. f < i => f \in 1..(i - 1)
      BY <2>1
    <2>3. i < f => i \in 1..(f - 1)
      BY <2>1
    <2> QED BY <1>3, <1>5, <2>1, <2>2, <2>3
  <1>7. (\A j \in 1..(m - 1) : d[j] # d[m]) => f = m
    <2>1. f # m => f \in 1..(m - 1)
      BY <1>2, <1>6
    <2> QED BY <1>5, <2>1
  <1> QED BY <1>2, <1>4, <1>5, <1>6, <1>7

\* The pinned cards of c are the first n texts of d, each once, in the order they first come.
Matched(c, d, n) ==
    /\ \A i \in 1..Len(c) : c[i].pinned =>
         FirstOf(d, c[i].text) \in 1..n /\ d[FirstOf(d, c[i].text)] = c[i].text
    /\ \A m \in 1..n : \E i \in 1..Len(c) : c[i].pinned /\ c[i].text = d[m]
    /\ \A i, j \in 1..Len(c) : c[i].pinned /\ c[j].pinned /\ i < j
                                 => FirstOf(d, c[i].text) < FirstOf(d, c[j].text)

LEMMA MatchedNext ==
    ASSUME NEW c \in Seq(Cards), NEW d \in Seq(CommandTexts), NEW n \in Nat, n + 1 \in 1..Len(d),
           Matched(c, d, n), NEW id \in Nat
    PROVE  LET there == \E i \in DOMAIN c : c[i].pinned /\ c[i].text = d[n + 1]
           IN  /\ there => Matched(c, d, n + 1)
               /\ ~there => Matched(Append(c, New(id, d[n + 1], TRUE)), d, n + 1)
  <1>1. DOMAIN c = 1..Len(c) /\ d[n + 1] \in CommandTexts
    OBVIOUS
  <1>2. \A i : i \in 1..(n + 1) <=> i \in 1..n \/ i = n + 1
    OBVIOUS
  <1>3. ASSUME NEW k \in DOMAIN c, c[k].pinned /\ c[k].text = d[n + 1] PROVE Matched(c, d, n + 1)
    BY <1>1, <1>2, <1>3 DEF Matched
  <1>4. ASSUME ~\E i \in DOMAIN c : c[i].pinned /\ c[i].text = d[n + 1]
        PROVE  Matched(Append(c, New(id, d[n + 1], TRUE)), d, n + 1)
    <2>1. FirstOf(d, d[n + 1]) = n + 1
      <3>1. \A j \in 1..((n + 1) - 1) : j \in 1..n
        OBVIOUS
      <3>2. \A j \in 1..((n + 1) - 1) : d[j] # d[n + 1]
        BY <1>1, <1>4, <3>1 DEF Matched
      <3> QED BY <3>2, FirstFacts
    <2>2. PICK x \in Cards : x = New(id, d[n + 1], TRUE)
      <3>1. New(id, d[n + 1], TRUE) \in Cards
        BY <1>1 DEF New, Cards
      <3> QED BY <3>1
    <2>3. x.pinned /\ x.text = d[n + 1]
      BY <2>2 DEF New
    <2>4. PICK m \in Nat : m = Len(c)
      OBVIOUS
    <2>5. PICK t : t = Append(c, x)
      OBVIOUS
    <2>6. Len(t) = m + 1 /\ t[m + 1] = x /\ \A i \in 1..m : t[i] = c[i]
      BY <2>4, <2>5
    <2>7. \A i : i \in 1..(m + 1) <=> i \in 1..m \/ i = m + 1
      OBVIOUS
    <2>8. n + 1 \in 1..(n + 1)
      OBVIOUS
    <2>9. ASSUME NEW i \in 1..(m + 1), t[i].pinned
          PROVE  FirstOf(d, t[i].text) \in 1..(n + 1) /\ d[FirstOf(d, t[i].text)] = t[i].text
      BY <1>2, <2>1, <2>3, <2>4, <2>6, <2>7, <2>8, <2>9 DEF Matched
    <2>10. ASSUME NEW k \in 1..(n + 1) PROVE \E i \in 1..(m + 1) : t[i].pinned /\ t[i].text = d[k]
      <3>1. CASE k = n + 1
        BY <2>3, <2>6, <2>7, <3>1
      <3>2. CASE k \in 1..n
        <4>1. PICK i \in 1..m : c[i].pinned /\ c[i].text = d[k]
          BY <2>4, <3>2 DEF Matched
        <4> QED BY <2>6, <2>7, <4>1
      <3> QED BY <1>2, <3>1, <3>2
    <2>11. ASSUME NEW i \in 1..(m + 1), NEW j \in 1..(m + 1), t[i].pinned, t[j].pinned, i < j
           PROVE  FirstOf(d, t[i].text) < FirstOf(d, t[j].text)
      <3>1. i \in 1..m /\ t[i] = c[i]
        BY <2>6, <2>11
      <3>2. CASE j = m + 1
        <4>1. FirstOf(d, c[i].text) \in 1..n
          BY <2>4, <2>11, <3>1 DEF Matched
        <4> QED BY <2>1, <2>3, <2>6, <3>1, <3>2, <4>1
      <3>3. CASE j \in 1..m
        BY <2>4, <2>6, <2>11, <3>1, <3>3 DEF Matched
      <3> QED BY <2>7, <3>2, <3>3
    <2>12. Matched(t, d, n + 1)
      BY <2>6, <2>9, <2>10, <2>11 DEF Matched
    <2> QED BY <2>2, <2>5, <2>12
  <1> QED BY <1>3, <1>4

\* The list after n of the saved commands.
Restoring(c, n) ==
    /\ c \in Seq(Cards) /\ Len(c) >= Len(cards)
    /\ Sound(c, lastId + Len(c) - Len(cards), edits, sent)
    /\ Pinned(cards) = <<>> => Matched(c, loaded, n)

LEMMA RestoringNext ==
    ASSUME NEW c, NEW n \in Nat, Restoring(c, n), n + 1 \in 1..Len(loaded),
           lastId \in Nat, cards \in Seq(Cards), loaded \in Seq(CommandTexts)
    PROVE  Restoring(addPinnedCommand(c, loaded[n + 1]), n + 1)
  <1>1. PICK x \in CommandTexts : x = loaded[n + 1]
    OBVIOUS
  <1>2. PICK k \in Nat : k = lastId + Len(c) - Len(cards)
    <2>1. Len(c) \in Nat /\ Len(cards) \in Nat /\ Len(c) >= Len(cards)
      BY DEF Restoring
    <2>2. lastId + Len(c) - Len(cards) \in Nat
      BY <2>1
    <2> QED BY <2>2
  <1>3. CASE \E i \in DOMAIN c : c[i].pinned /\ c[i].text = x
    <2>1. addPinnedCommand(c, x) = c
      BY <1>3 DEF addPinnedCommand
    <2>2. Pinned(cards) = <<>> => Matched(c, loaded, n + 1)
      BY <1>1, <1>3, MatchedNext DEF Restoring
    <2> QED BY <1>1, <2>1, <2>2 DEF Restoring
  <1>4. CASE ~\E i \in DOMAIN c : c[i].pinned /\ c[i].text = x
    <2>1. PICK t : t = Append(c, New(k + 1, x, TRUE))
      OBVIOUS
    <2>2. addPinnedCommand(c, x) = t
      BY <1>2, <1>4, <2>1 DEF addPinnedCommand
    <2>3. Sound(t, k + 1, edits, sent)
      BY <1>2, <2>1, SoundAppend DEF Restoring
    <2>4. t \in Seq(Cards)
      BY <2>3 DEF Sound
    <2>5. Len(t) = Len(c) + 1 /\ Len(c) \in Nat /\ Len(cards) \in Nat /\ Len(c) >= Len(cards)
      <3>1. PICK y : y = New(k + 1, x, TRUE)
        OBVIOUS
      <3>2. t = Append(c, y) /\ c \in Seq(Cards) /\ Len(c) \in Nat
        BY <2>1, <3>1 DEF Restoring
      <3> QED BY <3>2 DEF Restoring
    <2>6. k + 1 = lastId + Len(t) - Len(cards) /\ Len(t) >= Len(cards)
      BY <1>2, <2>5
    <2>7. Pinned(cards) = <<>> => Matched(t, loaded, n + 1)
      <3>1. k + 1 \in Nat
        OBVIOUS
      <3> QED BY <1>1, <1>4, <2>1, <3>1, MatchedNext DEF Restoring
    <2> QED BY <1>1, <2>2, <2>3, <2>4, <2>6, <2>7 DEF Restoring
  <1> QED BY <1>3, <1>4

LEMMA RestoreFacts ==
    ASSUME lastId \in Nat, loaded \in Seq(CommandTexts), Sound(cards, lastId, edits, sent), RestorePinned
    PROVE  /\ lastId' \in Nat /\ Sound(cards', lastId', edits, sent)
           /\ fresh' => Matched(cards', loaded, Len(loaded))
  <1>1. PICK N \in Nat : N = Len(loaded)
    OBVIOUS
  <1>2. cards \in Seq(Cards) /\ \A n \in 1..N : loaded[n] \in CommandTexts
    BY <1>1 DEF Sound
  <1> DEFINE Fits(g, m) == \A n \in 0..m : Restoring(g[n], n)
             Backs(m) == {g \in [0..m -> Seq(Cards)] :
                            /\ g[0] = cards /\ Fits(g, m)
                            /\ \A n \in 1..m : g[n] = addPinnedCommand(g[n - 1], loaded[n])}
  <1>3. Restoring(cards, 0)
    <2>1. lastId + Len(cards) - Len(cards) = lastId /\ Len(cards) >= Len(cards)
      BY <1>2
    <2>2. ASSUME Pinned(cards) = <<>> PROVE Matched(cards, loaded, 0)
      <3>1. ASSUME NEW i \in 1..Len(cards), cards[i].pinned PROVE FALSE
        <4> DEFINE chosen == {c \in Range(cards) : c.pinned}
        <4>1. PICK f : Selects(f, cards, chosen, <<>>)
          BY <1>2, <2>2, OnlyFacts DEF Pinned
        <4>2. cards[i] \in chosen
          BY <1>2, <3>1 DEF Range
        <4> QED BY <4>1, <4>2 DEF Selects
      <3> QED BY <3>1 DEF Matched
    <2> QED BY <1>2, <2>1, <2>2 DEF Restoring
  <1>4. Backs(N) # {}
    <2> DEFINE Bad == {m \in 0..N : Backs(m) = {}}
    <2>1. N \in 0..N
      OBVIOUS
    <2>2. SUFFICES ASSUME Bad # {} PROVE FALSE
      BY <2>1
    <2>3. PICK m \in Bad : \A n \in Bad : ~(n < m)
      <3>1. Bad \in SUBSET Nat
        OBVIOUS
      <3> HIDE DEF Bad
      <3> QED BY <2>2, <3>1, Least
    <2>4. m # 0
      <3>1. [n \in 0..0 |-> cards] \in Backs(0)
        BY <1>2, <1>3
      <3> QED BY <2>3, <3>1
    <2>5. PICK k \in Nat : k + 1 = m
      BY <2>3, <2>4
    <2>6. k \in 0..N /\ k < m /\ k + 1 \in 1..N /\ k \in 0..k /\ m \in Nat
      BY <2>3, <2>5
    <2>7. PICK g \in Backs(k) : TRUE
      <3> HIDE DEF Backs
      <3> QED BY <2>3, <2>6
    <2>8. PICK x : x = addPinnedCommand(g[k], loaded[k + 1])
      OBVIOUS
    <2>9. Restoring(x, k + 1) /\ x \in Seq(Cards)
      <3>1. Restoring(g[k], k)
        BY <2>6, <2>7
      <3>2. Restoring(x, k + 1)
        BY <1>1, <1>2, <2>6, <2>8, <3>1, RestoringNext
      <3> QED BY <3>2 DEF Restoring
    <2> DEFINE h == [n \in 0..(k + 1) |-> IF n = k + 1 THEN x ELSE g[n]]
    <2>10. \A n \in 0..(k + 1) : n = k + 1 \/ n \in 0..k
      OBVIOUS
    <2>11. \A n \in 0..k : n \in 0..(k + 1) /\ n # k + 1
      OBVIOUS
    <2>12. h \in [0..(k + 1) -> Seq(Cards)] /\ h[k + 1] = x /\ \A n \in 0..k : h[n] = g[n]
      BY <2>6, <2>7, <2>9, <2>10, <2>11
    <2> HIDE DEF h
    <2>13. h[0] = cards
      <3>1. 0 \in 0..k
        OBVIOUS
      <3> QED BY <2>7, <2>12, <3>1
    <2>14. Fits(h, k + 1)
      BY <2>7, <2>9, <2>10, <2>12
    <2>15. ASSUME NEW n \in 1..(k + 1) PROVE h[n] = addPinnedCommand(h[n - 1], loaded[n])
      <3>1. CASE n = k + 1
        <4>1. n - 1 = k
          BY <3>1
        <4> QED BY <2>6, <2>8, <2>12, <3>1, <4>1
      <3>2. CASE n \in 1..k
        <4>1. n - 1 \in 0..k /\ n \in 0..k
          BY <3>2
        <4>2. g[n] = addPinnedCommand(g[n - 1], loaded[n])
          BY <2>7, <3>2
        <4> QED BY <2>12, <4>1, <4>2
      <3>3. n = k + 1 \/ n \in 1..k
        OBVIOUS
      <3> QED BY <3>1, <3>2, <3>3
    <2>16. h \in Backs(k + 1)
      BY <2>12, <2>13, <2>14, <2>15
    <2> HIDE DEF Backs
    <2> QED BY <2>3, <2>5, <2>16
  <1>5. PICK g \in Backs(N) : TRUE
    BY <1>4
  <1> DEFINE back == CHOOSE f : f = [n \in 0..N |-> IF n = 0 THEN cards ELSE addPinnedCommand(f[n - 1], loaded[n])]
  <1>6. g = [n \in 0..N |-> IF n = 0 THEN cards ELSE addPinnedCommand(g[n - 1], loaded[n])]
    <2>1. \A n \in 0..N : n = 0 \/ n \in 1..N
      OBVIOUS
    <2> QED BY <1>5, <2>1
  <1>7. back = [n \in 0..N |-> IF n = 0 THEN cards ELSE addPinnedCommand(back[n - 1], loaded[n])]
    BY <1>6
  <1>8. /\ cards' = back[N] /\ lastId' = lastId + Len(back[N]) - Len(cards)
        /\ fresh' = (Pinned(cards) = <<>>)
    BY <1>1 DEF RestorePinned
  <1> HIDE DEF back
  <1>9. ASSUME {n \in 0..N : ~Restoring(back[n], n)} # {} PROVE FALSE
    <2> DEFINE Wrong == {n \in 0..N : ~Restoring(back[n], n)}
    <2>1. PICK m \in Wrong : \A n \in Wrong : ~(n < m)
      <3>1. Wrong \in SUBSET Nat /\ Wrong # {}
        BY <1>9
      <3> HIDE DEF Wrong
      <3> QED BY <3>1, Least
    <2>2. m # 0
      <3>1. back[0] = cards
        BY <1>7
      <3> QED BY <1>3, <2>1, <3>1
    <2>3. PICK k \in Nat : k + 1 = m
      BY <2>1, <2>2
    <2>4. k \in 0..N /\ k < m /\ k + 1 \in 1..N /\ k + 1 \in 0..N /\ k + 1 # 0 /\ (k + 1) - 1 = k
      BY <2>1, <2>3
    <2>5. Restoring(back[k], k)
      BY <2>1, <2>4
    <2>6. back[k + 1] = addPinnedCommand(back[k], loaded[k + 1])
      BY <1>7, <2>4
    <2>7. Restoring(back[k + 1], k + 1)
      BY <1>1, <1>2, <2>4, <2>5, <2>6, RestoringNext
    <2> QED BY <2>1, <2>3, <2>7
  <1>10. Restoring(back[N], N)
    <2>1. N \in 0..N
      OBVIOUS
    <2> QED BY <1>9, <2>1
  <1>11. lastId' \in Nat
    <2>1. Len(back[N]) \in Nat /\ Len(cards) \in Nat /\ Len(back[N]) >= Len(cards)
      BY <1>2, <1>10 DEF Restoring
    <2> QED BY <1>8, <2>1
  <1> QED BY <1>1, <1>8, <1>10, <1>11 DEF Restoring

-----------------------------------------------------------------------------
(* The inductive invariant. *)

\* The list of cards, and what was sent: at most once what was edited, nothing else.
ListInv ==
    /\ lastId \in Nat /\ edits \in 0..MaxEdits /\ fresh \in BOOLEAN
    /\ sent \in [1..MaxEdits -> Nat] /\ Sound(cards, lastId, edits, sent)
    /\ \A e \in 1..MaxEdits : sent[e] <= 1 /\ (e > edits => sent[e] = 0)

\* The restore goes by the list it has read: the one that was due, if that was sure.
OpeningInv ==
    /\ restore \in {"start", "read", "over"} /\ loaded \in Seq(CommandTexts)
    /\ due \in [list : Seq(CommandTexts), sure : BOOLEAN]
    /\ restore = "read" /\ due.sure => due.list = loaded

SavesTyped ==
    /\ disk \in Seq(CommandTexts) /\ kept \in Save /\ kept.no <= clicks
    /\ pinSave \in [status : {"idle", "saving", "saved", "error"}, timers : Nat]
    /\ saves \subseteq Save /\ \A s \in saves : s.no \in 1..clicks
    /\ writing \subseteq Save /\ \A s \in writing : s.no \in 1..clicks
    /\ clicks \in 0..MaxSaves /\ met \in BOOLEAN /\ torn \in BOOLEAN

\* There is one save at most, of a later click than the one written, and unless it has
\* truncated the file that is what the file has.
SavesApart ==
    /\ ~torn => kept.list = disk
    /\ saves = {} \/ writing = {}
    /\ (\A s, u \in saves : s = u) /\ (\A s, u \in writing : s = u)
    /\ (\A s \in saves : s.no > kept.no) /\ (\A s \in writing : s.no > kept.no)

SavedInv == SavesTyped /\ (~met => SavesApart)

\* The badges shown are those of the list the F-keys go by.
KeysInv ==
    /\ chord \in [held : BOOLEAN, typing : BOOLEAN]
    /\ items \in Seq(Nat) /\ badges \in {<<>>, items}

BoundsInv == moves \in 0..MaxMoves /\ starts \in 1..MaxStarts

\* What the restore brought back, once it is over.
PinsInv ==
    /\ fresh => restore = "over"
    /\ fresh /\ due.sure => Matched(cards, due.list, Len(due.list))

CardsInv == ListInv /\ OpeningInv /\ SavedInv /\ KeysInv /\ BoundsInv /\ PinsInv

LEMMA CardsTyped == CardsInv => CardsTypeOK
  <1> SUFFICES ASSUME CardsInv PROVE CardsTypeOK
    OBVIOUS
  <1>1. /\ cards \in Seq(Cards) /\ \A i \in DOMAIN cards : cards[i].id \in 1..lastId
        /\ \A i, j \in DOMAIN cards : cards[i].id = cards[j].id => i = j
    <2>1. cards \in Seq(Cards)
      BY DEF CardsInv, ListInv, Sound
    <2>2. DOMAIN cards = 1..Len(cards)
      BY <2>1
    <2> QED BY <2>1, <2>2 DEF CardsInv, ListInv, Sound
  <1>2. badges \in Seq(Nat)
    <2>1. <<>> \in Seq(Nat) /\ items \in Seq(Nat)
      BY DEF CardsInv, KeysInv
    <2> QED BY <2>1 DEF CardsInv, KeysInv
  <1>3. lastId \in Nat /\ {met, torn, fresh} \subseteq BOOLEAN /\ edits \in 0..MaxEdits /\ sent \in [1..MaxEdits -> Nat]
    BY DEF CardsInv, ListInv, SavedInv, SavesTyped
  <1>4. /\ disk \in Seq(CommandTexts) /\ kept \in Save /\ kept.no <= clicks
        /\ pinSave \in [status : {"idle", "saving", "saved", "error"}, timers : Nat]
        /\ saves \cup writing \subseteq Save /\ \A s \in saves \cup writing : s.no \in 1..clicks
        /\ clicks \in 0..MaxSaves
    BY DEF CardsInv, SavedInv, SavesTyped
  <1>6. /\ restore \in {"start", "read", "over"} /\ {disk, loaded} \subseteq Seq(CommandTexts)
        /\ due \in [list : Seq(CommandTexts), sure : BOOLEAN]
    BY <1>4 DEF CardsInv, OpeningInv
  <1>5. chord \in [held : BOOLEAN, typing : BOOLEAN] /\ items \in Seq(Nat) /\ moves \in 0..MaxMoves /\ starts \in 1..MaxStarts
    BY DEF CardsInv, KeysInv, BoundsInv
  <1> QED BY <1>1, <1>2, <1>3, <1>4, <1>5, <1>6 DEF CardsTypeOK

\* The texts of the pinned cards of a sound list.
LEMMA PinnedFacts ==
    ASSUME NEW s \in Seq(Cards)
    PROVE  /\ Pinned(s) \in Seq(Cards) /\ PinnedTexts(s) \in Seq(CommandTexts)
           /\ [i \in DOMAIN Pinned(s) |-> Pinned(s)[i].id] \in Seq(Nat)
  <1>1. PICK p \in Seq(Cards) : p = Pinned(s)
    BY OnlyFacts DEF Pinned
  <1>2. PICK m \in Nat : m = Len(p) /\ DOMAIN p = 1..m
    OBVIOUS
  <1>3. \A i \in 1..m : p[i].text \in CommandTexts /\ p[i].id \in Nat
    <2>1. \A i \in 1..m : p[i] \in Cards
      BY <1>2
    <2> QED BY <2>1 DEF Cards
  <1>4. [i \in 1..m |-> p[i].text] \in Seq(CommandTexts)
    BY <1>3
  <1>5. [i \in 1..m |-> p[i].id] \in Seq(Nat)
    BY <1>3
  <1>6. PinnedTexts(s) \in Seq(CommandTexts)
    BY <1>1, <1>2, <1>4 DEF PinnedTexts
  <1>7. [i \in DOMAIN Pinned(s) |-> Pinned(s)[i].id] \in Seq(Nat)
    BY <1>1, <1>2, <1>5
  <1> QED BY <1>1, <1>6, <1>7

LEMMA CardsAtFirst == CardsInit => CardsInv
  <1> SUFFICES ASSUME CardsInit PROVE CardsInv
    OBVIOUS
  <1>a. MaxEdits \in Nat /\ MaxSaves \in Nat /\ MaxMoves \in Nat /\ MaxStarts \in Nat \ {0}
    BY CommandsAssumption
  <1>1. ListInv
    <2>1. Sound(<<>>, 0, 0, sent)
      <3>1. <<>> \in Seq(Cards) /\ Len(<<>>) = 0
        OBVIOUS
      <3> QED BY <3>1 DEF Sound
    <2>2. cards = <<>> /\ lastId = 0 /\ edits = 0 /\ sent = [e \in 1..MaxEdits |-> 0] /\ fresh = FALSE
      BY DEF CardsInit
    <2>3. sent \in [1..MaxEdits -> Nat] /\ \A e \in 1..MaxEdits : sent[e] = 0
      BY <1>a, <2>2
    <2>4. fresh \in BOOLEAN
      BY <2>2
    <2>5. Sound(cards, lastId, edits, sent)
      BY <2>1, <2>2
    <2>6. lastId \in Nat /\ edits \in 0..MaxEdits
      BY <1>a, <2>2
    <2>7. \A e \in 1..MaxEdits : sent[e] <= 1 /\ (e > edits => sent[e] = 0)
      BY <2>3
    <2> QED BY <2>3, <2>4, <2>5, <2>6, <2>7 DEF ListInv
  <1>2. SavedInv
    <2>1. <<>> \in Seq(CommandTexts)
      OBVIOUS
    <2>2. /\ disk = <<>> /\ pinSave = [status |-> "idle", timers |-> 0] /\ saves = {} /\ writing = {}
          /\ clicks = 0 /\ kept = [no |-> 0, list |-> <<>>] /\ met = FALSE /\ torn = FALSE
      BY DEF CardsInit
    <2>3. kept \in Save /\ kept.no = 0 /\ kept.list = <<>>
      BY <2>1, <2>2 DEF Save
    <2>4. pinSave \in [status : {"idle", "saving", "saved", "error"}, timers : Nat]
      BY <2>2
    <2>5. disk \in Seq(CommandTexts) /\ kept.list = disk
      BY <2>1, <2>2, <2>3
    <2>6. kept.no <= clicks /\ clicks \in 0..MaxSaves
      BY <1>a, <2>2, <2>3
    <2>7. SavesTyped
      BY <2>2, <2>3, <2>4, <2>5, <2>6 DEF SavesTyped
    <2>8. SavesApart
      BY <2>2, <2>5 DEF SavesApart
    <2> QED BY <2>7, <2>8 DEF SavedInv
  <1>3. KeysInv
    <2>1. <<>> \in Seq(Nat)
      OBVIOUS
    <2>2. chord \in [held : BOOLEAN, typing : BOOLEAN] /\ items = <<>> /\ badges = <<>>
      BY DEF CardsInit
    <2> QED BY <2>1, <2>2 DEF KeysInv
  <1>4. BoundsInv
    BY <1>a DEF CardsInit, BoundsInv
  <1>5. PinsInv
    BY DEF CardsInit, PinsInv
  <1>6. OpeningInv
    <2>1. <<>> \in Seq(CommandTexts)
      OBVIOUS
    <2>2. restore = "start" /\ loaded = <<>> /\ due = [list |-> <<>>, sure |-> FALSE]
      BY DEF CardsInit, NoneDue
    <2> QED BY <2>1, <2>2 DEF OpeningInv
  <1> QED BY <1>1, <1>2, <1>3, <1>4, <1>5, <1>6 DEF CardsInv

-----------------------------------------------------------------------------
(* The steps. *)

LEMMA OpeningKept == OpeningInv /\ UNCHANGED opening => OpeningInv'
  BY DEF OpeningInv, opening

LEMMA SavedKept == SavedInv /\ UNCHANGED saving => SavedInv'
  BY DEF SavedInv, SavesTyped, SavesApart, saving

LEMMA KeysKept == KeysInv /\ UNCHANGED keys => KeysInv'
  BY DEF KeysInv, keys

LEMMA ListKept == ListInv /\ PinsInv /\ UNCHANGED list => ListInv' /\ (UNCHANGED opening => PinsInv')
  BY DEF ListInv, PinsInv, list, opening

LEMMA Moved == BoundsInv /\ UNCHANGED starts /\ (Move \/ UNCHANGED moves) => BoundsInv'
  <1> SUFFICES ASSUME BoundsInv, UNCHANGED starts, Move \/ UNCHANGED moves PROVE BoundsInv'
    OBVIOUS
  <1>1. MaxMoves \in Nat
    BY CommandsAssumption
  <1> QED BY <1>1 DEF BoundsInv, Move

\* The user changes the list.
LEMMA ChangeStep ==
    ASSUME CardsInv, NEW s, Changes(s), lastId' \in Nat, edits' \in edits..MaxEdits, sent' = sent,
           Sound(s, lastId', edits', sent)
    PROVE  CardsInv'
  <1>1. /\ Move /\ fresh' = FALSE /\ cards' = s
        /\ UNCHANGED opening /\ UNCHANGED saving /\ UNCHANGED keys /\ starts' = starts
    BY DEF Changes
  <1>2. ListInv'
    <2>1. edits \in 0..MaxEdits /\ edits' \in 0..MaxEdits /\ edits <= edits' /\ MaxEdits \in Nat
      BY CommandsAssumption DEF CardsInv, ListInv
    <2>2. fresh' \in BOOLEAN
      BY <1>1
    <2>3. sent' \in [1..MaxEdits -> Nat] /\ \A e \in 1..MaxEdits : sent'[e] <= 1 /\ (e > edits' => sent'[e] = 0)
      BY <2>1 DEF CardsInv, ListInv
    <2>4. Sound(cards', lastId', edits', sent')
      BY <1>1
    <2> QED BY <2>1, <2>2, <2>3, <2>4 DEF ListInv
  <1> QED BY <1>1, <1>2, OpeningKept, SavedKept, KeysKept, Moved DEF CardsInv, PinsInv

LEMMA AddStep == ASSUME CardsInv, NEW text \in CommandTexts, addCommand(text) PROVE CardsInv'
  <1>1. Sound(Append(cards, New(lastId + 1, text, FALSE)), lastId + 1, edits, sent)
    BY SoundAppend DEF CardsInv, ListInv
  <1>2. edits \in edits..MaxEdits /\ lastId + 1 \in Nat
    BY CommandsAssumption DEF CardsInv, ListInv
  <1> QED BY <1>1, <1>2, ChangeStep DEF addCommand

\* The list becomes s, and nothing else but.
LEMMA CardsOnlyStep ==
    ASSUME CardsInv, NEW s, Changes(s), CardsOnly, Sound(s, lastId, edits, sent)
    PROVE  CardsInv'
  <1>1. lastId' = lastId /\ edits' = edits /\ sent' = sent
    BY DEF CardsOnly
  <1>2. edits \in edits..MaxEdits /\ lastId \in Nat
    BY CommandsAssumption DEF CardsInv, ListInv
  <1> QED BY <1>1, <1>2, ChangeStep

LEMMA ClearStep == ASSUME CardsInv, clearAll PROVE CardsInv'
  <1>1. cards \in Seq(Cards)
    BY DEF CardsInv, ListInv, Sound
  <1>2. From(Pinned(cards), cards)
    BY <1>1, OnlyFrom DEF Pinned
  <1> QED BY <1>2, SoundFrom, CardsOnlyStep DEF clearAll, CardsInv, ListInv

LEMMA RemoveStep == ASSUME CardsInv, NEW id \in IdsOf(cards), removeCommand(id) PROVE CardsInv'
  <1>1. cards \in Seq(Cards)
    BY DEF CardsInv, ListInv, Sound
  <1>2. From(Without(id), cards)
    BY <1>1, OnlyFrom DEF Without
  <1> QED BY <1>2, SoundFrom, CardsOnlyStep DEF removeCommand, CardsInv, ListInv

LEMMA ReorderStep ==
    ASSUME CardsInv, NEW id \in IdsOf(cards), NEW target \in IdsOf(cards), reorderPinned(id, target)
    PROVE  CardsInv'
  <1>1. cards \in Seq(Cards)
    BY DEF CardsInv, ListInv, Sound
  <1>2. PICK s : s = InsertAt(Without(id), Where(Without(id), target), Card(id))
    OBVIOUS
  <1>3. id # target /\ Changes(s) /\ CardsOnly
    BY <1>2 DEF reorderPinned
  <1>4. From(s, cards)
    BY <1>1, <1>2, <1>3, MovedFrom DEF Without, Card
  <1> QED BY <1>3, <1>4, SoundFrom, CardsOnlyStep DEF CardsInv, ListInv

\* A card of the list, where it is.
LEMMA CardFacts ==
    ASSUME CardsInv, NEW id \in IdsOf(cards)
    PROVE  /\ cards \in Seq(Cards) /\ Where(cards, id) \in 1..Len(cards)
           /\ Card(id) = cards[Where(cards, id)] /\ Card(id) \in Cards /\ Card(id).id = id
  <1>1. cards \in Seq(Cards)
    BY DEF CardsInv, ListInv, Sound
  <1>2. Where(cards, id) \in 1..Len(cards) /\ cards[Where(cards, id)].id = id
    BY <1>1, WhereFacts
  <1> QED BY <1>1, <1>2 DEF Card

LEMMA ToggleStep == ASSUME CardsInv, NEW id \in IdsOf(cards), togglePin(id) PROVE CardsInv'
  <1>1. PICK w \in 1..Len(cards) : w = Where(cards, id)
    BY CardFacts
  <1>2. cards \in Seq(Cards) /\ cards[w] \in Cards
    BY CardFacts
  <1>3. PICK c \in Cards : c = [cards[w] EXCEPT !.pinned = ~@]
    <2>1. [cards[w] EXCEPT !.pinned = ~@] \in Cards
      BY <1>2 DEF Cards
    <2> QED BY <2>1
  <1>4. c.id = cards[w].id /\ c.override = cards[w].override
    BY <1>2, <1>3 DEF Cards
  <1>5. PICK s : s = [cards EXCEPT ![w] = c]
    OBVIOUS
  <1>6. Sound(s, lastId, edits, sent)
    BY <1>2, <1>4, <1>5, ReplacedFacts, SoundReplaced DEF CardsInv, ListInv
  <1>7. Changes(s) /\ CardsOnly
    <2>1. s = [cards EXCEPT ![w].pinned = ~@]
      BY <1>2, <1>3, <1>5
    <2> QED BY <1>1, <2>1 DEF togglePin
  <1> QED BY <1>6, <1>7, CardsOnlyStep

LEMMA EditStep ==
    ASSUME CardsInv, NEW id \in IdsOf(cards), NEW text \in CommandTexts, editCommand(id, text)
    PROVE  CardsInv'
  <1>1. PICK w \in 1..Len(cards) : w = Where(cards, id)
    BY CardFacts
  <1>2. cards \in Seq(Cards) /\ cards[w] \in Cards
    BY CardFacts
  <1>3. PICK c \in Cards : c = [cards[w] EXCEPT !.text = text, !.override = None]
    <2>1. [cards[w] EXCEPT !.text = text, !.override = None] \in Cards
      BY <1>2 DEF Cards
    <2> QED BY <2>1
  <1>4. c.id = cards[w].id /\ c.override = None
    BY <1>2, <1>3 DEF Cards
  <1>5. PICK s : s = [cards EXCEPT ![w] = c]
    OBVIOUS
  <1>6. Sound(s, lastId, edits, sent)
    BY <1>2, <1>4, <1>5, ReplacedFacts, SoundReplaced DEF CardsInv, ListInv
  <1>7. Changes(s) /\ CardsOnly
    <2>1. s = [cards EXCEPT ![w].text = text, ![w].override = None]
      BY <1>2, <1>3, <1>5
    <2> QED BY <1>1, <2>1 DEF editCommand
  <1> QED BY <1>6, <1>7, CardsOnlyStep

LEMMA EditOnceStep == ASSUME CardsInv, NEW id \in IdsOf(cards), editForNextUse(id) PROVE CardsInv'
  <1>1. PICK w \in 1..Len(cards) : w = Where(cards, id)
    BY CardFacts
  <1>2. cards \in Seq(Cards) /\ cards[w] \in Cards
    BY CardFacts
  <1>3. /\ edits \in Nat /\ edits + 1 \in 1..MaxEdits /\ edits' = edits + 1 /\ lastId' = lastId /\ sent' = sent
        /\ lastId \in Nat /\ edits + 1 \in edits..MaxEdits /\ sent[edits + 1] = 0
    BY CommandsAssumption DEF CardsInv, ListInv, editForNextUse
  <1>4. PICK c \in Cards : c = [cards[w] EXCEPT !.override = edits + 1]
    <2>1. [cards[w] EXCEPT !.override = edits + 1] \in Cards
      BY <1>2, <1>3 DEF Cards
    <2> QED BY <2>1
  <1>5. c.id = cards[w].id /\ c.override = edits + 1
    BY <1>2, <1>4 DEF Cards
  <1>6. PICK s : s = [cards EXCEPT ![w] = c]
    OBVIOUS
  <1>7. Sound(s, lastId, edits + 1, sent)
    BY <1>2, <1>3, <1>5, <1>6, ReplacedFacts, SoundNext DEF CardsInv, ListInv
  <1>8. Changes(s)
    <2>1. s = [cards EXCEPT ![w].override = edits + 1]
      BY <1>2, <1>4, <1>6
    <2> QED BY <1>1, <2>1 DEF editForNextUse
  <1> QED BY <1>3, <1>7, <1>8, ChangeStep

\* A card is used: what waited for it is sent, once, and the restored list is still there.
LEMMA UseFacts ==
    ASSUME CardsInv, NEW id \in IdsOf(cards), Use(id), UNCHANGED opening
    PROVE  ListInv' /\ PinsInv'
  <1>1. PICK w \in 1..Len(cards) : w = Where(cards, id)
    BY CardFacts
  <1>2. cards \in Seq(Cards) /\ cards[w] \in Cards /\ Card(id) = cards[w]
    BY <1>1, CardFacts
  <1>3. PICK c \in Cards : c = [cards[w] EXCEPT !.override = None]
    <2>1. [cards[w] EXCEPT !.override = None] \in Cards
      BY <1>2 DEF Cards
    <2> QED BY <2>1
  <1>4. c.id = cards[w].id /\ c.override = None /\ c.pinned = cards[w].pinned /\ c.text = cards[w].text
    BY <1>2, <1>3 DEF Cards
  <1>5. PICK s : s = [cards EXCEPT ![w] = c]
    OBVIOUS
  <1>6. cards' = s
    <2>1. s = [cards EXCEPT ![w].override = None]
      BY <1>2, <1>3, <1>5
    <2> QED BY <1>1, <2>1 DEF Use, Consumed
  <1>7. Replaced(s, cards, w, c)
    BY <1>2, <1>5, ReplacedFacts
  <1>8. Sound(s, lastId, edits, sent)
    BY <1>4, <1>7, SoundReplaced DEF CardsInv, ListInv
  <1>9. PICK o : o = cards[w].override
    OBVIOUS
  <1>10. /\ sent' = (IF o = None THEN sent ELSE [sent EXCEPT ![o] = @ + 1])
         /\ lastId' = lastId /\ edits' = edits /\ fresh' = fresh
    BY <1>2, <1>9 DEF Use
  <1>11. /\ sent \in [1..MaxEdits -> Nat] /\ edits \in 0..MaxEdits /\ MaxEdits \in Nat
         /\ \A e \in 1..MaxEdits : sent[e] <= 1 /\ (e > edits => sent[e] = 0)
    BY CommandsAssumption DEF CardsInv, ListInv
  <1>12. ListInv'
    <2>1. CASE o = None
      BY <1>6, <1>8, <1>10, <2>1 DEF CardsInv, ListInv
    <2>2. CASE o # None
      <3>1. o \in 1..edits /\ o \in 1..MaxEdits /\ sent[o] = 0
        <4>1. o \in 1..edits /\ sent[o] = 0
          BY <1>9, <2>2 DEF CardsInv, ListInv, Sound
        <4> QED BY <1>11, <4>1
      <3>2. PICK v : v = [sent EXCEPT ![o] = @ + 1]
        OBVIOUS
      <3>3. v \in [1..MaxEdits -> Nat] /\ v[o] = 1 /\ \A e \in 1..MaxEdits : e # o => v[e] = sent[e]
        BY <1>11, <3>1, <3>2
      <3>4. \A e \in 1..MaxEdits : v[e] <= 1 /\ (e > edits => v[e] = 0)
        BY <1>11, <3>1, <3>3
      <3>5. Sound(s, lastId, edits, v)
        <4>1. \A i \in 1..Len(s) : s[i].override # None => s[i].override # o
          <5>1. ASSUME NEW i \in 1..Len(s), s[i].override # None, s[i].override = o PROVE FALSE
            <6>1. i \in 1..Len(cards) /\ i # w /\ s[i] = cards[i]
              BY <1>4, <1>7, <5>1 DEF Replaced
            <6> QED BY <1>9, <2>2, <5>1, <6>1 DEF CardsInv, ListInv, Sound
          <5> QED BY <5>1
        <4>2. \A e \in 1..edits : e # o => v[e] = sent[e]
          BY <1>11, <3>3
        <4> QED BY <1>8, <4>1, <4>2, SoundSent
      <3>6. sent' = v
        BY <1>10, <2>2, <3>2
      <3> QED BY <1>6, <1>10, <3>3, <3>4, <3>5, <3>6 DEF CardsInv, ListInv
    <2> QED BY <2>1, <2>2
  <1>13. ASSUME NEW d, NEW n, Matched(cards, d, n) PROVE Matched(s, d, n)
    <2>1. Len(s) = Len(cards) /\ \A i \in 1..Len(cards) : s[i].pinned = cards[i].pinned /\ s[i].text = cards[i].text
      BY <1>4, <1>7 DEF Replaced
    <2>2. /\ \A i \in 1..Len(cards) : cards[i].pinned =>
               FirstOf(d, cards[i].text) \in 1..n /\ d[FirstOf(d, cards[i].text)] = cards[i].text
          /\ \A m \in 1..n : \E i \in 1..Len(cards) : cards[i].pinned /\ cards[i].text = d[m]
          /\ \A i, j \in 1..Len(cards) : cards[i].pinned /\ cards[j].pinned /\ i < j
                                            => FirstOf(d, cards[i].text) < FirstOf(d, cards[j].text)
      BY <1>13 DEF Matched
    <2>3. \A i \in 1..Len(s) : s[i].pinned =>
            FirstOf(d, s[i].text) \in 1..n /\ d[FirstOf(d, s[i].text)] = s[i].text
      BY <2>1, <2>2
    <2>4. ASSUME NEW m \in 1..n PROVE \E i \in 1..Len(s) : s[i].pinned /\ s[i].text = d[m]
      <3>1. PICK i \in 1..Len(cards) : cards[i].pinned /\ cards[i].text = d[m]
        BY <2>2
      <3>2. i \in 1..Len(s) /\ s[i].pinned /\ s[i].text = d[m]
        BY <2>1, <3>1
      <3> QED BY <3>2
    <2>5. \A i, j \in 1..Len(s) : s[i].pinned /\ s[j].pinned /\ i < j
                                     => FirstOf(d, s[i].text) < FirstOf(d, s[j].text)
      BY <2>1, <2>2
    <2> QED BY <2>3, <2>4, <2>5 DEF Matched
  <1>14. PinsInv'
    BY <1>6, <1>10, <1>13 DEF CardsInv, PinsInv, opening
  <1> QED BY <1>12, <1>14

LEMMA UserStep == CardsInv /\ UserChanges => CardsInv'
  <1> SUFFICES ASSUME CardsInv, UserChanges PROVE CardsInv'
    OBVIOUS
  <1>1. ASSUME NEW id \in IdsOf(cards), UseCard(id) PROVE CardsInv'
    <2>1. /\ Use(id) /\ UNCHANGED opening /\ UNCHANGED saving /\ UNCHANGED keys
          /\ moves' = moves /\ starts' = starts
      BY <1>1 DEF UseCard
    <2> QED BY <2>1, UseFacts, OpeningKept, SavedKept, KeysKept, Moved DEF CardsInv
  <1> QED BY <1>1, AddStep, ClearStep, ToggleStep, RemoveStep, EditOnceStep, EditStep, ReorderStep DEF UserChanges


\* Save Pinned is clicked: it carries the texts of the pinned cards.
LEMMA ClickStep == ASSUME CardsInv, handleSavePinned PROVE CardsInv'
  <1>1. /\ clicks' = clicks + 1 /\ clicks < MaxSaves /\ pinSave' = [pinSave EXCEPT !.status = "saving"]
        /\ saves' = saves \cup {[no |-> clicks + 1, list |-> PinnedTexts(cards)]}
        /\ met' = (met \/ saves \cup writing # {}) /\ UNCHANGED list /\ UNCHANGED opening /\ UNCHANGED keys
        /\ disk' = disk /\ writing' = writing /\ kept' = kept /\ torn' = torn
        /\ moves' = moves /\ starts' = starts
    BY DEF handleSavePinned
  <1>2. /\ disk \in Seq(CommandTexts) /\ kept \in Save /\ kept.no <= clicks
        /\ pinSave \in [status : {"idle", "saving", "saved", "error"}, timers : Nat]
        /\ saves \subseteq Save /\ \A s \in saves : s.no \in 1..clicks
        /\ writing \subseteq Save /\ \A s \in writing : s.no \in 1..clicks
        /\ clicks \in 0..MaxSaves /\ met \in BOOLEAN /\ torn \in BOOLEAN
        /\ ~met /\ ~torn => kept.list = disk
    BY DEF CardsInv, SavedInv, SavesTyped, SavesApart
  <1>3. PICK new : new = [no |-> clicks + 1, list |-> PinnedTexts(cards)]
    OBVIOUS
  <1>4. new \in Save /\ new.no = clicks + 1
    <2>1. cards \in Seq(Cards)
      BY DEF CardsInv, ListInv, Sound
    <2>2. PinnedTexts(cards) \in Seq(CommandTexts)
      BY <2>1, PinnedFacts
    <2>3. clicks + 1 \in Nat
      <3>1. clicks \in Nat
        BY <1>2, CommandsAssumption
      <3> QED BY <3>1
    <2> QED BY <1>3, <2>2, <2>3 DEF Save
  <1>5. MaxSaves \in Nat /\ clicks' \in 0..MaxSaves /\ \A n \in 1..clicks : n \in 1..(clicks + 1)
    BY <1>1, <1>2, CommandsAssumption
  <1>6. pinSave' \in [status : {"idle", "saving", "saved", "error"}, timers : Nat]
    BY <1>1, <1>2
  <1>7. /\ saves' \subseteq Save /\ \A s \in saves' : s.no \in 1..clicks'
        /\ \A s \in writing : s.no \in 1..clicks'
    BY <1>1, <1>2, <1>3, <1>4, <1>5
  <1>8. kept.no \in Nat /\ kept.no <= clicks /\ kept.no < clicks + 1 /\ kept.no <= clicks'
    BY <1>1, <1>2 DEF Save
  <1>9. met' \in BOOLEAN
    BY <1>1, <1>2
  <1>10. SavesTyped'
    BY <1>1, <1>2, <1>5, <1>6, <1>7, <1>8, <1>9 DEF SavesTyped
  <1>11. ASSUME ~met' PROVE SavesApart'
    <2>1. ~met /\ saves = {} /\ writing = {}
      BY <1>1, <1>11
    <2>2. saves' = {new}
      BY <1>1, <1>3, <2>1
    <2> QED BY <1>1, <1>2, <1>4, <1>8, <2>1, <2>2 DEF SavesApart
  <1>12. SavedInv'
    BY <1>10, <1>11 DEF SavedInv
  <1> QED BY <1>1, <1>12, ListKept, OpeningKept, KeysKept, Moved DEF CardsInv

\* What a step of a save leaves to prove.
LEMMA SaveOnlyStep == ASSUME CardsInv, SaveOnly, SavedInv' PROVE CardsInv'
  <1>1. UNCHANGED list /\ UNCHANGED opening /\ UNCHANGED keys /\ moves' = moves /\ starts' = starts
    BY DEF SaveOnly
  <1> QED BY <1>1, ListKept, OpeningKept, KeysKept, Moved DEF CardsInv

LEMMA EndedType ==
    ASSUME SavedInv, NEW st \in {"saved", "error"}
    PROVE  Ended(st) \in [status : {"idle", "saving", "saved", "error"}, timers : Nat]
  BY DEF SavedInv, SavesTyped, Ended

\* A save truncates the file.
LEMMA TruncateStep == ASSUME CardsInv, NEW s \in saves, Truncate(s) PROVE CardsInv'
  <1>1. /\ saves' = saves \ {s} /\ writing' = writing \cup {s} /\ disk' = <<>> /\ torn' = TRUE
        /\ pinSave' = pinSave /\ kept' = kept /\ clicks' = clicks /\ met' = met /\ SaveOnly
    BY DEF Truncate, SaveOnly
  <1>2. SavesTyped'
    <2>1. <<>> \in Seq(CommandTexts)
      OBVIOUS
    <2>2. SavesTyped
      BY DEF CardsInv, SavedInv
    <2> QED BY <1>1, <2>1, <2>2 DEF SavesTyped
  <1>3. ASSUME ~met PROVE SavesApart'
    <2>1. SavesApart
      BY <1>3 DEF CardsInv, SavedInv
    <2>2. writing = {} /\ \A u \in saves : u = s
      BY <2>1 DEF SavesApart
    <2>3. saves' = {} /\ writing' = {s} /\ s.no > kept.no
      BY <1>1, <2>1, <2>2 DEF SavesApart
    <2> QED BY <1>1, <2>3 DEF SavesApart
  <1> QED BY <1>1, <1>2, <1>3, SaveOnlyStep DEF SavedInv

\* It writes its list.
LEMMA WrittenStep == ASSUME CardsInv, NEW s \in writing, SavePinnedCommands(s) PROVE CardsInv'
  <1>1. /\ disk' = s.list /\ torn' = FALSE /\ kept' = (IF s.no > kept.no THEN s ELSE kept)
        /\ pinSave' = Ended("saved") /\ writing' = writing \ {s} /\ saves' = saves
        /\ clicks' = clicks /\ met' = met /\ SaveOnly
    BY DEF SavePinnedCommands, SaveOnly
  <1>2. s \in Save /\ s.no \in Nat /\ s.list \in Seq(CommandTexts) /\ s.no \in 1..clicks
    BY DEF CardsInv, SavedInv, SavesTyped, Save
  <1>3. /\ kept \in Save /\ kept.no <= clicks /\ saves \subseteq Save /\ \A u \in saves : u.no \in 1..clicks
        /\ writing \subseteq Save /\ \A u \in writing : u.no \in 1..clicks
        /\ clicks \in 0..MaxSaves /\ met \in BOOLEAN /\ (~met => SavesApart)
    BY DEF CardsInv, SavedInv, SavesTyped
  <1>4. kept' \in Save /\ kept'.no <= clicks
    <2>1. s.no <= clicks
      BY <1>2, <1>3
    <2> QED BY <1>1, <1>2, <1>3, <2>1
  <1>5. pinSave' \in [status : {"idle", "saving", "saved", "error"}, timers : Nat]
    <2>1. Ended("saved") \in [status : {"idle", "saving", "saved", "error"}, timers : Nat]
      BY EndedType DEF CardsInv
    <2> QED BY <1>1, <2>1
  <1>6. SavesTyped'
    <2>1. writing' \subseteq Save /\ \A u \in writing' : u.no \in 1..clicks
      BY <1>1, <1>3
    <2>2. disk' \in Seq(CommandTexts) /\ torn' \in BOOLEAN
      BY <1>1, <1>2
    <2> QED BY <1>1, <1>3, <1>4, <1>5, <2>1, <2>2 DEF SavesTyped
  <1>7. ASSUME ~met PROVE SavesApart'
    <2>1. saves = {} /\ (\A u \in writing : u = s) /\ s.no > kept.no
      BY <1>3, <1>7 DEF SavesApart
    <2>2. saves' = {} /\ writing' = {} /\ kept' = s
      BY <1>1, <2>1
    <2> QED BY <1>1, <2>2 DEF SavesApart
  <1> QED BY <1>1, <1>6, <1>7, SaveOnlyStep DEF SavedInv

\* It fails, before it has truncated the file or after.
LEMMA FailedStep == ASSUME CardsInv, NEW s, SaveFails(s) PROVE CardsInv'
  <1>1. /\ pinSave' = Ended("error") /\ saves' = saves \ {s} /\ writing' = writing \ {s}
        /\ disk' = disk /\ torn' = torn /\ kept' = kept /\ clicks' = clicks /\ met' = met /\ SaveOnly
    BY DEF SaveFails, SaveOnly
  <1>2. pinSave' \in [status : {"idle", "saving", "saved", "error"}, timers : Nat]
    <2>1. Ended("error") \in [status : {"idle", "saving", "saved", "error"}, timers : Nat]
      BY EndedType DEF CardsInv
    <2> QED BY <1>1, <2>1
  <1>3. SavesTyped'
    BY <1>1, <1>2 DEF CardsInv, SavedInv, SavesTyped
  <1>4. ASSUME ~met PROVE SavesApart'
    <2>1. SavesApart
      BY <1>4 DEF CardsInv, SavedInv
    <2>2. saves' \subseteq saves /\ writing' \subseteq writing
      BY <1>1
    <2>3. saves' = {} \/ writing' = {}
      BY <2>1, <2>2 DEF SavesApart
    <2> QED BY <1>1, <2>1, <2>2, <2>3 DEF SavesApart
  <1> QED BY <1>1, <1>3, <1>4, SaveOnlyStep DEF SavedInv

LEMMA LabelStep == ASSUME CardsInv, LabelReset PROVE CardsInv'
  <1>1. /\ pinSave.timers > 0 /\ pinSave' = [status |-> "idle", timers |-> pinSave.timers - 1]
        /\ saves' = saves /\ writing' = writing /\ disk' = disk /\ torn' = torn /\ kept' = kept
        /\ clicks' = clicks /\ met' = met /\ SaveOnly
    BY DEF LabelReset, SaveOnly
  <1>2. pinSave' \in [status : {"idle", "saving", "saved", "error"}, timers : Nat]
    <2>1. pinSave.timers \in Nat
      BY DEF CardsInv, SavedInv, SavesTyped
    <2>2. pinSave.timers - 1 \in Nat
      BY <1>1, <2>1
    <2> QED BY <1>1, <2>2
  <1>3. SavedInv'
    BY <1>1, <1>2 DEF CardsInv, SavedInv, SavesTyped, SavesApart
  <1> QED BY <1>1, <1>3, SaveOnlyStep

\* The restore reads the file: what it will go by is what is due, if that is sure.
LEMMA ReadStep == ASSUME CardsInv, RestoreRead PROVE CardsInv'
  <1>1. /\ restore' = "read" /\ loaded' = disk /\ due' = [list |-> kept.list, sure |-> ~torn /\ ~met]
        /\ UNCHANGED list /\ UNCHANGED saving /\ UNCHANGED keys /\ moves' = moves /\ starts' = starts
        /\ restore = "start"
    BY DEF RestoreRead
  <1>2. disk \in Seq(CommandTexts) /\ kept.list \in Seq(CommandTexts)
    BY DEF CardsInv, SavedInv, SavesTyped, Save
  <1>3. OpeningInv'
    <2>1. due'.sure <=> ~torn /\ ~met
      BY <1>1
    <2>2. due'.list = kept.list /\ due' \in [list : Seq(CommandTexts), sure : BOOLEAN]
      BY <1>1, <1>2
    <2>3. ~torn /\ ~met => kept.list = disk
      BY DEF CardsInv, SavedInv, SavesApart
    <2> QED BY <1>1, <1>2, <2>1, <2>2, <2>3 DEF OpeningInv
  <1>4. ListInv' /\ ~fresh'
    BY <1>1 DEF CardsInv, ListInv, PinsInv, list
  <1> QED BY <1>1, <1>3, <1>4, SavedKept, KeysKept, Moved DEF CardsInv, PinsInv

\* It is refused.
LEMMA RefusedStep == ASSUME CardsInv, RestoreFails PROVE CardsInv'
  <1>1. /\ restore' = "over" /\ loaded' = loaded /\ due' = due
        /\ UNCHANGED list /\ UNCHANGED saving /\ UNCHANGED keys /\ moves' = moves /\ starts' = starts
    BY DEF RestoreFails
  <1>2. OpeningInv'
    BY <1>1 DEF CardsInv, OpeningInv
  <1>3. ListInv' /\ PinsInv'
    BY <1>1 DEF CardsInv, ListInv, PinsInv, list
  <1> QED BY <1>1, <1>2, <1>3, SavedKept, KeysKept, Moved DEF CardsInv

\* Its answer comes.
LEMMA RestoreStep == ASSUME CardsInv, RestorePinned PROVE CardsInv'
  <1>1. /\ lastId' \in Nat /\ Sound(cards', lastId', edits, sent)
        /\ fresh' => Matched(cards', loaded, Len(loaded))
    BY RestoreFacts DEF CardsInv, ListInv, OpeningInv
  <1>2. /\ restore = "read" /\ restore' = "over" /\ loaded' = <<>> /\ due' = due
        /\ fresh' = (Pinned(cards) = <<>>) /\ UNCHANGED saving /\ UNCHANGED keys
        /\ moves' = moves /\ edits' = edits /\ sent' = sent /\ starts' = starts
    BY DEF RestorePinned
  <1>3. fresh' \in BOOLEAN
    BY <1>2
  <1>4. ListInv'
    BY <1>1, <1>2, <1>3 DEF CardsInv, ListInv
  <1>5. OpeningInv'
    <2>1. <<>> \in Seq(CommandTexts)
      OBVIOUS
    <2> QED BY <1>2, <2>1 DEF CardsInv, OpeningInv
  <1>6. PinsInv'
    BY <1>1, <1>2 DEF CardsInv, OpeningInv, PinsInv
  <1> QED BY <1>2, <1>4, <1>5, <1>6, SavedKept, KeysKept, Moved DEF CardsInv

\* The application ends, by whatever way, and starts again: only the file is left.
LEMMA RestartStep == ASSUME CardsInv, Restart PROVE CardsInv'
  <1>1. /\ cards' = <<>> /\ lastId' = 0 /\ fresh' = FALSE
        /\ restore' = "start" /\ loaded' = <<>> /\ due' = [list |-> <<>>, sure |-> FALSE]
        /\ saves' = {} /\ writing' = {} /\ pinSave' = [status |-> "idle", timers |-> 0]
        /\ chord' = [held |-> FALSE, typing |-> FALSE] /\ items' = <<>> /\ badges' = <<>>
        /\ disk' = disk /\ torn' = torn /\ kept' = kept /\ met' = met /\ moves' = moves /\ edits' = edits
        /\ sent' = sent /\ clicks' = clicks /\ starts < MaxStarts /\ starts' = starts + 1
    BY DEF Restart, NoneDue
  <1>2. ListInv'
    <2>1. Sound(<<>>, 0, edits, sent)
      <3>1. <<>> \in Seq(Cards) /\ Len(<<>>) = 0
        OBVIOUS
      <3> QED BY <3>1 DEF Sound
    <2>2. fresh' \in BOOLEAN
      BY <1>1
    <2> QED BY <1>1, <2>1, <2>2 DEF CardsInv, ListInv
  <1>3. SavedInv'
    <2>1. pinSave' \in [status : {"idle", "saving", "saved", "error"}, timers : Nat]
      BY <1>1
    <2>2. SavesTyped'
      BY <1>1, <2>1 DEF CardsInv, SavedInv, SavesTyped
    <2>3. ~met => SavesApart'
      BY <1>1 DEF CardsInv, SavedInv, SavesApart
    <2> QED BY <1>1, <2>2, <2>3 DEF SavedInv
  <1>4. KeysInv'
    <2>1. <<>> \in Seq(Nat) /\ chord' \in [held : BOOLEAN, typing : BOOLEAN]
      BY <1>1
    <2> QED BY <1>1, <2>1 DEF KeysInv
  <1>5. OpeningInv'
    <2>1. <<>> \in Seq(CommandTexts)
      OBVIOUS
    <2> QED BY <1>1, <2>1 DEF OpeningInv
  <1>6. BoundsInv'
    BY <1>1, CommandsAssumption DEF CardsInv, BoundsInv
  <1> QED BY <1>1, <1>2, <1>3, <1>4, <1>5, <1>6 DEF CardsInv, PinsInv

LEMMA ChordStep == ASSUME CardsInv, ChordDown \/ ChordUp \/ MoveFocus PROVE CardsInv'
  <1>1. /\ UNCHANGED list /\ UNCHANGED opening /\ UNCHANGED saving
        /\ starts' = starts /\ (Move \/ moves' = moves)
    BY DEF ChordDown, ChordUp, MoveFocus, KeysOnly
  <1>2. chord \in [held : BOOLEAN, typing : BOOLEAN] /\ items \in Seq(Nat) /\ badges \in {<<>>, items}
    BY DEF CardsInv, KeysInv
  <1>3. chord' \in [held : BOOLEAN, typing : BOOLEAN]
    BY <1>2 DEF ChordDown, ChordUp, MoveFocus
  <1>4. items' \in Seq(Nat) /\ badges' \in {<<>>, items'}
    <2>1. CASE ChordDown
      <3>1. cards \in Seq(Cards)
        BY DEF CardsInv, ListInv, Sound
      <3>2. Listed \in Seq(Nat)
        BY <3>1, PinnedFacts DEF Listed
      <3> QED BY <1>2, <2>1, <3>2 DEF ChordDown, Activated
    <2>2. CASE ChordUp
      BY <1>2, <2>2 DEF ChordUp
    <2>3. CASE MoveFocus
      BY <1>2, <2>3 DEF MoveFocus
    <2> QED BY <2>1, <2>2, <2>3
  <1>5. KeysInv'
    BY <1>3, <1>4 DEF KeysInv
  <1> QED BY <1>1, <1>5, ListKept, OpeningKept, SavedKept, Moved DEF CardsInv

LEMMA FKeyStep == ASSUME CardsInv, NEW k \in DOMAIN items, FKey(k) PROVE CardsInv'
  <1>1. UNCHANGED opening /\ UNCHANGED saving /\ UNCHANGED keys /\ moves' = moves /\ starts' = starts
    BY DEF FKey
  <1>2. ListInv' /\ PinsInv'
    <2>1. CASE ItemOf(k) \in IdsOf(cards)
      BY <1>1, <2>1, UseFacts DEF FKey
    <2>2. CASE ItemOf(k) \notin IdsOf(cards)
      BY <1>1, <2>2, ListKept DEF FKey, CardsInv
    <2> QED BY <2>1, <2>2
  <1> QED BY <1>1, <1>2, OpeningKept, SavedKept, KeysKept, Moved DEF CardsInv

LEMMA CardsStep == CardsInv /\ [CardsNext]_cardsVars => CardsInv'
  <1> SUFFICES ASSUME CardsInv, [CardsNext]_cardsVars PROVE CardsInv'
    OBVIOUS
  <1>1. CASE UNCHANGED cardsVars
    <2>1. /\ UNCHANGED list /\ UNCHANGED opening /\ UNCHANGED saving /\ UNCHANGED keys
          /\ moves' = moves /\ starts' = starts
      BY <1>1 DEF cardsVars, list, opening, saving, keys
    <2> QED BY <2>1, ListKept, OpeningKept, SavedKept, KeysKept, Moved DEF CardsInv
  <1>2. CASE CardsNext
    BY <1>2, UserStep, ClickStep, TruncateStep, WrittenStep, FailedStep, LabelStep,
       ReadStep, RefusedStep, RestoreStep, RestartStep, ChordStep, FKeyStep
       DEF CardsNext
  <1> QED BY <1>1, <1>2

LEMMA CardsHold == CardsSpec => []CardsInv
  BY CardsAtFirst, CardsStep, PTL DEF CardsSpec

-----------------------------------------------------------------------------
\* commandStore.ts, CommandSidebar.tsx, useQuickSelect.ts: no two cards share an id, and every
\* save, list and count keeps its type.
THEOREM CardsTypeCorrect == CardsSpec => []CardsTypeOK
  BY CardsTyped, CardsHold, PTL

\* commandStore.ts:134-145: whichever button or F-key comes first, and whatever happens to the
\* card before, a text edited for the next use is sent at most once.
THEOREM OverridesSentOnce == CardsSpec => []OverrideSentOnce
  <1>1. CardsInv => OverrideSentOnce
    BY DEF CardsInv, ListInv, OverrideSentOnce
  <1> QED BY <1>1, CardsHold, PTL

\* settings_service.go:559-569, config.go:349 and ThreeColumnLayout.tsx:102-123: unless two
\* saves were in flight together, or the file had been truncated and not been written when it
\* was read, what the restore brings back is what was saved last then, in its order, whatever
\* is saved before its answer comes.
THEOREM SavedPinsReturn == CardsSpec => []SavedPinsComeBack
  <1>1. CardsInv => SavedPinsComeBack
    <2> SUFFICES ASSUME CardsInv, fresh, due.sure
                 PROVE  /\ Range(PinnedTexts(cards)) = Range(due.list)
                        /\ \A i, j \in DOMAIN PinnedTexts(cards) : i < j =>
                             FirstOf(due.list, PinnedTexts(cards)[i]) < FirstOf(due.list, PinnedTexts(cards)[j])
      BY DEF SavedPinsComeBack, BroughtBack
    <2>1. PICK d \in Seq(CommandTexts) : d = due.list
      BY DEF CardsInv, OpeningInv
    <2>2. Matched(cards, d, Len(d)) /\ cards \in Seq(Cards)
      BY <2>1 DEF CardsInv, PinsInv, ListInv, Sound
    <2> DEFINE chosen == {c \in Range(cards) : c.pinned}
    <2>3. PICK p \in Seq(Cards) : p = Pinned(cards)
      BY <2>2, OnlyFacts DEF Pinned
    <2>4. PICK f : Selects(f, cards, chosen, p)
      BY <2>2, <2>3, OnlyFacts DEF Pinned
    <2>5. PICK n \in Nat : n = Len(p) /\ DOMAIN p = 1..n
      OBVIOUS
    <2>6. PICK back : back = PinnedTexts(cards)
      OBVIOUS
    <2>7. back = [i \in 1..n |-> p[i].text]
      BY <2>3, <2>5, <2>6 DEF PinnedTexts
    <2>8. ASSUME NEW i \in 1..n
          PROVE  f[i] \in 1..Len(cards) /\ cards[f[i]].pinned /\ back[i] = cards[f[i]].text
      BY <2>4, <2>5, <2>7 DEF Selects
    <2>9. \A k \in 1..Len(cards) : cards[k].pinned =>
            FirstOf(d, cards[k].text) \in 1..Len(d) /\ d[FirstOf(d, cards[k].text)] = cards[k].text
      BY <2>2 DEF Matched
    <2>10. \A k, l \in 1..Len(cards) : cards[k].pinned /\ cards[l].pinned /\ k < l
             => FirstOf(d, cards[k].text) < FirstOf(d, cards[l].text)
      BY <2>2 DEF Matched
    <2>11. ASSUME NEW i \in 1..n, NEW j \in 1..n, i < j PROVE FirstOf(d, back[i]) < FirstOf(d, back[j])
      <3>1. f[i] < f[j]
        BY <2>4, <2>5, <2>11 DEF Selects
      <3>2. PICK a \in 1..Len(cards) : a = f[i] /\ cards[a].pinned /\ back[i] = cards[a].text
        BY <2>8
      <3>3. PICK b \in 1..Len(cards) : b = f[j] /\ cards[b].pinned /\ back[j] = cards[b].text
        BY <2>8
      <3>4. FirstOf(d, cards[a].text) < FirstOf(d, cards[b].text)
        BY <2>10, <3>1, <3>2, <3>3
      <3> QED BY <3>2, <3>3, <3>4
    <2>12. DOMAIN d = 1..Len(d) /\ DOMAIN back = 1..n
      BY <2>7
    <2>13. ASSUME NEW i \in 1..n PROVE back[i] \in Range(d)
      <3>1. PICK a \in 1..Len(cards) : cards[a].pinned /\ back[i] = cards[a].text
        BY <2>8
      <3>2. FirstOf(d, cards[a].text) \in 1..Len(d) /\ d[FirstOf(d, cards[a].text)] = cards[a].text
        BY <2>9, <3>1
      <3>3. FirstOf(d, back[i]) \in 1..Len(d) /\ d[FirstOf(d, back[i])] = back[i]
        BY <3>1, <3>2
      <3> QED BY <2>12, <3>3 DEF Range
    <2>14. ASSUME NEW m \in 1..Len(d) PROVE \E i \in 1..n : back[i] = d[m]
      <3>1. PICK k \in 1..Len(cards) : cards[k].pinned /\ cards[k].text = d[m]
        BY <2>2 DEF Matched
      <3>2. cards[k] \in chosen
        BY <2>2, <3>1 DEF Range
      <3>3. PICK i \in 1..n : f[i] = k
        BY <2>4, <2>5, <3>2 DEF Selects
      <3> QED BY <2>8, <3>1, <3>3
    <2>15. Range(back) = Range(d)
      <3>1. Range(back) = {back[i] : i \in 1..n} /\ Range(d) = {d[m] : m \in 1..Len(d)}
        BY <2>12 DEF Range
      <3>2. \A x \in Range(back) : x \in Range(d)
        BY <2>13, <3>1
      <3>3. \A m \in 1..Len(d) : \E i \in 1..n : back[i] = d[m]
        BY <2>14
      <3>4. \A x \in Range(d) : x \in Range(back)
        BY <3>1, <3>3
      <3> QED BY <3>2, <3>4
    <2> QED BY <2>1, <2>6, <2>11, <2>12, <2>15
  <1> QED BY <1>1, CardsHold, PTL

\* useQuickSelect.ts:139-163: an F-key changes no card but the one that shows it, however the
\* cards have changed since the badges were drawn.
THEOREM FKeysUseTheirCards == CardsSpec => FKeyUsesItsCard
  <1> DEFINE Uses == \A k \in DOMAIN badges : FKey(k) =>
                        \A i \in DOMAIN cards : cards'[i] # cards[i] => cards[i].id = badges[k]
  <1>1. CardsInv => Uses
    <2> SUFFICES ASSUME CardsInv, NEW k \in DOMAIN badges, FKey(k),
                        NEW i \in DOMAIN cards, cards'[i] # cards[i]
                 PROVE  cards[i].id = badges[k]
      OBVIOUS
    <2>1. badges = items
      <3>1. DOMAIN <<>> = {}
        OBVIOUS
      <3> QED BY <3>1 DEF CardsInv, KeysInv
    <2>2. badges[k] \in IdsOf(cards) /\ Use(badges[k])
      BY <2>1 DEF FKey, ItemOf, list
    <2>3. cards' = [cards EXCEPT ![Where(cards, badges[k])].override = None]
      BY <2>2 DEF Use, Consumed
    <2>4. i = Where(cards, badges[k])
      BY <2>3
    <2>5. cards[Where(cards, badges[k])].id = badges[k]
      <3>1. cards \in Seq(Cards)
        BY DEF CardsInv, ListInv, Sound
      <3> QED BY <2>2, <3>1, WhereFacts
    <2> QED BY <2>4, <2>5
  <1>2. CardsInv /\ [CardsNext]_cardsVars => [Uses]_cardsVars
    BY <1>1
  <1> QED BY <1>2, CardsHold, PTL DEF CardsSpec, FKeyUsesItsCard
=============================================================================
