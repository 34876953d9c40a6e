----------------------------- MODULE TerminalsProofs -----------------------------
(***************************************************************************)
(* Proofs about Terminals, for any sessions, finite set of panes and ticks: *)
(* what becomes of a session's handles; that its tab is there when the     *)
(* session is, once nothing of it is under way; and that the active tab    *)
(* stays one of the tabs.                                                  *)
(***************************************************************************)
EXTENDS Terminals, FiniteSetTheorems, WellFoundedInduction, TLAPS

-----------------------------------------------------------------------------
(* The inductive invariant. *)

SessionTypes ==
    /\ conn \in [Sess -> [kind : Kinds, pc : {"new", "opening", "adding", "over"}]]
    /\ registered \subseteq Sess
    /\ pump \in [Sess -> [Pumps -> {"none", "reading", "closing", "done"}]]
    /\ closing \in [Ids \X Clicks -> {"no", "called", "taken", "answered"}]
    /\ released \in [Sess -> Nat]

\* The pumps of a session run, and the two ways to have taken it out of the table.
Started(s)      == pump[s][1] # "none"
PumpHas(s, n)   == pump[s][n] = "closing"
ClickHas(s, n)  == closing[<<s, n>>] = "taken"
Taken(s)        == (\E n \in Pumps : PumpHas(s, n)) \/ (\E n \in Clicks : ClickHas(s, n))

\* A session is in the table, in the hands of one that took it out, or released: one of
\* the three from the time its pumps run, none of them before.
OwnedOnce(s) ==
    /\ \A n \in Pumps : pump[s][n] # "none" => Started(s)
    /\ conn[s].pc \in {"new", "opening"} => ~Started(s)
    /\ ~Started(s) => s \notin registered /\ ~Taken(s) /\ released[s] = 0
    /\ s \in registered => ~Taken(s) /\ released[s] = 0
    /\ Taken(s) => released[s] = 0
    /\ Started(s) /\ s \notin registered /\ ~Taken(s) => released[s] = 1
    /\ \A m, n \in Pumps : PumpHas(s, m) /\ PumpHas(s, n) => m = n
    /\ \A m, n \in Clicks : ClickHas(s, m) /\ ClickHas(s, n) => m = n
    /\ \A m \in Pumps, n \in Clicks : ~(PumpHas(s, m) /\ ClickHas(s, n))

IInv == SessionTypes /\ \A s \in Sess : OwnedOnce(s)

-----------------------------------------------------------------------------
LEMMA InitOwned == Init => IInv
  <1> SUFFICES ASSUME Init PROVE IInv
    OBVIOUS
  <1>1. conn \in [Sess -> [kind : Kinds, pc : {"new", "opening", "adding", "over"}]]
    <2>1. ASSUME NEW c \in [kind : Kinds, pc : {"new"}]
          PROVE  c \in [kind : Kinds, pc : {"new", "opening", "adding", "over"}]
      OBVIOUS
    <2>2. \A s \in Sess : conn[s] \in [kind : Kinds, pc : {"new"}]
      BY DEF Init
    <2>3. conn = [s \in Sess |-> conn[s]]
      BY DEF Init
    <2> QED BY <2>1, <2>2, <2>3
  <1>2. SessionTypes
    BY <1>1 DEF Init, SessionTypes
  <1>3. ASSUME NEW s \in Sess PROVE OwnedOnce(s)
    <2>1. /\ \A n \in Pumps : pump[s][n] = "none"
          /\ \A n \in Clicks : closing[<<s, n>>] = "no"
          /\ s \notin registered /\ released[s] = 0 /\ 1 \in Pumps
      BY DEF Init, Pumps, Clicks, Ids
    <2> QED BY <2>1 DEF OwnedOnce, Started, PumpHas, ClickHas, Taken
  <1> QED BY <1>2, <1>3 DEF IInv

\* What is not about the sessions leaves them alone: the tabs, the names, the capture.
Elsewhere == UNCHANGED <<conn, registered, pump, closing, released>>

LEMMA ElsewhereKeeps == IInv /\ Elsewhere => IInv'
  <1> SUFFICES ASSUME IInv, Elsewhere PROVE IInv'
    OBVIOUS
  <1>1. SessionTypes'
    BY DEF IInv, Elsewhere, SessionTypes
  <1>2. ASSUME NEW s \in Sess PROVE OwnedOnce(s)'
    <2>1. OwnedOnce(s)
      BY DEF IInv
    <2> QED BY <2>1 DEF Elsewhere, OwnedOnce, Started, PumpHas, ClickHas, Taken
  <1> QED BY <1>1, <1>2 DEF IInv

\* The steps of sessions and of their close buttons.
SessionStep ==
    \/ \E s \in Sess : Open(s) \/ OpenFails(s) \/ Register(s) \/ TabAdded(s)
    \/ \E s \in Sess, n \in Pumps : PumpTakes(s, n) \/ PumpCloses(s, n)
    \/ \E i \in Ids, n \in Clicks : \/ Close(i, n) \/ CloseTakes(i, n)
                                   \/ CloseReleases(i, n) \/ CloseAnswered(i, n)

LEMMA NextCases == [Next]_vars => SessionStep \/ Elsewhere
  <1> SUFFICES ASSUME [Next]_vars PROVE SessionStep \/ Elsewhere
    OBVIOUS
  <1>1. CASE UNCHANGED vars
    BY <1>1 DEF vars, sessVars, Elsewhere
  <1>2. CASE PollTick \/ (\E k \in Ticks : Ticking(k) \/ ForceTick(k)) \/ \E p \in Panes : World(p)
    BY <1>2 DEF PollTick, Ticking, ForceTick, World, tabVars, sessVars, Elsewhere
  <1>3. CASE Handle \/ Click \/ Activate \/ Hidden \/ CommitRename \/ \E n \in DOMAIN quick : FKey(n)
    BY <1>3 DEF Handle, Click, Activate, Hidden, CommitRename, FKey, sessVars, Elsewhere
  <1>4. ASSUME NEW s \in Sess,
               Dies(s) \/ SaveTerminal(s) \/ Saved(s) \/ \E mode \in {"rename", "saveTmux"} : StartRename(s, mode)
        PROVE  Elsewhere
    BY <1>4 DEF Dies, SaveTerminal, Saved, StartRename, sessVars, Elsewhere
  <1> QED BY <1>1, <1>2, <1>3, <1>4 DEF Next, SessionStep

\* A step of session s leaves the others alone.
Others(s) == \A t \in Sess \ {s} :
    /\ conn'[t] = conn[t] /\ (t \in registered' <=> t \in registered) /\ released'[t] = released[t]
    /\ \A n \in Pumps : pump'[t][n] = pump[t][n]
    /\ \A n \in Clicks : closing'[<<t, n>>] = closing[<<t, n>>]

LEMMA OthersKeep ==
    ASSUME IInv, NEW s, Others(s), SessionTypes', s \in Sess => OwnedOnce(s)'
    PROVE  IInv'
  <1>1. ASSUME NEW t \in Sess \ {s} PROVE OwnedOnce(t)'
    <2>1. OwnedOnce(t)
      BY DEF IInv
    <2>2. /\ Started(t)' <=> Started(t)
          /\ \A n \in Pumps : PumpHas(t, n)' <=> PumpHas(t, n)
          /\ \A n \in Clicks : ClickHas(t, n)' <=> ClickHas(t, n)
      BY DEF Others, Started, PumpHas, ClickHas, Pumps
    <2>3. Taken(t)' <=> Taken(t)
      BY <2>2 DEF Taken, Pumps, Clicks
    <2>4. /\ conn'[t] = conn[t] /\ (t \in registered' <=> t \in registered) /\ released'[t] = released[t]
          /\ \A n \in Pumps : pump'[t][n] = pump[t][n]
      BY DEF Others
    <2> HIDE DEF Pumps, Clicks
    <2> QED BY <2>1, <2>2, <2>3, <2>4 DEF OwnedOnce
  <1>2. \A t \in Sess : OwnedOnce(t)'
    BY <1>1
  <1> QED BY <1>2 DEF IInv

LEMMA OpenOwned ==
    ASSUME IInv, NEW s \in Sess, Open(s) \/ OpenFails(s) \/ TabAdded(s)
    PROVE  IInv'
  <1>1. /\ UNCHANGED <<registered, pump, closing, released>>
        /\ \E pc \in {"opening", "over"} : conn' = [conn EXCEPT ![s].pc = pc]
        /\ conn'[s].pc = "opening" => conn[s].pc = "new"
    BY DEF Open, OpenFails, TabAdded, sessVars, IInv, SessionTypes
  <1>2. SessionTypes'
    BY <1>1 DEF IInv, SessionTypes
  <1>3. Others(s)
    BY <1>1 DEF Others, IInv, SessionTypes
  <1>4. OwnedOnce(s)
    BY DEF IInv
  <1>5. OwnedOnce(s)'
    BY <1>1, <1>4 DEF OwnedOnce, Started, PumpHas, ClickHas, Taken
  <1> QED BY <1>2, <1>3, <1>5, OthersKeep

LEMMA RegisterOwned ==
    ASSUME IInv, NEW s \in Sess, Register(s)
    PROVE  IInv'
  <1>1. OwnedOnce(s) /\ SessionTypes
    BY DEF IInv
  <1>2. /\ conn[s].pc = "opening" /\ conn' = [conn EXCEPT ![s].pc = "adding"]
        /\ registered' = registered \cup {s} /\ UNCHANGED <<closing, released>>
        /\ pump' = [pump EXCEPT ![s] = [n \in Pumps |-> IF n \in PumpsOf(s) THEN "reading" ELSE "none"]]
    BY DEF Register
  <1>3. SessionTypes'
    BY <1>1, <1>2 DEF SessionTypes
  <1>4. Others(s)
    BY <1>1, <1>2 DEF Others, SessionTypes
  <1>5. /\ ~Taken(s) /\ released'[s] = 0 /\ s \in registered' /\ conn'[s].pc = "adding"
        /\ \A n \in Pumps : pump'[s][n] # "closing"
        /\ pump'[s][1] = "reading"
    BY <1>1, <1>2 DEF SessionTypes, OwnedOnce, PumpsOf, Pumps
  <1>6. OwnedOnce(s)'
    BY <1>2, <1>5 DEF OwnedOnce, Started, PumpHas, ClickHas, Taken
  <1> QED BY <1>3, <1>4, <1>6, OthersKeep

\* A pump or a click takes the session out of the table, or finds that another has.
LEMMA TakeOwned ==
    ASSUME IInv, \/ \E s \in Sess, n \in Pumps : PumpTakes(s, n)
                 \/ \E i \in Ids, n \in Clicks : CloseTakes(i, n)
    PROVE  IInv'
  <1>1. ASSUME NEW s \in Sess, NEW n \in Pumps, PumpTakes(s, n)
        PROVE  IInv'
    <2>1. OwnedOnce(s) /\ SessionTypes
      BY DEF IInv
    <2> DEFINE to == IF s \in registered THEN "closing" ELSE "done"
    <2>2. /\ pump[s][n] = "reading" /\ pump' = [pump EXCEPT ![s][n] = to]
          /\ registered' = registered \ {s} /\ UNCHANGED <<conn, closing, released>>
      BY <1>1 DEF PumpTakes
    <2>3. SessionTypes'
      BY <2>1, <2>2 DEF SessionTypes
    <2>4. pump'[s][n] = to /\ \A m \in Pumps \ {n} : pump'[s][m] = pump[s][m]
      BY <2>1, <2>2 DEF SessionTypes
    <2>5. Others(s)
      BY <2>1, <2>2 DEF Others, SessionTypes
    <2>6. OwnedOnce(s)'
      BY <2>1, <2>2, <2>4 DEF OwnedOnce, Started, PumpHas, ClickHas, Taken, Pumps, Clicks
    <2> QED BY <2>3, <2>5, <2>6, OthersKeep
  <1>2. ASSUME NEW i \in Ids, NEW n \in Clicks, CloseTakes(i, n)
        PROVE  IInv'
    <2>1. SessionTypes /\ (i \in Sess => OwnedOnce(i))
      BY DEF IInv
    <2> DEFINE to == IF i \in registered THEN "taken" ELSE "answered"
    <2>2. /\ closing[<<i, n>>] = "called" /\ closing' = [closing EXCEPT ![<<i, n>>] = to]
          /\ registered' = registered \ {i} /\ UNCHANGED <<conn, pump, released>>
      BY <1>2 DEF CloseTakes
    <2>3. SessionTypes'
      BY <2>1, <2>2 DEF SessionTypes
    <2>4. closing'[<<i, n>>] = to /\ \A j \in Ids, m \in Clicks : <<j, m>> # <<i, n>> => closing'[<<j, m>>] = closing[<<j, m>>]
      BY <2>1, <2>2 DEF SessionTypes
    <2>5. Others(i)
      BY <2>1, <2>2, <2>4 DEF Others, SessionTypes, Ids
    <2>6. i \in Sess => OwnedOnce(i)'
      BY <2>1, <2>2, <2>4 DEF OwnedOnce, Started, PumpHas, ClickHas, Taken, Pumps, Clicks
    <2> QED BY <2>3, <2>5, <2>6, OthersKeep
  <1> QED BY <1>1, <1>2

\* Whoever took the session out of the table closes its handles.
LEMMA ReleaseOwned ==
    ASSUME IInv, \/ \E s \in Sess, n \in Pumps : PumpCloses(s, n)
                 \/ \E i \in Ids, n \in Clicks : CloseReleases(i, n)
    PROVE  IInv'
  <1>1. ASSUME NEW s \in Sess, NEW n \in Pumps, PumpCloses(s, n)
        PROVE  IInv'
    <2>1. OwnedOnce(s) /\ SessionTypes
      BY DEF IInv
    <2>2. /\ pump[s][n] = "closing" /\ pump' = [pump EXCEPT ![s][n] = "done"]
          /\ released' = [released EXCEPT ![s] = @ + 1] /\ UNCHANGED <<conn, closing, registered>>
      BY <1>1 DEF PumpCloses
    <2>3. SessionTypes'
      BY <2>1, <2>2 DEF SessionTypes
    <2>4. pump'[s][n] = "done" /\ \A m \in Pumps \ {n} : pump'[s][m] = pump[s][m]
      BY <2>1, <2>2 DEF SessionTypes
    <2>5. released[s] = 0 /\ released'[s] = 1
      BY <2>1, <2>2 DEF SessionTypes, OwnedOnce, Taken, PumpHas
    <2>6. Others(s)
      BY <2>1, <2>2 DEF Others, SessionTypes
    <2>7. OwnedOnce(s)'
      BY <2>1, <2>2, <2>4, <2>5 DEF OwnedOnce, Started, PumpHas, ClickHas, Taken, Pumps, Clicks
    <2> QED BY <2>3, <2>6, <2>7, OthersKeep
  <1>2. ASSUME NEW i \in Ids, NEW n \in Clicks, CloseReleases(i, n)
        PROVE  IInv'
    <2>1. SessionTypes /\ (i \in Sess => OwnedOnce(i))
      BY DEF IInv
    <2>2. /\ closing[<<i, n>>] = "taken" /\ closing' = [closing EXCEPT ![<<i, n>>] = "answered"]
          /\ released' = [released EXCEPT ![i] = @ + 1] /\ UNCHANGED <<conn, pump, registered>>
      BY <1>2 DEF CloseReleases
    <2>3. /\ released' \in [Sess -> Nat] /\ \A j \in Sess \ {i} : released'[j] = released[j]
          /\ i \in Sess => released'[i] = released[i] + 1
      <3>1. \A j \in Sess : released[j] \in Nat /\ released[j] + 1 \in Nat
        BY <2>1 DEF SessionTypes
      <3>2. released' = [j \in Sess |-> IF j = i THEN released[j] + 1 ELSE released[j]]
        BY <2>1, <2>2 DEF SessionTypes
      <3> QED BY <3>1, <3>2
    <2>4. SessionTypes'
      BY <2>1, <2>2, <2>3 DEF SessionTypes
    <2>5. /\ closing'[<<i, n>>] = "answered"
          /\ \A j \in Ids, m \in Clicks : <<j, m>> # <<i, n>> => closing'[<<j, m>>] = closing[<<j, m>>]
      BY <2>1, <2>2 DEF SessionTypes
    <2>6. i \in Sess => released[i] = 0 /\ released'[i] = 1
      <3>1. i \in Sess => released[i] = 0
        BY <2>1, <2>2 DEF OwnedOnce, Taken, ClickHas
      <3> QED BY <2>3, <3>1
    <2>7. Others(i)
      BY <2>1, <2>2, <2>5, <2>3 DEF Others, SessionTypes, Ids
    <2>8. i \in Sess => OwnedOnce(i)'
      BY <2>1, <2>2, <2>5, <2>6 DEF OwnedOnce, Started, PumpHas, ClickHas, Taken, Pumps, Clicks
    <2> QED BY <2>4, <2>7, <2>8, OthersKeep
  <1> QED BY <1>1, <1>2

\* A click on the close button, and its answer, hold no session.
LEMMA ClickOwned ==
    ASSUME IInv, NEW i \in Ids, NEW n \in Clicks, Close(i, n) \/ CloseAnswered(i, n)
    PROVE  IInv'
  <1>1. SessionTypes /\ (i \in Sess => OwnedOnce(i))
    BY DEF IInv
  <1>2. PICK to \in {"called", "no"} :
          /\ closing[<<i, n>>] # "taken" /\ closing' = [closing EXCEPT ![<<i, n>>] = to]
          /\ UNCHANGED <<conn, registered, pump, released>>
    BY DEF Close, CloseAnswered, sessVars
  <1>3. SessionTypes'
    BY <1>1, <1>2 DEF SessionTypes
  <1>4. closing'[<<i, n>>] = to /\ \A j \in Ids, m \in Clicks : <<j, m>> # <<i, n>> => closing'[<<j, m>>] = closing[<<j, m>>]
    BY <1>1, <1>2 DEF SessionTypes
  <1>5. Others(i)
    BY <1>1, <1>2, <1>4 DEF Others, SessionTypes, Ids
  <1>6. i \in Sess => OwnedOnce(i)'
    BY <1>1, <1>2, <1>4 DEF OwnedOnce, Started, PumpHas, ClickHas, Taken, Pumps, Clicks, Ids
  <1> QED BY <1>3, <1>5, <1>6, OthersKeep

LEMMA StepOwned == IInv /\ [Next]_vars => IInv'
  BY NextCases, ElsewhereKeeps, OpenOwned, RegisterOwned, TakeOwned, ReleaseOwned, ClickOwned
     DEF SessionStep

\* CloseTerminal and the pumps of a session race for it (PTYService.sessions and its mutex):
\* the handles are closed once, after nobody can find the session in the table any more, and
\* when all is quiet they have been.
THEOREM ReleasedOnce == Spec => []SessionReleasedOnce
  <1>1. IInv => SessionReleasedOnce
    <2> SUFFICES ASSUME IInv, NEW s \in Sess
                 PROVE  /\ released[s] <= 1
                        /\ s \in registered => released[s] = 0
                        /\ Settled(s) /\ s \notin registered /\ pump[s][1] # "none" => released[s] = 1
      BY DEF SessionReleasedOnce
    <2>1. OwnedOnce(s)
      BY DEF IInv
    <2>2. released[s] = 0 \/ released[s] = 1
      BY <2>1 DEF OwnedOnce
    <2>3. Settled(s) => ~Taken(s)
      BY DEF Settled, Taken, PumpHas, ClickHas
    <2> QED BY <2>1, <2>2, <2>3 DEF OwnedOnce, Started
  <1> QED BY <1>1, InitOwned, StepOwned, PTL DEF Spec

-----------------------------------------------------------------------------
(***************************************************************************)
(* The tabs.                                                               *)
(***************************************************************************)

\* A set of numbers that has an element has a least one.
LEMMA Least ==
    ASSUME NEW T \in SUBSET Nat, T # {}
    PROVE  \E m \in T : \A n \in T : ~(n < m)
  <1>1. IsWellFoundedOn(OpToRel(<, Nat), Nat)
    BY NatLessThanWellFounded
  <1>2. PICK m \in T : \A n \in T : <<n, m>> \notin OpToRel(<, Nat)
    BY <1>1, WFMin
  <1> QED BY <1>2 DEF OpToRel

\* What is left of q is a sequence of the elements of q that are not gone.
LEMMA WithoutRange ==
    ASSUME NEW S, NEW q \in Seq(S), NEW gone
    PROVE  Without(q, gone) \in Seq(S) /\ Range(Without(q, gone)) = Range(q) \ gone
  <1> DEFINE N == Len(q)
             Goes(r, n) == IF q[n] \in gone THEN r ELSE Append(r, q[n])
             Partial(m) == {g \in [0..m -> Seq(S)] :
                              g[0] = <<>> /\ \A n \in 1..m : g[n] = Goes(g[n - 1], n)}
  <1>0. N \in Nat /\ \A n \in 1..N : q[n] \in S
    OBVIOUS
  <1>a. \A r \in Seq(S), n \in 1..N : Goes(r, n) \in Seq(S)
    BY <1>0
  <1> HIDE DEF N, Goes
  <1>1. Partial(N) # {}
    <2> DEFINE Bad == {m \in 0..N : Partial(m) = {}}
    <2>0. N \in 0..N
      BY <1>0
    <2>1. SUFFICES ASSUME Bad # {} PROVE FALSE
      BY <2>0
    <2>2. PICK m \in Bad : \A n \in Bad : ~(n < m)
      <3>1. Bad \in SUBSET Nat
        BY <1>0
      <3> HIDE DEF Bad
      <3> QED BY <2>1, <3>1, Least
    <2>3. m # 0
      <3>1. [n \in 0..0 |-> <<>>] \in Partial(0)
        OBVIOUS
      <3> QED BY <2>2, <3>1
    <2>4. m \in 1..N /\ m - 1 \in 0..N /\ m - 1 < m
      BY <1>0, <2>2, <2>3
    <2>5. m - 1 \notin Bad
      BY <2>2, <2>4
    <2>6. PICK g \in Partial(m - 1) : TRUE
      BY <2>4, <2>5
    <2> DEFINE h == [n \in 0..m |-> IF n = m THEN Goes(g[m - 1], m) ELSE g[n]]
    <2>7. h \in [0..m -> Seq(S)]
      BY <1>0, <1>a, <2>4
    <2>8. h[0] = <<>> /\ \A n \in 1..m : h[n] = Goes(h[n - 1], n)
      <3>1. h[0] = <<>>
        BY <2>4
      <3>2. \A n \in 1..m : n - 1 \in 0..(m - 1) /\ n - 1 \in 0..m /\ n - 1 # m /\ n \in 0..m
        BY <2>4
      <3>3. \A n \in 1..m : n # m => n \in 1..(m - 1)
        BY <2>4
      <3> QED BY <2>6, <3>1, <3>2, <3>3
    <2>9. h \in Partial(m)
      BY <2>7, <2>8
    <2> QED BY <2>2, <2>9
  <1>2. PICK g \in [0..N -> Seq(S)] : g[0] = <<>> /\ \A n \in 1..N : g[n] = Goes(g[n - 1], n)
    BY <1>1
  <1> DEFINE rest == CHOOSE f : f = [n \in 0..N |-> IF n = 0 THEN <<>> ELSE IF q[n] \in gone THEN f[n - 1] ELSE Append(f[n - 1], q[n])]
  <1>3. Without(q, gone) = rest[N]
    BY DEF Without, N
  <1>4. g = [n \in 0..N |-> IF n = 0 THEN <<>> ELSE IF q[n] \in gone THEN g[n - 1] ELSE Append(g[n - 1], q[n])]
    <2>1. \A n \in 0..N : n = 0 \/ n \in 1..N
      BY <1>0
    <2> QED BY <1>2, <2>1 DEF Goes
  <1>5. rest = [n \in 0..N |-> IF n = 0 THEN <<>> ELSE IF q[n] \in gone THEN rest[n - 1] ELSE Append(rest[n - 1], q[n])]
    BY <1>4
  <1> HIDE DEF rest
  <1> DEFINE Left(n) == rest[n] \in Seq(S) /\ Range(rest[n]) = {q[i] : i \in 1..n} \ gone
             Wrong   == {n \in 0..N : ~Left(n)}
  <1>6. Wrong = {}
    <2>1. SUFFICES ASSUME Wrong # {} PROVE FALSE
      OBVIOUS
    <2>2. PICK m \in Wrong : \A n \in Wrong : ~(n < m)
      <3>1. Wrong \in SUBSET Nat
        BY <1>0
      <3> HIDE DEF Wrong
      <3> QED BY <2>1, <3>1, Least
    <2>3. m # 0
      <3>1. rest[0] = <<>>
        BY <1>0, <1>5
      <3>2. Left(0)
        BY <3>1 DEF Range
      <3> QED BY <2>2, <3>2
    <2>4. m \in 1..N /\ m - 1 \in 0..N /\ m - 1 < m
      BY <1>0, <2>2, <2>3
    <2>5. Left(m - 1)
      BY <2>2, <2>4
    <2>6. rest[m] = Goes(rest[m - 1], m)
      <3>1. m \in 0..N /\ m # 0
        BY <2>2, <2>3
      <3> QED BY <1>5, <3>1 DEF Goes
    <2>7. {q[i] : i \in 1..m} = {q[i] : i \in 1..(m - 1)} \cup {q[m]}
      <3>1. \A i : i \in 1..m <=> i \in 1..(m - 1) \/ i = m
        BY <2>4
      <3> QED BY <3>1
    <2>8. CASE q[m] \in gone
      BY <2>2, <2>5, <2>6, <2>7, <2>8 DEF Goes
    <2>9. CASE q[m] \notin gone
      <3>1. PICK r \in Seq(S) : r = rest[m - 1]
        BY <2>5
      <3>2. PICK x \in S : x = q[m]
        BY <1>0, <2>4
      <3>3. rest[m] = Append(r, x)
        BY <2>6, <2>9, <3>1, <3>2 DEF Goes
      <3>4. Append(r, x) \in Seq(S) /\ Range(Append(r, x)) = Range(r) \cup {x}
        <4>1. /\ DOMAIN Append(r, x) = 1..(Len(r) + 1) /\ DOMAIN r = 1..Len(r) /\ Len(r) \in Nat
              /\ Append(r, x)[Len(r) + 1] = x /\ \A i \in 1..Len(r) : Append(r, x)[i] = r[i]
              /\ Append(r, x) \in Seq(S)
          OBVIOUS
        <4>2. \A i : i \in 1..(Len(r) + 1) <=> i \in 1..Len(r) \/ i = Len(r) + 1
          BY <4>1
        <4> QED BY <4>1, <4>2 DEF Range
      <3> QED BY <2>2, <2>5, <2>7, <2>9, <3>1, <3>2, <3>3, <3>4
    <2> QED BY <2>8, <2>9
  <1>7. Left(N)
    <2>1. N \in 0..N
      BY <1>0
    <2> HIDE DEF Left
    <2> QED BY <1>6, <2>1
  <1>8. Range(q) = {q[i] : i \in 1..N}
    <2>1. DOMAIN q = 1..N
      BY DEF N
    <2> QED BY <2>1 DEF Range
  <1> QED BY <1>3, <1>7, <1>8

\* Sequences, by the elements they have.
LEMMA AppendRange ==
    ASSUME NEW S, NEW q \in Seq(S), NEW x \in S
    PROVE  Append(q, x) \in Seq(S) /\ Range(Append(q, x)) = Range(q) \cup {x}
  <1>1. /\ DOMAIN Append(q, x) = 1..(Len(q) + 1) /\ DOMAIN q = 1..Len(q) /\ Len(q) \in Nat
        /\ Append(q, x)[Len(q) + 1] = x /\ \A i \in 1..Len(q) : Append(q, x)[i] = q[i]
        /\ Append(q, x) \in Seq(S)
    OBVIOUS
  <1>2. \A i : i \in 1..(Len(q) + 1) <=> i \in 1..Len(q) \/ i = Len(q) + 1
    BY <1>1
  <1> QED BY <1>1, <1>2 DEF Range

LEMMA ConcatRange ==
    ASSUME NEW S, NEW q \in Seq(S), NEW r \in Seq(S)
    PROVE  q \o r \in Seq(S) /\ Range(q \o r) = Range(q) \cup Range(r)
  <1>1. /\ q \o r \in Seq(S) /\ Len(q) \in Nat /\ Len(r) \in Nat
        /\ DOMAIN q = 1..Len(q) /\ DOMAIN r = 1..Len(r) /\ DOMAIN (q \o r) = 1..(Len(q) + Len(r))
        /\ \A i \in 1..Len(q) : (q \o r)[i] = q[i]
        /\ \A i \in 1..Len(r) : (q \o r)[Len(q) + i] = r[i]
    OBVIOUS
  <1>2. ASSUME NEW i \in 1..(Len(q) + Len(r))
        PROVE  i \in 1..Len(q) \/ (i - Len(q) \in 1..Len(r) /\ i = Len(q) + (i - Len(q)))
    BY <1>1
  <1>3. /\ \A i \in 1..Len(q) : i \in 1..(Len(q) + Len(r))
        /\ \A i \in 1..Len(r) : Len(q) + i \in 1..(Len(q) + Len(r))
    BY <1>1
  <1>4. Range(q \o r) \subseteq Range(q) \cup Range(r)
    BY <1>1, <1>2 DEF Range
  <1>5. Range(q) \cup Range(r) \subseteq Range(q \o r)
    BY <1>1, <1>3 DEF Range
  <1> QED BY <1>1, <1>4, <1>5

LEMMA TailRange ==
    ASSUME NEW S, NEW q \in Seq(S), q # <<>>
    PROVE  /\ Tail(q) \in Seq(S) /\ Head(q) \in S
           /\ Range(q) = Range(Tail(q)) \cup {Head(q)}
  <1>1. /\ Tail(q) \in Seq(S) /\ Head(q) \in S /\ Len(q) \in Nat /\ Len(q) >= 1 /\ Head(q) = q[1]
        /\ DOMAIN q = 1..Len(q) /\ DOMAIN Tail(q) = 1..(Len(q) - 1)
        /\ \A i \in 1..(Len(q) - 1) : Tail(q)[i] = q[i + 1]
    OBVIOUS
  <1>2. ASSUME NEW i \in 1..Len(q) PROVE i = 1 \/ (i - 1 \in 1..(Len(q) - 1) /\ (i - 1) + 1 = i)
    BY <1>1
  <1>3. 1 \in 1..Len(q) /\ \A i \in 1..(Len(q) - 1) : i + 1 \in 1..Len(q)
    BY <1>1
  <1>4. Range(q) \subseteq Range(Tail(q)) \cup {Head(q)}
    <2>1. ASSUME NEW i \in 1..Len(q), i # 1 PROVE q[i] \in Range(Tail(q))
      <3>1. PICK j \in 1..(Len(q) - 1) : q[i] = Tail(q)[j]
        BY <1>1, <1>2, <2>1
      <3> QED BY <1>1, <3>1 DEF Range
    <2>2. \A i \in 1..Len(q) : q[i] = Head(q) \/ q[i] \in Range(Tail(q))
      BY <1>1, <2>1
    <2> QED BY <1>1, <2>2 DEF Range
  <1>5. Range(Tail(q)) \cup {Head(q)} \subseteq Range(q)
    BY <1>1, <1>3 DEF Range
  <1> QED BY <1>1, <1>4, <1>5

\* An order of a finite set is a sequence of its elements.
LEMMA OrderRange ==
    ASSUME NEW S, IsFiniteSet(S), NEW order \in SetToSeqs(S)
    PROVE  order \in Seq(S) /\ Range(order) \subseteq S
  <1>1. order \in [1..Cardinality(S) -> S]
    BY DEF SetToSeqs
  <1>2. Cardinality(S) \in Nat
    BY FS_CardinalityType
  <1> QED BY <1>1, <1>2 DEF Range

-----------------------------------------------------------------------------
(* The store's operations, by what becomes of the tabs and the active one. *)

\* What ActiveTabExists is about.
ActiveIsTab(t, a) == IF t = <<>> THEN a = None ELSE a \in Range(t)

LEMMA EmptyRange ==
    ASSUME NEW S, NEW q \in Seq(S)
    PROVE  /\ q = <<>> <=> Range(q) = {}
           /\ q # <<>> => q[1] \in Range(q)
  <1>1. Len(q) \in Nat /\ DOMAIN q = 1..Len(q) /\ (q # <<>> => 1 \in 1..Len(q)) /\ (q = <<>> => 1..Len(q) = {})
    OBVIOUS
  <1> QED BY <1>1 DEF Range

LEMMA AddTabsFacts ==
    ASSUME NEW t \in Seq(Ids), NEW a, NEW ids \in Seq(Ids)
    PROVE  LET s == AddTabs([tabs |-> t, active |-> a], ids)
           IN  /\ s.tabs \in Seq(Ids) /\ Range(s.tabs) = Range(t) \cup Range(ids)
               /\ ActiveIsTab(t, a) => ActiveIsTab(s.tabs, s.active)
  <1>1. PICK new : new = Without(ids, Range(t))
    OBVIOUS
  <1>2. new \in Seq(Ids) /\ Range(new) = Range(ids) \ Range(t)
    BY <1>1, WithoutRange
  <1>3. t \o new \in Seq(Ids) /\ Range(t \o new) = Range(t) \cup Range(new)
    BY <1>2, ConcatRange
  <1> DEFINE st == AddTabs([tabs |-> t, active |-> a], ids)
  <1>4. st.tabs = t \o new /\ st.active = (IF t = <<>> /\ new # <<>> THEN new[1] ELSE a)
    BY <1>1 DEF AddTabs
  <1>5. ASSUME ActiveIsTab(t, a) PROVE ActiveIsTab(t \o new, st.active)
    <2>1. /\ t = <<>> <=> Range(t) = {}
          /\ new = <<>> <=> Range(new) = {}
          /\ t \o new = <<>> <=> Range(t \o new) = {}
          /\ new # <<>> => new[1] \in Range(new)
      BY <1>2, <1>3, EmptyRange
    <2>2. CASE t = <<>> /\ new # <<>>
      BY <1>3, <1>4, <2>1, <2>2 DEF ActiveIsTab
    <2>3. CASE t # <<>> \/ new = <<>>
      BY <1>3, <1>4, <1>5, <2>1, <2>3 DEF ActiveIsTab
    <2> QED BY <2>2, <2>3
  <1> QED BY <1>2, <1>3, <1>4, <1>5

LEMMA RemainingFacts ==
    ASSUME tabs \in Seq(Ids), NEW gone
    PROVE  LET s == Remaining(gone)
           IN  /\ s = [tabs |-> s.tabs, active |-> s.active]
               /\ s.tabs \in Seq(Ids) /\ Range(s.tabs) = Shown \ gone
               /\ ActiveIsTab(tabs, active) => ActiveIsTab(s.tabs, s.active)
  <1>1. PICK left : left = Without(tabs, gone)
    OBVIOUS
  <1>2. left \in Seq(Ids) /\ Range(left) = Range(tabs) \ gone
    BY <1>1, WithoutRange
  <1> DEFINE st == Remaining(gone)
  <1>3. /\ st.tabs = left
        /\ st.active = IF active \notin gone THEN active ELSE IF left = <<>> THEN None ELSE left[1]
        /\ st = [tabs |-> st.tabs, active |-> st.active]
    BY <1>1 DEF Remaining
  <1>4. ASSUME ActiveIsTab(tabs, active) PROVE ActiveIsTab(left, st.active)
    <2>1. /\ tabs = <<>> <=> Range(tabs) = {}
          /\ left = <<>> <=> Range(left) = {}
          /\ left # <<>> => left[1] \in Range(left)
      BY <1>2, EmptyRange
    <2>2. CASE active \notin gone
      BY <1>2, <1>3, <1>4, <2>1, <2>2 DEF ActiveIsTab
    <2>3. CASE active \in gone
      BY <1>2, <1>3, <2>1, <2>3 DEF ActiveIsTab
    <2> QED BY <2>2, <2>3
  <1> QED BY <1>2, <1>3, <1>4 DEF Shown

-----------------------------------------------------------------------------
(* The invariant of the tabs. *)

TickState == [pc : {"idle", "merge", "tabs", "capture", "publish"}, found : SUBSET Panes,
              changed : BOOLEAN, got : UNION {[S -> Content] : S \in SUBSET Panes}]

Event ==
    [type : {"tabs"}, ids : SUBSET Panes]
      \cup [type : {"update"}, id : Panes, content : Content]
      \cup [type : {"closed"}, id : Sess]

EventTypes ==
    /\ world \in [Panes -> Content \cup {None}] /\ moves \in Content
    /\ tick \in [Ticks -> TickState]
    /\ events \in Seq(Event)
    /\ tabs \in Seq(Ids)

Clicked(s)   == \E n \in Clicks : closing[<<s, n>>] # "no"
Answering(s) == \E n \in Clicks : closing[<<s, n>>] \in {"taken", "answered"}
Told(s)      == Closed(s) \in Range(events)

\* The tab of session s will still be removed.
Ending(s) == (\E n \in Pumps : PumpHas(s, n)) \/ Told(s) \/ Answering(s)

\* A tab is of a session that was opened, and comes once: while the session is in the table
\* nothing but an event of the capture removes it, and when it is not, either something will,
\* or it has, or the end was handled before there was a tab.
TabInv(s) ==
    /\ s \in Shown \/ Clicked(s) => conn[s].pc = "over" /\ Started(s)
    /\ conn[s].pc = "adding" => Started(s)
    /\ Told(s) \/ Answering(s) => Started(s) /\ s \notin registered
    /\ Started(s) /\ s \notin registered /\ s \notin late => Ending(s) \/ (conn[s].pc = "over" /\ s \notin Shown)
    /\ conn[s].pc = "over" /\ s \in registered => s \in Shown \cup evicted

TabsInv == EventTypes /\ \A s \in Sess : TabInv(s)

LEMMA EventFacts ==
    ASSUME NEW e \in Event
    PROVE  /\ e.type = "tabs" => e.ids \in SUBSET Panes
           /\ e.type = "closed" => e.id \in Sess
           /\ \A s \in Sess : e = Closed(s) <=> e.type = "closed" /\ e.id = s
  BY DEF Event, Closed

LEMMA ClosedIsEvent == \A s \in Sess : Closed(s) \in Event
  BY DEF Event, Closed

\* What the capture does leaves the sessions, the tabs and what was said of a session alone.
LEMMA TickStates ==
    ASSUME EventTypes, NEW k \in Ticks, TickStep(k)
    PROVE  tick' \in [Ticks -> TickState]
  <1>1. tick[k] \in TickState /\ Idle \in TickState
    <2>1. [p \in {} |-> None] \in [{} -> Content]
      OBVIOUS
    <2>2. Idle.got \in UNION {[S -> Content] : S \in SUBSET Panes}
      BY <2>1 DEF Idle
    <2> QED BY <2>2 DEF EventTypes, TickState, Idle
  <1>2. CASE Merge(k)
    <2>1. PICK b \in BOOLEAN : tick' = [tick EXCEPT ![k] = [@ EXCEPT !.pc = "tabs", !.changed = b]]
      BY <1>2 DEF Merge
    <2>2. [tick[k] EXCEPT !.pc = "tabs", !.changed = b] \in TickState
      BY <1>1 DEF TickState
    <2> QED BY <2>1, <2>2 DEF EventTypes
  <1>3. CASE EmitTabs(k)
    <2>1. tick' = [tick EXCEPT ![k] = [@ EXCEPT !.pc = "capture"]]
      BY <1>3 DEF EmitTabs
    <2>2. [tick[k] EXCEPT !.pc = "capture"] \in TickState
      BY <1>1 DEF TickState
    <2> QED BY <2>1, <2>2 DEF EventTypes
  <1>4. CASE Capture(k)
    <2>1. PICK seen : seen = (tick[k].found \ Degraded) \cap There
      OBVIOUS
    <2>2. PICK got : got = [p \in seen |-> world[p]]
      OBVIOUS
    <2>3. tick' = [tick EXCEPT ![k] = [Idle EXCEPT !.pc = "publish", !.got = got]]
      BY <1>4, <2>1, <2>2 DEF Capture
    <2>4. seen \in SUBSET Panes /\ \A p \in seen : world[p] \in Content
      BY <2>1 DEF There, EventTypes
    <2>5. got \in UNION {[S -> Content] : S \in SUBSET Panes}
      <3>1. got \in [seen -> Content]
        BY <2>2, <2>4
      <3> QED BY <2>4, <3>1
    <2>6. [Idle EXCEPT !.pc = "publish", !.got = got] \in TickState
      BY <2>5 DEF TickState, Idle
    <2> QED BY <2>3, <2>6 DEF EventTypes
  <1>5. CASE Publish(k)
    BY <1>1, <1>5 DEF Publish, EventTypes
  <1> QED BY <1>2, <1>3, <1>4, <1>5 DEF TickStep

LEMMA TickEvents ==
    ASSUME EventTypes, NEW k \in Ticks, TickStep(k)
    PROVE  /\ events' \in Seq(Event)
           /\ \A s \in Sess : Told(s)' <=> Told(s)
  <1>0. tick[k] \in TickState /\ events \in Seq(Event)
    BY DEF EventTypes
  <1>1. ASSUME NEW q \in Seq(Event), events' = events \o q, \A e \in Range(q) : e.type # "closed"
        PROVE  events' \in Seq(Event) /\ \A s \in Sess : Told(s)' <=> Told(s)
    <2>1. events' \in Seq(Event) /\ Range(events') = Range(events) \cup Range(q)
      BY <1>0, <1>1, ConcatRange
    <2> QED BY <1>1, <2>1 DEF Told, Closed
  <1>2. CASE events' = events
    BY <1>0, <1>2 DEF Told, Closed
  <1>3. CASE EmitTabs(k) /\ events' # events
    <2>1. PICK e : e = [type |-> "tabs", ids |-> tick[k].found]
      OBVIOUS
    <2>2. events' = Append(events, e) /\ e \in Event /\ e.type # "closed"
      BY <1>0, <1>3, <2>1 DEF EmitTabs, Event, TickState
    <2>3. events' \in Seq(Event) /\ Range(events') = Range(events) \cup {e}
      BY <1>0, <2>2, AppendRange
    <2> QED BY <2>2, <2>3 DEF Told, Closed
  <1>4. CASE Publish(k)
    <2>1. PICK order \in [1..Cardinality(News(k)) -> News(k)] :
            events' = events \o [i \in DOMAIN order |->
                          [type |-> "update", id |-> order[i], content |-> tick[k].got[order[i]]]]
      BY <1>4 DEF Publish
    <2>2. PICK S \in SUBSET Panes : tick[k].got \in [S -> Content]
      BY <1>0 DEF TickState
    <2>3. \A p \in News(k) : p \in Panes /\ tick[k].got[p] \in Content
      BY <2>2 DEF News
    <2>4. Cardinality(News(k)) \in Nat
      <3>1. News(k) \subseteq Panes
        BY <2>3
      <3>2. IsFiniteSet(News(k))
        BY <3>1, CaptureAssumption, FS_Subset
      <3> QED BY <3>2, FS_CardinalityType
    <2>5. PICK N \in Nat : N = Cardinality(News(k))
      BY <2>4
    <2>6. PICK q : q = [i \in 1..N |-> [type |-> "update", id |-> order[i], content |-> tick[k].got[order[i]]]]
      OBVIOUS
    <2>7. \A i \in 1..N : q[i] \in Event /\ q[i].type # "closed"
      <3>1. \A i \in 1..N : order[i] \in Panes /\ tick[k].got[order[i]] \in Content
        BY <2>3, <2>5
      <3> QED BY <2>6, <3>1 DEF Event
    <2>8. q \in Seq(Event) /\ DOMAIN q = 1..N
      <3>1. PICK R : R = Event
        OBVIOUS
      <3>2. q \in [1..N -> R]
        BY <2>6, <2>7, <3>1
      <3>3. q \in Seq(R)
        BY <3>2
      <3> QED BY <3>1, <3>2, <3>3
    <2>9. \A e \in Range(q) : e.type # "closed"
      BY <2>7, <2>8 DEF Range
    <2>10. events' = events \o q
      BY <2>1, <2>5, <2>6
    <2> QED BY <1>1, <2>8, <2>9, <2>10
  <1> QED BY <1>2, <1>3, <1>4 DEF TickStep, Merge, Capture, EmitTabs

\* A step of the capture, as far as sessions and tabs go.
LEMMA CaptureMoves ==
    ASSUME EventTypes,
           \/ PollTick \/ (\E k \in Ticks : Ticking(k) \/ ForceTick(k)) \/ \E p \in Panes : World(p)
    PROVE  /\ EventTypes' /\ UNCHANGED <<tabs, active, quick, conn, registered, pump, closing, late, evicted>>
           /\ \A s \in Sess : Told(s)' <=> Told(s)
  <1>0. UNCHANGED <<tabs, active, quick, conn, registered, pump, closing, late, evicted>>
    BY DEF PollTick, Ticking, ForceTick, World, tabVars, storeVars, sessVars, tabHist
  <1>1. ASSUME Move PROVE moves' \in Content
    BY <1>1, CaptureAssumption DEF Move, EventTypes, Content
  <1>2. ASSUME NEW k \in Ticks, NEW found \in SUBSET Panes, Discover(k, found), moves' = moves \/ Move
        PROVE  EventTypes' /\ \A s \in Sess : Told(s)' <=> Told(s)
    <2>1. tick' = [tick EXCEPT ![k] = [@ EXCEPT !.pc = "merge", !.found = found]]
          /\ UNCHANGED <<world, events>>
      BY <1>2 DEF Discover
    <2>2. [tick[k] EXCEPT !.pc = "merge", !.found = found] \in TickState
      <3>1. tick[k] \in TickState
        BY DEF EventTypes
      <3> QED BY <3>1 DEF TickState
    <2>3. tick' \in [Ticks -> TickState]
      BY <2>1, <2>2 DEF EventTypes
    <2> QED BY <1>0, <1>1, <1>2, <2>1, <2>3 DEF EventTypes, Told, Closed
  <1>3. CASE PollTick \/ \E k \in Ticks : ForceTick(k)
    <2>1. There \in SUBSET Panes /\ {} \in SUBSET Panes /\ Poll \in Ticks
      BY CaptureAssumption DEF There
    <2> QED BY <1>0, <1>2, <1>3, <2>1 DEF PollTick, ForceTick, Polls, ForceCapture
  <1>4. ASSUME NEW k \in Ticks, Ticking(k) PROVE EventTypes' /\ \A s \in Sess : Told(s)' <=> Told(s)
    <2>1. TickStep(k) /\ UNCHANGED <<world, moves>>
      BY <1>4 DEF Ticking, TickStep, Merge, EmitTabs, Capture, Publish
    <2> QED BY <1>0, <2>1, TickStates, TickEvents DEF EventTypes
  <1>5. ASSUME NEW p \in Panes, World(p) PROVE EventTypes' /\ \A s \in Sess : Told(s)' <=> Told(s)
    <2>1. Move /\ UNCHANGED <<tick, events>>
          /\ \E x \in {None, 0, moves'} : world' = [world EXCEPT ![p] = x]
      BY <1>5 DEF World, WorldChanges
    <2>2. moves' \in Content /\ 0 \in Content
      BY <1>1, <2>1, CaptureAssumption DEF Content
    <2>3. world' \in [Panes -> Content \cup {None}]
      BY <2>1, <2>2 DEF EventTypes
    <2> QED BY <1>0, <2>1, <2>2, <2>3 DEF EventTypes, Told, Closed
  <1> QED BY <1>0, <1>3, <1>4, <1>5

-----------------------------------------------------------------------------
(* The steps that are not the capture's. *)

\* A step that does nothing to the tabs, the sessions and the events.
Plain ==
    /\ UNCHANGED <<world, tick, events, tabs, conn, registered, pump, closing, late, evicted>>
    /\ moves' = moves \/ Move

LEMMA TabsCases ==
    ASSUME [Next]_vars
    PROVE  \/ PollTick \/ (\E k \in Ticks : Ticking(k) \/ ForceTick(k)) \/ \E p \in Panes : World(p)
           \/ Handle \/ SessionStep \/ Plain
  <1>1. CASE UNCHANGED vars
    BY <1>1 DEF vars, captureVars, worldVars, storeVars, sessVars, tabHist, Plain
  <1>2. CASE Click \/ Activate \/ Hidden \/ CommitRename \/ \E n \in DOMAIN quick : FKey(n)
    BY <1>2 DEF Click, Activate, Hidden, CommitRename, FKey, captureVars, worldVars, storeVars, sessVars,
                tabHist, Plain
  <1>3. ASSUME NEW s \in Sess,
               Dies(s) \/ SaveTerminal(s) \/ Saved(s) \/ \E mode \in {"rename", "saveTmux"} : StartRename(s, mode)
        PROVE  Plain
    BY <1>3 DEF Dies, SaveTerminal, Saved, StartRename, captureVars, worldVars, storeVars, sessVars,
                tabHist, Plain
  <1> QED BY <1>1, <1>2, <1>3 DEF Next, SessionStep

LEMMA TypesStay ==
    ASSUME EventTypes, UNCHANGED <<world, tick>>, moves' = moves \/ Move,
           events' \in Seq(Event), tabs' \in Seq(Ids)
    PROVE  EventTypes'
  <1>1. ASSUME Move PROVE moves' \in Content
    BY <1>1, CaptureAssumption DEF Move, EventTypes, Content
  <1> QED BY <1>1 DEF EventTypes, Content

\* Nothing that TabInv(s) is about changes.
Keeps(s) ==
    /\ conn'[s] = conn[s] /\ (s \in registered' <=> s \in registered)
    /\ \A n \in Pumps : pump'[s][n] = pump[s][n]
    /\ \A n \in Clicks : closing'[<<s, n>>] = closing[<<s, n>>]
    /\ (s \in Shown' <=> s \in Shown) /\ (s \in late' <=> s \in late) /\ (s \in evicted' <=> s \in evicted)
    /\ (Told(s)' <=> Told(s))

LEMMA KeepsTab == ASSUME NEW s \in Sess, TabInv(s), Keeps(s) PROVE TabInv(s)'
  <1>1. /\ Clicked(s)' <=> Clicked(s)
        /\ Answering(s)' <=> Answering(s)
        /\ Started(s)' <=> Started(s)
        /\ \A n \in Pumps : PumpHas(s, n)' <=> PumpHas(s, n)
    BY DEF Keeps, Clicked, Answering, Started, PumpHas, Pumps
  <1>2. Ending(s)' <=> Ending(s)
    BY <1>1 DEF Keeps, Ending
  <1> QED BY <1>1, <1>2 DEF Keeps, TabInv

\* What was said of the sessions, when an event is added or handled.
LEMMA ToldAppend ==
    ASSUME EventTypes, NEW s \in Sess, events' = Append(events, Closed(s))
    PROVE  /\ events' \in Seq(Event) /\ Told(s)'
           /\ \A t \in Sess \ {s} : Told(t)' <=> Told(t)
  <1>1. events' \in Seq(Event) /\ Range(events') = Range(events) \cup {Closed(s)}
    BY ClosedIsEvent, AppendRange DEF EventTypes
  <1>2. \A t \in Sess \ {s} : Closed(t) # Closed(s)
    BY DEF Closed
  <1>3. Told(s)' /\ \A t \in Sess \ {s} : Told(t)' <=> Told(t)
    BY <1>1, <1>2 DEF Told, Closed
  <1> QED BY <1>1, <1>3

LEMMA OpenTab ==
    ASSUME IInv, TabsInv, NEW s \in Sess, Open(s) \/ OpenFails(s) \/ Register(s)
    PROVE  TabsInv'
  <1>1. /\ UNCHANGED <<world, tick, events, tabs, closing, late, evicted>>
        /\ (moves' = moves \/ Move)
        /\ \E pc \in {"opening", "over", "adding"} : conn' = [conn EXCEPT ![s].pc = pc]
        /\ conn[s].pc \in {"new", "opening"}
        /\ \A t \in Sess \ {s} : (t \in registered' <=> t \in registered) /\ pump'[t] = pump[t]
        /\ \/ conn'[s].pc \in {"opening", "over"} /\ UNCHANGED <<registered, pump>>
           \/ conn'[s].pc = "adding" /\ s \in registered' /\ pump'[s][1] # "none"
    <2>1. IInv /\ SessionTypes
      BY DEF IInv
    <2>2. CASE Open(s) \/ OpenFails(s)
      BY <2>1, <2>2 DEF Open, OpenFails, SessionTypes, captureVars, worldVars, storeVars, tabHist
    <2>3. CASE Register(s)
      <3>1. pump' = [pump EXCEPT ![s] = [n \in Pumps |-> IF n \in PumpsOf(s) THEN "reading" ELSE "none"]]
        BY <2>3 DEF Register
      <3>2. pump'[s][1] = "reading" /\ \A t \in Sess \ {s} : pump'[t] = pump[t]
        BY <2>1, <3>1 DEF SessionTypes, PumpsOf, Pumps
      <3> QED BY <2>1, <2>3, <3>2 DEF Register, SessionTypes, captureVars, worldVars, storeVars, tabHist
    <2> QED BY <2>2, <2>3
  <1>2. EventTypes'
    BY <1>1, TypesStay DEF TabsInv, EventTypes
  <1>3. ASSUME NEW t \in Sess \ {s} PROVE TabInv(t)'
    <2>1. Keeps(t)
      BY <1>1 DEF Keeps, IInv, SessionTypes, Shown, Told, Closed
    <2> QED BY <2>1, KeepsTab DEF TabsInv
  <1>4. TabInv(s)'
    <2>1. ~Started(s) /\ s \notin registered
      BY <1>1 DEF IInv, OwnedOnce
    <2>2. s \notin Shown /\ ~Clicked(s) /\ ~Told(s) /\ ~Answering(s)
      BY <2>1 DEF TabsInv, TabInv
    <2>3. s \notin Shown' /\ ~Clicked(s)' /\ ~Told(s)' /\ ~Answering(s)'
      BY <1>1, <2>2 DEF Shown, Clicked, Told, Closed, Answering
    <2> QED BY <1>1, <2>1, <2>3 DEF TabInv, Started
  <1> QED BY <1>2, <1>3, <1>4 DEF TabsInv

\* The dialog adds the tab: the session has started, and if it has ended already, either its
\* end was handled or it will be.
LEMMA AddedTab ==
    ASSUME IInv, TabsInv, NEW s \in Sess, TabAdded(s)
    PROVE  TabsInv'
  <1>1. /\ UNCHANGED <<world, tick, moves, events, registered, pump, closing, late, evicted>>
        /\ conn[s].pc = "adding" /\ conn' = [conn EXCEPT ![s].pc = "over"]
        /\ tabs' = AddTabs([tabs |-> tabs, active |-> active], <<s>>).tabs
    BY DEF TabAdded, captureVars, worldVars
  <1>2. tabs' \in Seq(Ids) /\ Range(tabs') = Shown \cup {s}
    <2>1. <<s>> \in Seq(Ids) /\ Range(<<s>>) = {s}
      BY DEF Ids, Range
    <2>2. tabs \in Seq(Ids)
      BY DEF TabsInv, EventTypes
    <2> QED BY <1>1, <2>1, <2>2, AddTabsFacts DEF Shown
  <1>3. EventTypes'
    BY <1>1, <1>2, TypesStay DEF TabsInv, EventTypes
  <1>4. ASSUME NEW t \in Sess \ {s} PROVE TabInv(t)'
    <2>1. Keeps(t)
      BY <1>1, <1>2 DEF Keeps, IInv, SessionTypes, Shown, Told, Closed
    <2> QED BY <2>1, KeepsTab DEF TabsInv
  <1>5. TabInv(s)'
    <2>1. TabInv(s) /\ conn'[s].pc = "over" /\ s \in Shown'
      BY <1>1, <1>2 DEF TabsInv, IInv, SessionTypes, Shown
    <2>2. /\ Told(s)' <=> Told(s)
          /\ Clicked(s)' <=> Clicked(s)
          /\ Answering(s)' <=> Answering(s)
          /\ Started(s)' <=> Started(s)
          /\ Ending(s)' <=> Ending(s)
      BY <1>1 DEF Told, Closed, Clicked, Answering, Started, Ending, PumpHas
    <2> QED BY <1>1, <2>1, <2>2 DEF TabInv
  <1> QED BY <1>3, <1>4, <1>5 DEF TabsInv

LEMMA PumpTab ==
    ASSUME IInv, TabsInv, NEW s \in Sess, NEW n \in Pumps, PumpTakes(s, n) \/ PumpCloses(s, n)
    PROVE  TabsInv'
  <1>0. SessionTypes /\ OwnedOnce(s) /\ TabInv(s)
    BY DEF IInv, TabsInv
  <1>1. /\ UNCHANGED <<world, tick, moves, tabs, conn, closing, late, evicted>>
        /\ events' = events \/ events' = Append(events, Closed(s))
        /\ \A t \in Sess \ {s} : (t \in registered' <=> t \in registered) /\ pump'[t] = pump[t]
    BY <1>0 DEF PumpTakes, PumpCloses, SessionTypes, storeVars, tabHist
  <1>2. /\ events' \in Seq(Event) /\ (Told(s) => Told(s)')
        /\ \A t \in Sess \ {s} : Told(t)' <=> Told(t)
    <2>1. CASE events' = events
      BY <2>1 DEF Told, Closed, TabsInv, EventTypes
    <2>2. CASE events' = Append(events, Closed(s))
      BY <2>2, ToldAppend DEF TabsInv
    <2> QED BY <1>1, <2>1, <2>2
  <1>3. EventTypes'
    BY <1>1, <1>2, TypesStay DEF TabsInv, EventTypes
  <1>4. ASSUME NEW t \in Sess \ {s} PROVE TabInv(t)'
    <2>1. Keeps(t)
      BY <1>1, <1>2 DEF Keeps, Shown
    <2> QED BY <2>1, KeepsTab DEF TabsInv
  <1>5. /\ (s \in Shown' <=> s \in Shown) /\ (Clicked(s)' <=> Clicked(s))
        /\ (Answering(s)' <=> Answering(s)) /\ conn'[s] = conn[s]
        /\ (s \in late' <=> s \in late) /\ (s \in evicted' <=> s \in evicted)
    BY <1>1 DEF Shown, Clicked, Answering
  <1>6. Started(s) /\ Started(s)'
    <2>1. /\ pump[s][n] # "none"
          /\ \E to \in {"closing", "done"} : pump' = [pump EXCEPT ![s][n] = to]
      BY DEF PumpTakes, PumpCloses
    <2>2. Started(s)
      BY <1>0, <2>1 DEF OwnedOnce
    <2>3. pump'[s][1] = pump[s][1] \/ pump'[s][1] \in {"closing", "done"}
      BY <1>0, <2>1 DEF SessionTypes, Pumps
    <2> QED BY <2>2, <2>3 DEF Started
  <1>7. s \notin registered'
    BY <1>0 DEF PumpTakes, PumpCloses, OwnedOnce, Taken, PumpHas
  <1>8. ASSUME PumpTakes(s, n) PROVE TabInv(s)'
    <2>1. /\ pump[s][n] = "reading" /\ \A m \in Pumps \ {n} : pump'[s][m] = pump[s][m]
          /\ s \in registered => pump'[s][n] = "closing"
      BY <1>0, <1>8 DEF PumpTakes, SessionTypes
    <2>2. s \in registered => Ending(s)'
      BY <2>1 DEF Ending, PumpHas
    <2>3. Ending(s) => Ending(s)'
      BY <1>2, <1>5, <2>1 DEF Ending, PumpHas
    <2> QED BY <1>0, <1>5, <1>6, <1>7, <2>2, <2>3 DEF TabInv
  <1>9. ASSUME PumpCloses(s, n) PROVE TabInv(s)'
    <2>1. Ending(s)'
      BY <1>9, ToldAppend DEF PumpCloses, TabsInv, Ending
    <2> QED BY <1>0, <1>5, <1>6, <1>7, <2>1 DEF TabInv
  <1> QED BY <1>3, <1>4, <1>8, <1>9 DEF TabsInv

\* The close button: it is on a tab, and the call takes the session out of the table.
LEMMA ClickTab ==
    ASSUME IInv, TabsInv, NEW i \in Ids, NEW n \in Clicks,
           Close(i, n) \/ CloseTakes(i, n) \/ CloseReleases(i, n) \/ CloseAnswered(i, n)
    PROVE  TabsInv'
  <1>0. SessionTypes /\ tabs \in Seq(Ids)
    BY DEF IInv, TabsInv, EventTypes
  <1> DEFINE gone == IF CloseAnswered(i, n) THEN {i} ELSE {}
  <1>1. /\ UNCHANGED <<world, tick, events, conn, pump, late, evicted>> /\ (moves' = moves \/ Move)
        /\ \E to \in {"no", "called", "taken", "answered"} : closing' = [closing EXCEPT ![<<i, n>>] = to]
        /\ \A t \in Sess \ {i} : t \in registered' <=> t \in registered
    BY DEF Close, CloseTakes, CloseReleases, CloseAnswered, captureVars, worldVars, sessVars, tabHist
  <1>2. /\ \A t \in Sess \ {i}, m \in Clicks : closing'[<<t, m>>] = closing[<<t, m>>]
        /\ \A m \in Clicks \ {n} : closing'[<<i, m>>] = closing[<<i, m>>]
    BY <1>0, <1>1 DEF SessionTypes, Ids
  <1>3. tabs' \in Seq(Ids) /\ \/ tabs' = tabs /\ ~CloseAnswered(i, n)
                              \/ Range(tabs') = Range(tabs) \ {i} /\ CloseAnswered(i, n)
    <2>1. CASE CloseAnswered(i, n)
      <3>1. tabs' = Remaining({i}).tabs
        BY <2>1 DEF CloseAnswered, Become
      <3> QED BY <1>0, <2>1, <3>1, RemainingFacts DEF Shown
    <2>2. CASE ~CloseAnswered(i, n)
      BY <1>0, <2>2 DEF Close, CloseTakes, CloseReleases, storeVars
    <2> QED BY <2>1, <2>2
  <1>4. EventTypes'
    <2>1. events' \in Seq(Event)
      BY <1>1 DEF TabsInv, EventTypes
    <2> QED BY <1>1, <1>3, <2>1, TypesStay DEF TabsInv
  <1>5. ASSUME NEW t \in Sess \ {i} PROVE TabInv(t)'
    <2>1. Keeps(t)
      BY <1>1, <1>2, <1>3 DEF Keeps, Shown, Told, Closed
    <2> QED BY <2>1, KeepsTab DEF TabsInv
  <1>6. ASSUME i \in Sess PROVE TabInv(i)'
    <2>0. TabInv(i) /\ OwnedOnce(i)
      BY <1>6 DEF IInv, TabsInv
    <2>1. /\ conn'[i] = conn[i] /\ (i \in late' <=> i \in late) /\ (i \in evicted' <=> i \in evicted)
          /\ (Told(i)' <=> Told(i)) /\ (Started(i)' <=> Started(i))
          /\ ((\E m \in Pumps : PumpHas(i, m))' <=> \E m \in Pumps : PumpHas(i, m))
      BY <1>1 DEF Told, Closed, Started, PumpHas
    <2>2. conn[i].pc = "over" /\ Started(i)
      BY <2>0 DEF TabInv, Clicked, Close, CloseTakes, CloseReleases, CloseAnswered
    <2>3. CASE Close(i, n)
      <3>1. registered' = registered /\ closing[<<i, n>>] = "no" /\ closing'[<<i, n>>] = "called"
        BY <1>0, <2>3 DEF Close, SessionTypes, sessVars
      <3>2. (Answering(i)' <=> Answering(i)) /\ (i \in Shown' <=> i \in Shown)
        BY <1>2, <1>3, <2>3, <3>1 DEF Answering, Shown, Close, CloseAnswered
      <3> QED BY <2>0, <2>1, <2>2, <3>1, <3>2 DEF TabInv, Ending
    <2>4. CASE CloseTakes(i, n)
      <3>1. i \notin registered' /\ closing'[<<i, n>>] \in {"taken", "answered"}
        BY <1>0, <2>4 DEF CloseTakes, SessionTypes
      <3>2. Answering(i)' /\ Ending(i)'
        BY <3>1 DEF Answering, Ending
      <3> QED BY <2>1, <2>2, <3>1, <3>2 DEF TabInv
    <2>5. CASE CloseReleases(i, n)
      <3>1. /\ registered' = registered /\ closing[<<i, n>>] = "taken"
            /\ closing'[<<i, n>>] = "answered"
        BY <1>0, <2>5 DEF CloseReleases, SessionTypes
      <3>2. i \notin registered
        BY <2>0, <3>1 DEF TabInv, Answering
      <3>3. Answering(i)' /\ Ending(i)'
        BY <3>1 DEF Answering, Ending
      <3> QED BY <2>1, <2>2, <3>1, <3>2, <3>3 DEF TabInv
    <2>6. CASE CloseAnswered(i, n)
      <3>1. /\ registered' = registered /\ closing[<<i, n>>] = "answered" /\ i \notin Shown'
        BY <1>3, <2>6 DEF CloseAnswered, sessVars, Shown, Close, CloseTakes, CloseReleases
      <3>2. i \notin registered
        BY <2>0, <3>1 DEF TabInv, Answering
      <3> QED BY <2>1, <2>2, <3>1, <3>2 DEF TabInv
    <2> QED BY <2>3, <2>4, <2>5, <2>6
  <1>7. ASSUME NEW t \in Sess PROVE TabInv(t)'
    BY <1>5, <1>6
  <1> QED BY <1>4, <1>7 DEF TabsInv

\* What the first event is, and what is left of those on their way.
LEMMA Handled ==
    ASSUME EventTypes, Handle
    PROVE  \E e \in Event :
             /\ \/ e.type = "tabs" /\ e.ids \in SUBSET Panes /\ HandleTabs(e.ids)
                \/ e.type = "update" /\ HandleUpdate(e.id, e.content)
                \/ e.type = "closed" /\ e.id \in Sess /\ HandleClosed(e.id)
             /\ events' \in Seq(Event) /\ UNCHANGED <<world, tick, moves, quick>>
             /\ UNCHANGED <<conn, registered, pump, closing>>
             /\ \A s \in Sess : Told(s) <=> Told(s)' \/ (e.type = "closed" /\ e.id = s)
  <1>1. events \in Seq(Event) /\ events # <<>> /\ events' = Tail(events)
    BY DEF EventTypes, Handle
  <1>2. PICK e \in Event : e = Head(events)
    BY <1>1, TailRange
  <1>3. events' \in Seq(Event) /\ Range(events) = Range(events') \cup {e}
    BY <1>1, <1>2, TailRange
  <1>4. ASSUME NEW s \in Sess PROVE Told(s) <=> Told(s)' \/ (e.type = "closed" /\ e.id = s)
    <2>1. e = Closed(s) <=> e.type = "closed" /\ e.id = s
      BY EventFacts
    <2> QED BY <1>3, <2>1 DEF Told, Closed
  <1>5. \/ e.type = "tabs" /\ HandleTabs(e.ids)
        \/ e.type = "update" /\ HandleUpdate(e.id, e.content)
        \/ e.type = "closed" /\ HandleClosed(e.id)
    BY <1>2 DEF Handle
  <1>6. UNCHANGED <<world, tick, moves, quick, conn, registered, pump, closing>>
    BY DEF Handle, sessVars
  <1> QED BY <1>3, <1>4, <1>5, <1>6, EventFacts

\* A tabs event: what it lists stays or is added, a session's tab goes.
LEMMA ListedTabs ==
    ASSUME tabs \in Seq(Ids), NEW ids \in SUBSET Panes, HandleTabs(ids)
    PROVE  /\ tabs' \in Seq(Ids) /\ Shown' \subseteq ids
           /\ ActiveIsTab(tabs, active) => ActiveIsTab(tabs', active')
  <1>1. IsFiniteSet(ids \ Shown)
    BY CaptureAssumption, FS_Subset
  <1>2. PICK order \in SetToSeqs(ids \ Shown) : Become(AddTabs(Remaining(Shown \ ids), order))
    BY DEF HandleTabs
  <1>3. PICK left : left = Remaining(Shown \ ids)
    OBVIOUS
  <1>4. /\ left = [tabs |-> left.tabs, active |-> left.active]
        /\ left.tabs \in Seq(Ids) /\ Range(left.tabs) = Shown \ (Shown \ ids)
        /\ ActiveIsTab(tabs, active) => ActiveIsTab(left.tabs, left.active)
    BY <1>3, RemainingFacts
  <1>5. order \in Seq(Ids) /\ Range(order) \subseteq ids
    <2>1. order \in Seq(ids \ Shown) /\ Range(order) \subseteq ids \ Shown
      BY <1>1, OrderRange
    <2>2. ids \ Shown \subseteq Ids
      BY DEF Ids
    <2> QED BY <2>1, <2>2
  <1>6. PICK st : st = AddTabs(left, order)
    OBVIOUS
  <1>7. /\ st.tabs \in Seq(Ids) /\ Range(st.tabs) = Range(left.tabs) \cup Range(order)
        /\ ActiveIsTab(left.tabs, left.active) => ActiveIsTab(st.tabs, st.active)
    <2>1. PICK t \in Seq(Ids) : t = left.tabs
      BY <1>4
    <2>2. PICK a : a = left.active
      OBVIOUS
    <2>3. st = AddTabs([tabs |-> t, active |-> a], order)
      BY <1>4, <1>6, <2>1, <2>2
    <2> QED BY <1>5, <2>1, <2>2, <2>3, AddTabsFacts
  <1>8. tabs' = st.tabs /\ active' = st.active
    BY <1>2, <1>3, <1>6 DEF Become
  <1> QED BY <1>4, <1>5, <1>7, <1>8 DEF Shown

LEMMA HandleTab ==
    ASSUME IInv, TabsInv, Handle
    PROVE  TabsInv'
  <1>0. EventTypes /\ tabs \in Seq(Ids)
    BY DEF TabsInv, EventTypes
  <1>1. PICK e \in Event :
          /\ \/ e.type = "tabs" /\ e.ids \in SUBSET Panes /\ HandleTabs(e.ids)
             \/ e.type = "update" /\ HandleUpdate(e.id, e.content)
             \/ e.type = "closed" /\ e.id \in Sess /\ HandleClosed(e.id)
          /\ events' \in Seq(Event) /\ UNCHANGED <<world, tick, moves, quick>>
          /\ UNCHANGED <<conn, registered, pump, closing>>
          /\ \A s \in Sess : Told(s) <=> Told(s)' \/ (e.type = "closed" /\ e.id = s)
    BY <1>0, Handled
  <1>2. ASSUME NEW s \in Sess
        PROVE  /\ Clicked(s)' <=> Clicked(s)
               /\ Answering(s)' <=> Answering(s)
               /\ Started(s)' <=> Started(s)
               /\ (\E n \in Pumps : PumpHas(s, n))' <=> \E n \in Pumps : PumpHas(s, n)
    BY <1>1 DEF Clicked, Answering, Started, PumpHas
  <1>3. CASE e.type = "tabs"
    <2>1. /\ tabs' \in Seq(Ids) /\ \A s \in Sess : s \notin Shown'
          /\ evicted' = evicted \cup ((Shown \cap Sess) \ e.ids) /\ late' = late
      <3>1. e.ids \in SUBSET Panes /\ HandleTabs(e.ids)
        BY <1>1, <1>3
      <3>2. tabs' \in Seq(Ids) /\ Shown' \subseteq e.ids
        BY <1>0, <3>1, ListedTabs
      <3> QED BY <3>1, <3>2, TerminalsAssumption DEF HandleTabs
    <2>2. ASSUME NEW s \in Sess PROVE TabInv(s)'
      <3>1. TabInv(s) /\ (Told(s)' <=> Told(s)) /\ s \notin Shown'
        BY <1>1, <1>3, <2>1 DEF TabsInv
      <3>2. Ending(s)' <=> Ending(s)
        BY <1>2, <3>1 DEF Ending
      <3>3. s \in Shown => s \in evicted'
        BY <1>1, <1>3, <2>1, TerminalsAssumption
      <3> QED BY <1>1, <1>2, <2>1, <3>1, <3>2, <3>3 DEF TabInv
    <2> QED BY <1>0, <1>1, <2>1, <2>2, TypesStay DEF TabsInv
  <1>4. CASE e.type = "update"
    <2>1. UNCHANGED <<tabs, late, evicted>>
      BY <1>1, <1>4 DEF HandleUpdate, tabHist
    <2>2. ASSUME NEW s \in Sess PROVE TabInv(s)'
      <3>1. Keeps(s)
        BY <1>1, <1>4, <2>1 DEF Keeps, Shown
      <3> QED BY <3>1, KeepsTab DEF TabsInv
    <2> QED BY <1>0, <1>1, <2>1, <2>2, TypesStay DEF TabsInv
  <1>5. CASE e.type = "closed"
    <2>1. PICK t \in Sess : t = e.id
      BY <1>1, <1>5
    <2>2. /\ tabs' = Remaining({t}).tabs /\ evicted' = evicted
          /\ late' = IF conn[t].pc # "over" THEN late \cup {t} ELSE late
      BY <1>1, <1>5, <2>1 DEF HandleClosed, Become
    <2>3. tabs' \in Seq(Ids) /\ Shown' = Shown \ {t}
      BY <1>0, <2>2, RemainingFacts DEF Shown
    <2>4. ASSUME NEW s \in Sess \ {t} PROVE TabInv(s)'
      <3>1. Keeps(s)
        BY <1>1, <2>1, <2>2, <2>3 DEF Keeps
      <3> QED BY <3>1, KeepsTab DEF TabsInv
    <2>5. TabInv(t)'
      <3>1. TabInv(t) /\ Told(t)
        BY <1>1, <1>5, <2>1 DEF TabsInv
      <3> QED BY <1>1, <1>2, <2>2, <2>3, <3>1 DEF TabInv
    <2>6. \A s \in Sess : TabInv(s)'
      BY <2>4, <2>5
    <2> QED BY <1>0, <1>1, <2>3, <2>6, TypesStay DEF TabsInv
  <1> QED BY <1>1, <1>3, <1>4, <1>5

LEMMA InitTabs == Init => TabsInv
  <1> SUFFICES ASSUME Init PROVE TabsInv
    OBVIOUS
  <1>1. EventTypes
    <2>1. /\ tick = [k \in Ticks |-> Idle] /\ Idle \in TickState
      <3>1. [p \in {} |-> None] \in [{} -> Content]
        OBVIOUS
      <3>2. [p \in {} |-> None] \in UNION {[S -> Content] : S \in SUBSET Panes}
        BY <3>1
      <3> QED BY <3>2 DEF Init, CaptureInit, Idle, TickState
    <2>2. moves \in Content /\ world \in [Panes -> Content \cup {None}]
      BY CaptureAssumption DEF Init, CaptureInit, Content
    <2> QED BY <2>1, <2>2 DEF Init, CaptureInit, EventTypes
  <1>2. ASSUME NEW s \in Sess PROVE TabInv(s)
    <2>1. Shown = {} /\ Range(events) = {}
      BY DEF Init, CaptureInit, Shown, Range
    <2>2. /\ ~Clicked(s) /\ ~Answering(s) /\ ~Started(s) /\ conn[s].pc = "new"
      BY DEF Init, Clicked, Answering, Started, Clicks, Ids, Pumps
    <2> QED BY <2>1, <2>2 DEF TabInv, Told
  <1> QED BY <1>1, <1>2 DEF TabsInv

LEMMA StepTabs == IInv /\ TabsInv /\ [Next]_vars => TabsInv'
  <1> SUFFICES ASSUME IInv, TabsInv, [Next]_vars PROVE TabsInv'
    OBVIOUS
  <1>1. ASSUME PollTick \/ (\E k \in Ticks : Ticking(k) \/ ForceTick(k)) \/ \E p \in Panes : World(p)
        PROVE  TabsInv'
    <2>1. /\ EventTypes' /\ UNCHANGED <<tabs, conn, registered, pump, closing, late, evicted>>
          /\ \A s \in Sess : Told(s)' <=> Told(s)
      BY <1>1, CaptureMoves DEF TabsInv
    <2>2. \A s \in Sess : Keeps(s)
      BY <2>1 DEF Keeps, Shown
    <2> QED BY <2>1, <2>2, KeepsTab DEF TabsInv
  <1>2. ASSUME Plain PROVE TabsInv'
    <2>1. \A s \in Sess : Keeps(s)
      BY <1>2 DEF Plain, Keeps, Shown, Told, Closed
    <2>2. EventTypes'
      <3>1. events' \in Seq(Event) /\ tabs' \in Seq(Ids)
        BY <1>2 DEF Plain, TabsInv, EventTypes
      <3> QED BY <1>2, <3>1, TypesStay DEF Plain, TabsInv
    <2> QED BY <2>1, <2>2, KeepsTab DEF TabsInv
  <1>3. ASSUME SessionStep PROVE TabsInv'
    BY <1>3, OpenTab, AddedTab, PumpTab, ClickTab DEF SessionStep
  <1> QED BY <1>1, <1>2, <1>3, HandleTab, TabsCases

\* useTerminalCapture.ts and the close buttons: when nothing of a session is under way any
\* more, its tab is there if and only if the session is, but for a session whose end was
\* handled before its tab was added and one whose tab an event of the capture removed.
THEOREM TabsAndSessions == Spec => []TabsFollowSessions
  <1>1. IInv /\ TabsInv => TabsFollowSessions
    <2> SUFFICES ASSUME IInv, TabsInv, NEW s \in Sess, Settled(s)
                 PROVE  /\ s \in Shown => s \in registered \cup late
                        /\ s \in registered => s \in Shown \cup evicted
      BY DEF TabsFollowSessions
    <2>1. ~Ending(s) /\ conn[s].pc = "over"
      BY DEF Settled, Ending, PumpHas, Told, Answering
    <2> QED BY <2>1 DEF TabsInv, TabInv
  <1> QED BY <1>1, InitOwned, StepOwned, InitTabs, StepTabs, PTL DEF Spec

\* terminalStore.ts and useQuickSelect.ts: whatever comes, the active tab stays one of the
\* tabs, but for an F-key pressed for a tab that has gone since the chord was pressed.
THEOREM ActiveStaysATab == Spec => ActiveTabExists
  <1> DEFINE Stays == ActiveIsTab(tabs, active)
                        => \/ ActiveIsTab(tabs', active')
                           \/ \E n \in DOMAIN quick : active' = quick[n] /\ quick[n] \notin Shown
  <1>1. TabsInv /\ [Next]_vars => Stays
    <2> SUFFICES ASSUME TabsInv, [Next]_vars, ActiveIsTab(tabs, active),
                        ~ActiveIsTab(tabs', active')
                 PROVE  \E n \in DOMAIN quick : active' = quick[n] /\ quick[n] \notin Shown
      OBVIOUS
    <2>0. tabs \in Seq(Ids) /\ EventTypes
      BY DEF TabsInv, EventTypes
    <2>a. ~UNCHANGED <<tabs, active>>
      OBVIOUS
    <2>b. ASSUME tabs' = tabs, active' \in Shown PROVE FALSE
      <3>1. tabs # <<>>
        BY <2>0, <2>b, EmptyRange DEF Shown
      <3> QED BY <2>b, <3>1 DEF ActiveIsTab, Shown
    <2>1. ASSUME PollTick \/ (\E k \in Ticks : Ticking(k) \/ ForceTick(k)) \/ \E p \in Panes : World(p)
          PROVE  FALSE
      BY <2>0, <2>1, <2>a, CaptureMoves
    <2>2. ASSUME Handle PROVE FALSE
      <3>1. PICK e \in Event :
              \/ e.type = "tabs" /\ e.ids \in SUBSET Panes /\ HandleTabs(e.ids)
              \/ e.type = "update" /\ HandleUpdate(e.id, e.content)
              \/ e.type = "closed" /\ e.id \in Sess /\ HandleClosed(e.id)
        BY <2>0, <2>2, Handled
      <3>2. e.ids \in SUBSET Panes /\ HandleTabs(e.ids) => FALSE
        BY <2>0, ListedTabs
      <3>3. HandleUpdate(e.id, e.content) => FALSE
        BY <2>a DEF HandleUpdate
      <3>4. HandleClosed(e.id) => FALSE
        BY <2>0, RemainingFacts DEF HandleClosed, Become
      <3> QED BY <3>1, <3>2, <3>3, <3>4
    <2>3. ASSUME SessionStep PROVE FALSE
      <3>1. ASSUME NEW s \in Sess, TabAdded(s) PROVE FALSE
        <4>1. tabs' = AddTabs([tabs |-> tabs, active |-> active], <<s>>).tabs /\ active' = s
          BY <3>1 DEF TabAdded
        <4>2. <<s>> \in Seq(Ids) /\ Range(<<s>>) = {s}
          BY DEF Ids, Range
        <4>3. tabs' \in Seq(Ids) /\ s \in Range(tabs')
          <5>1. PICK one : one = <<s>>
            OBVIOUS
          <5>2. one \in Seq(Ids) /\ s \in Range(one)
            BY <4>2, <5>1
          <5> DEFINE st == AddTabs([tabs |-> tabs, active |-> active], one)
          <5>3. st.tabs \in Seq(Ids) /\ Range(st.tabs) = Range(tabs) \cup Range(one)
            BY <2>0, <5>2, AddTabsFacts
          <5>4. tabs' = st.tabs
            BY <4>1, <5>1
          <5> HIDE DEF st
          <5> QED BY <5>2, <5>3, <5>4
        <4>4. tabs' # <<>>
          BY <4>3, EmptyRange
        <4> QED BY <4>1, <4>3, <4>4 DEF ActiveIsTab
      <3>2. ASSUME NEW i \in Ids, NEW n \in Clicks, CloseAnswered(i, n) PROVE FALSE
        BY <2>0, <3>2, RemainingFacts DEF CloseAnswered, Become
      <3>3. ASSUME NEW s \in Sess, Open(s) \/ OpenFails(s) \/ Register(s)
                                    \/ \E n \in Pumps : PumpTakes(s, n) \/ PumpCloses(s, n)
            PROVE  FALSE
        BY <2>a, <3>3 DEF Open, OpenFails, Register, PumpTakes, PumpCloses, storeVars
      <3>4. ASSUME NEW i \in Ids, NEW n \in Clicks, Close(i, n) \/ CloseTakes(i, n) \/ CloseReleases(i, n)
            PROVE  FALSE
        BY <2>a, <3>4 DEF Close, CloseTakes, CloseReleases, storeVars
      <3> QED BY <2>3, <3>1, <3>2, <3>3, <3>4 DEF SessionStep
    <2>4. CASE Click
      BY <2>4, <2>a, <2>b DEF Click
    <2>5. ASSUME NEW n \in DOMAIN quick, FKey(n)
          PROVE  \E m \in DOMAIN quick : active' = quick[m] /\ quick[m] \notin Shown
      BY <2>5, <2>b DEF FKey
    <2>6. CASE Activate \/ Hidden \/ CommitRename \/ UNCHANGED vars
      BY <2>6, <2>a DEF Activate, Hidden, CommitRename, vars, storeVars
    <2>7. ASSUME NEW s \in Sess,
                 Dies(s) \/ SaveTerminal(s) \/ Saved(s) \/ \E mode \in {"rename", "saveTmux"} : StartRename(s, mode)
          PROVE  FALSE
      BY <2>7, <2>a DEF Dies, SaveTerminal, Saved, StartRename, storeVars
    <2> QED BY <2>1, <2>2, <2>3, <2>4, <2>5, <2>6, <2>7 DEF Next, SessionStep
  <1>2. Stays <=> ((IF tabs = <<>> THEN active = None ELSE active \in Shown)
                     => \/ IF tabs' = <<>> THEN active' = None ELSE active' \in Shown'
                        \/ \E n \in DOMAIN quick : active' = quick[n] /\ quick[n] \notin Shown)
    BY DEF ActiveIsTab, Shown
  <1> QED BY <1>1, <1>2, InitOwned, StepOwned, InitTabs, StepTabs, PTL DEF Spec, ActiveTabExists
================================================================================
