----------------------------- MODULE CaptureManager -----------------------------
(***************************************************************************)
(* The capture of terminals that run elsewhere                             *)
(* (services/capture/manager.go): the poll loop's tick, the tick that      *)
(* ForceCapture runs beside it on the caller's goroutine, and the two      *)
(* events they emit.  A tick discovers the panes, merges them into the     *)
(* table under the mutex, emits terminal:tabs after it has let the mutex   *)
(* go, captures, and compares and publishes under the mutex again.         *)
(*                                                                         *)
(* There is one adapter.  A pane's content is a number, its hash is the    *)
(* content, and the filter pipeline is not part of it.  The captures of    *)
(* one tick, up to four at a time, are one step: each pane is published    *)
(* from its own capture alone.                                             *)
(***************************************************************************)
EXTENDS Integers, Sequences, FiniteSets

CONSTANTS Panes,        \* the panes there may be
          Degraded,     \* those the adapter finds and cannot read
          AtStart,      \* the panes that may be there at first, a set of sets
          Ticks,        \* who runs a tick: the poll loop and ForceCapture
          Poll,         \* the poll loop
          None,
          MaxMoves      \* contents changed, panes come or gone, adapter errors, acts of the user

ASSUME CaptureAssumption ==
    /\ IsFiniteSet(Panes) /\ Degraded \subseteq Panes /\ AtStart \subseteq SUBSET Panes /\ Poll \in Ticks
    /\ MaxMoves \in Nat /\ None \notin 0..MaxMoves

VARIABLES
    world,      \* what each pane shows at the moment, None when it is not there
    panes,      \* m.panes: captureState by id, None when not tracked
    tick,       \* the ticks under way
    events,     \* events emitted and not yet handled, in order
    moves       \* how often the world changed or the user acted

worldVars   == <<world, panes, tick, events>>
captureVars == <<worldVars, moves>>

Content == 0..MaxMoves
Idle    == [pc |-> "idle", found |-> {}, changed |-> FALSE, got |-> [p \in {} |-> None]]
Move    == moves < MaxMoves /\ moves' = moves + 1

CaptureTypeOK ==
    /\ world \in [Panes -> Content \cup {None}]
    /\ \A p \in Panes : panes[p] = None \/ panes[p] \in [missCount : 0..2, lastHash : Content \cup {None}]
    /\ \A k \in Ticks : /\ tick[k].pc \in {"idle", "merge", "tabs", "capture", "publish"}
                        /\ tick[k].found \subseteq Panes /\ tick[k].changed \in BOOLEAN
                        /\ DOMAIN tick[k].got \subseteq Panes
    /\ moves \in 0..MaxMoves

CaptureInit ==
    /\ \E there \in AtStart : world = [p \in Panes |-> IF p \in there THEN 0 ELSE None]
    /\ panes = [p \in Panes |-> None]
    /\ tick = [k \in Ticks |-> Idle]
    /\ events = <<>> /\ moves = 0

-----------------------------------------------------------------------------
(* The terminals. *)

\* A pane prints, comes or goes.
WorldChanges(p) ==
    /\ Move
    /\ \/ /\ world[p] # None
          /\ world' = [world EXCEPT ![p] = None]
       \/ world' = [world EXCEPT ![p] = IF p \in Degraded THEN 0 ELSE moves']
    /\ UNCHANGED <<panes, tick, events>>

-----------------------------------------------------------------------------
(* One tick. *)

There == {p \in Panes : world[p] # None}

\* Discover of the adapter; its error leaves no panes.
Discover(k, found) ==
    /\ tick[k].pc = "idle"
    /\ tick' = [tick EXCEPT ![k] = [@ EXCEPT !.pc = "merge", !.found = found]]
    /\ UNCHANGED <<world, panes, events>>

\* The poll loop's ticker.
Polls == \/ Discover(Poll, There) /\ UNCHANGED moves
         \/ There # {} /\ Discover(Poll, {}) /\ Move

\* ForceCapture, by the slash command /refresh.
ForceCapture(k) == k # Poll /\ Move /\ \E found \in {There, {}} : Discover(k, found)

\* A tracked pane that was not found; the third miss in a row removes it.
Missed(state) == IF state.missCount >= 2 THEN None ELSE [state EXCEPT !.missCount = @ + 1]

Found(state) == IF state = None THEN [missCount |-> 0, lastHash |-> None] ELSE [state EXCEPT !.missCount = 0]

\* The new and the missing panes, under the mutex.
Merge(k) ==
    /\ tick[k].pc = "merge"
    /\ panes' = [p \in Panes |-> IF p \in tick[k].found THEN Found(panes[p])
                                 ELSE IF panes[p] = None THEN None ELSE Missed(panes[p])]
    /\ tick' = [tick EXCEPT ![k] = [@ EXCEPT !.pc = "tabs",
                 !.changed = \E p \in Panes : (panes[p] = None) # (panes'[p] = None)]]
    /\ UNCHANGED <<world, events, moves>>

\* terminal:tabs when the membership changed: the panes this tick found, not those tracked.
EmitTabs(k) ==
    /\ tick[k].pc = "tabs"
    /\ events' = IF tick[k].changed THEN Append(events, [type |-> "tabs", ids |-> tick[k].found]) ELSE events
    /\ tick' = [tick EXCEPT ![k].pc = "capture"]
    /\ UNCHANGED <<world, panes, moves>>

\* Capture of every pane that is not degraded; of one that has gone there is no result.
Capture(k) ==
    /\ tick[k].pc = "capture"
    /\ tick' = [tick EXCEPT ![k] = [Idle EXCEPT !.pc = "publish",
                 !.got = [p \in (tick[k].found \ Degraded) \cap There |-> world[p]]]]
    /\ UNCHANGED <<world, panes, events, moves>>

\* Mutant: only the first capture of a pane is news.
NewsFirst(k) == {p \in DOMAIN tick[k].got : panes[p] # None /\ panes[p].lastHash = None}

\* Results of tracked panes whose hash is not the last one sent.
News(k) == {p \in DOMAIN tick[k].got : panes[p] # None /\ panes[p].lastHash # tick[k].got[p]}

\* terminal:update for each, with the mutex held.
Publish(k) ==
    /\ tick[k].pc = "publish"
    /\ panes' = [p \in Panes |-> IF p \in News(k) THEN [panes[p] EXCEPT !.lastHash = tick[k].got[p]] ELSE panes[p]]
    /\ \E order \in [1..Cardinality(News(k)) -> News(k)] :
          /\ \A i, j \in DOMAIN order : order[i] = order[j] => i = j
          /\ events' = events \o [i \in DOMAIN order |->
                                    [type |-> "update", id |-> order[i], content |-> tick[k].got[order[i]]]]
    /\ tick' = [tick EXCEPT ![k] = Idle]
    /\ UNCHANGED <<world, moves>>

TickStep(k) == Merge(k) \/ EmitTabs(k) \/ Capture(k) \/ Publish(k)
================================================================================
