------------------------------- MODULE LLMChat -------------------------------
(***************************************************************************)
(* LLMService together with the chat frontend: ChatPane.handleSend, the    *)
(* useLLMStream hook and chatStore.  Wails delivers the events of          *)
(* `emitted' one at a time and in order; none names a tab or a request,    *)
(* so the hook assigns each one to the tab that is active when it arrives. *)
(* Of the messages of a tab only the assistant's are kept.                 *)
(***************************************************************************)
EXTENDS LLMService, FiniteSets

CONSTANTS
  Tabs,      \* terminal tabs
  NoTab,
  NoMessage, \* msgIdRef.current = null
  MaxMoves   \* bound: tab switches and /clear commands

ASSUME ChatAssumption == NoTab \notin Tabs /\ NoMessage \notin Nat /\ MaxMoves \in Nat

VARIABLES
  delivered,    \* how many of the emitted events the frontend has handled
  activeTab,    \* terminalStore.activeTabId
  llmRequest,   \* chatStore.llmRequest is set
  hook,         \* msgIdRef, nextSeqRef and pendingRef of useLLMStream
  messages,     \* chatStore.messagesByTab
  created,      \* messages created so far: the next message id
  sentFrom,     \* per request: the tab it was sent from
  settled,      \* requests whose outcome the frontend has handled (history)
  moves,        \* tab switches and clears so far
  company,      \* requests that shared the wire with another (history)
  moved,        \* requests in flight at a switch or a clear, or answered in
                \* a tab that was cleared since (history)
  afterTimeout  \* requests sent after one was abandoned (history)

ghostVars == <<settled, company, moved, afterTimeout>>
uiVars    == <<delivered, activeTab, llmRequest, hook, messages, created,
               sentFrom, moves, ghostVars>>
chatVars  == <<vars, uiVars>>

FreshHook == [msg |-> NoMessage, next |-> 0, pending |-> {}]

Sent(r)      == sentFrom[r] # NoTab
Pending(r)   == Sent(r) /\ r \notin settled
Abandoned(r) == /\ stage[r] = "ended"
                /\ \A i \in 1..Len(emitted) :
                     emitted[i].req = r => emitted[i].kind = "chunk"
InFlight == {r \in Requests : Pending(r) /\ ~Abandoned(r)}

-----------------------------------------------------------------------------
(* chatStore: operations on messagesByTab.                                 *)

\* startStreamingMessage and setStreamError add a message to a tab.
AddMessage(msgs, t, status, pieces) ==
  [msgs EXCEPT ![t] = Append(@, [id |-> created, status |-> status, pieces |-> pieces])]

\* appendChunk, finalizeMessage and setStreamError look the message up by id:
\* nothing happens when /clear has removed it.
AppendPieces(msgs, t, id, run) ==
  [msgs EXCEPT ![t] =
     [i \in DOMAIN @ |-> IF @[i].id = id
                          THEN [@[i] EXCEPT !.pieces = msgs[t][i].pieces \o run]
                          ELSE @[i]]]

SetStatus(msgs, t, id, status) ==
  [msgs EXCEPT ![t] =
     [i \in DOMAIN @ |-> IF @[i].id = id THEN [@[i] EXCEPT !.status = status] ELSE @[i]]]

-----------------------------------------------------------------------------
(* ChatPane.                                                               *)

\* Mutant: the indicator is not armed.
SendUnarmed(r) ==
  /\ ~Sent(r)
  /\ sentFrom' = [sentFrom EXCEPT ![r] = activeTab]
  /\ company' = IF InFlight = {} THEN company ELSE company \cup InFlight \cup {r}
  /\ UNCHANGED <<vars, delivered, activeTab, llmRequest, hook, messages, created,
                 moves, settled, moved, afterTimeout>>

\* handleSend: the indicator is armed before the call leaves the frontend.
Send(r) ==
  /\ ~Sent(r)
  /\ sentFrom' = [sentFrom EXCEPT ![r] = activeTab]
  /\ llmRequest' = TRUE
  /\ company' = IF InFlight = {} THEN company ELSE company \cup InFlight \cup {r}
  /\ afterTimeout' = IF \E q \in Requests : Pending(q) /\ Abandoned(q)
                     THEN afterTimeout \cup {r} ELSE afterTimeout
  /\ UNCHANGED <<vars, delivered, activeTab, hook, messages, created, moves,
                 settled, moved>>

\* SendMessage(...).catch: the error goes to the tab the message was sent from.
HandleRejection(r) ==
  /\ stage[r] = "rejected" /\ Pending(r)
  /\ llmRequest' = FALSE
  /\ messages' = AddMessage(messages, sentFrom[r], "error", << >>)
  /\ created' = created + 1
  /\ settled' = settled \cup {r}
  /\ UNCHANGED <<vars, delivered, activeTab, hook, sentFrom, moves, company,
                 moved, afterTimeout>>

\* /clear empties the tab; the hook keeps its message id.
Clear ==
  /\ moves < MaxMoves /\ moves' = moves + 1
  /\ messages' = [messages EXCEPT ![activeTab] = << >>]
  /\ moved' = moved \cup InFlight \cup {r \in settled : sentFrom[r] = activeTab}
  /\ UNCHANGED <<vars, delivered, activeTab, llmRequest, hook, created,
                 sentFrom, settled, company, afterTimeout>>

\* Another tab: the effect of useLLMStream resets the refs and resubscribes.
SwitchTab(t) ==
  /\ t # activeTab
  /\ moves < MaxMoves /\ moves' = moves + 1
  /\ activeTab' = t
  /\ hook' = FreshHook
  /\ moved' = moved \cup InFlight
  /\ UNCHANGED <<vars, delivered, llmRequest, messages, created, sentFrom,
                 settled, company, afterTimeout>>

-----------------------------------------------------------------------------
(* useLLMStream: one handler per event.                                    *)

\* The chunks in p that follow each other from number n on.
RunLength(p, n) ==
  CHOOSE k \in 0..Cardinality(p) :
    /\ \A i \in 0..k-1 : \E e \in p : e.seq = n + i
    /\ \A e \in p : e.seq # n + k
Run(p, n) ==
  [i \in 1..RunLength(p, n) |-> CHOOSE e \in p : e.seq = n + i - 1]

\* Mutant: chunks are appended as they arrive.
HandleChunkOnArrival(e) ==
  LET isNew == hook.msg = NoMessage IN
     /\ hook' = [hook EXCEPT !.msg = IF isNew THEN created ELSE @]
     /\ messages' = IF isNew THEN AddMessage(messages, activeTab, "streaming", <<e>>)
                    ELSE AppendPieces(messages, activeTab, hook.msg, <<e>>)
     /\ created' = IF isNew THEN created + 1 ELSE created
     /\ UNCHANGED <<llmRequest, settled>>

\* handleChunk and flushPending: the chunk joins the pending ones (under its
\* number, replacing an older one) and those now in sequence are appended, to
\* a new message if there is none.  Pending never holds the next number, so
\* the code's immediate append is the first of the run.
HandleChunk(e) ==
  LET waiting == {p \in hook.pending : p.seq # e.seq} \cup {e}
      run     == Run(waiting, hook.next)
      isNew   == hook.msg = NoMessage /\ run # << >>
  IN /\ hook' = [msg     |-> IF isNew THEN created ELSE hook.msg,
                 next    |-> hook.next + Len(run),
                 pending |-> {p \in waiting : \A i \in DOMAIN run : run[i] # p}]
     /\ messages' = IF isNew THEN AddMessage(messages, activeTab, "streaming", run)
                    ELSE AppendPieces(messages, activeTab, hook.msg, run)
     /\ created' = IF isNew THEN created + 1 ELSE created
     /\ UNCHANGED <<llmRequest, settled>>

\* Mutant: the refs are not reset for the next response.
HandleDoneKeepsRefs(e) ==
  /\ messages' = SetStatus(messages, activeTab, hook.msg, "final")
  /\ llmRequest' = FALSE
  /\ settled' = settled \cup {e.req}
  /\ UNCHANGED <<hook, created>>

\* handleDone: finalize the message, reset the refs, clear the indicator.
HandleDone(e) ==
  /\ messages' = SetStatus(messages, activeTab, hook.msg, "final")
  /\ hook' = FreshHook
  /\ llmRequest' = FALSE
  /\ settled' = settled \cup {e.req}
  /\ UNCHANGED created

\* handleError: mark the message interrupted, or add one that holds the error.
HandleError(e) ==
  /\ IF hook.msg = NoMessage
     THEN /\ messages' = AddMessage(messages, activeTab, "error", << >>)
          /\ created' = created + 1
     ELSE /\ messages' = SetStatus(messages, activeTab, hook.msg, "error")
          /\ UNCHANGED created
  /\ hook' = FreshHook
  /\ llmRequest' = FALSE
  /\ settled' = settled \cup {e.req}

Deliver ==
  /\ delivered < Len(emitted)
  /\ delivered' = delivered + 1
  /\ LET e == emitted[delivered + 1] IN
       \/ e.kind = "chunk" /\ HandleChunk(e)
       \/ e.kind = "done"  /\ HandleDone(e)
       \/ e.kind = "error" /\ HandleError(e)
  /\ UNCHANGED <<vars, activeTab, sentFrom, moves, company, moved, afterTimeout>>

-----------------------------------------------------------------------------
\* The backend moves as in LLMService, once the call has reached it.
Backend ==
  /\ Next
  /\ \A r \in Requests : stage'[r] # stage[r] => Sent(r)
  /\ UNCHANGED uiVars

ChatInit ==
  /\ Init
  /\ delivered = 0 /\ activeTab \in Tabs /\ llmRequest = FALSE
  /\ hook = FreshHook
  /\ messages = [t \in Tabs |-> << >>] /\ created = 0
  /\ sentFrom = [r \in Requests |-> NoTab]
  /\ moves = 0
  /\ settled = {} /\ company = {} /\ moved = {} /\ afterTimeout = {}

ChatNext ==
  \/ Backend
  \/ ~crashed /\ ( \/ \E r \in Requests : Send(r) \/ HandleRejection(r)
                   \/ Clear
                   \/ \E t \in Tabs : SwitchTab(t)
                   \/ Deliver )

\* Go's scheduler and timers, as in LLMService, and the frontend's event loop.
ChatFairness ==
  /\ \A r \in Requests :
       /\ WF_chatVars(~crashed /\ UNCHANGED uiVars /\ LoopStep(r))
       /\ WF_chatVars(~crashed /\ UNCHANGED uiVars /\ Expire(r))
       /\ WF_chatVars(~crashed /\ HandleRejection(r))
  /\ WF_chatVars(~crashed /\ Deliver)

ChatSpec == ChatInit /\ [][ChatNext]_chatVars
FairChatSpec == ChatSpec /\ ChatFairness

-----------------------------------------------------------------------------
(* Properties                                                              *)

AllMessages == UNION {{messages[t][i] : i \in DOMAIN messages[t]} : t \in Tabs}

Quiet(r) == r \notin company /\ r \notin moved /\ r \notin afterTimeout

\* The text of a message, as the numbers of the chunks it is made of.
Covers(m, r) ==
  /\ \A k \in DOMAIN m.pieces : m.pieces[k].req = r
  /\ \A k \in DOMAIN m.pieces :
       m.pieces[k].first = IF k = 1 THEN 1 ELSE m.pieces[k - 1].last + 1
  /\ m.pieces[Len(m.pieces)].last = Received(r)

Shown(r) ==
  \E m \in {messages[sentFrom[r]][i] : i \in DOMAIN messages[sentFrom[r]]} :
    m.status = "final" /\ m.pieces # << >> /\ Covers(m, r)

Answered(r) ==
  Received(r) > 0 /\ \E i \in 1..delivered : emitted[i].req = r /\ emitted[i].kind = "done"

\* useLLMStream.ts:29-38: whatever overlaps, is lost, cleared or switched, the
\* pieces of a message are numbered 0, 1, 2, ...: none is skipped or repeated.
PiecesInSequence ==
  \A m \in AllMessages : \A k \in DOMAIN m.pieces : m.pieces[k].seq = k - 1

\* useLLMStream.ts:40-45: a response the user waited for, in its tab, with no
\* other request on the wire and none timed out before it, is a finished
\* message of that tab with exactly the text of that response, until /clear.
QuietResponseShown ==
  \A r \in Requests : Quiet(r) /\ Answered(r) => Shown(r)

\* ChatPane.tsx:194-199: from the send until its outcome is handled, a request
\* with no other beside it keeps the activity indicator on.
IndicatorOnWhileAlone ==
  \A r \in InFlight : r \notin company => llmRequest

\* chatStore.ts:25-26: "every terminal path (done/error/sync failure) clears
\* the same value", so the indicator goes off again.
IndicatorClears == llmRequest ~> (~llmRequest \/ crashed)
=============================================================================
