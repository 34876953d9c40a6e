-------------------------- MODULE LLMServiceProofs --------------------------
(***************************************************************************)
(* Proofs about LLMService, for every number of requests and savers, every *)
(* set of providers and every bound, and, in the second half, about the    *)
(* chat frontend of LLMChat, for every set of tabs.                        *)
(***************************************************************************)
EXTENDS LLMChat, FiniteSetTheorems, WellFoundedInduction, TLAPS

\* llm_service.go:269-280: a flush emits at most one chunk event, and numbers
\* the next one after it.
LEMMA FlushFacts ==
  ASSUME TypeOK, NEW r \in Requests
  PROVE  /\ Flushed(r) \in Seq(EventType)
         /\ Len(Flushed(r)) \in {0, 1}
         /\ NextSeq(r) \in TextCount
         /\ NextSeq(r) <= Received(r)
         /\ \A i \in 1..Len(Flushed(r)) :
              Flushed(r)[i].req = r /\ Flushed(r)[i].kind = "chunk"
<1> DEFINE e == Event("chunk", r, loop[r].seq, loop[r].flushed + 1, Received(r))
<1>1. /\ loop[r].seq \in TextCount /\ loop[r].flushed \in TextCount
      /\ Received(r) \in TextCount /\ MaxText \in Nat
      /\ loop[r].seq <= loop[r].flushed /\ loop[r].flushed <= Received(r)
  BY LLMAssumption DEF TypeOK, Received
<1>2. CASE loop[r].flushed = Received(r)
  <2>1. Flushed(r) = << >>
    BY <1>2 DEF Flushed
  <2>2. Flushed(r) \in Seq(EventType) /\ Len(Flushed(r)) = 0
    BY <2>1
  <2>3. QED
    BY <2>2, <1>1, <1>2 DEF NextSeq, TextCount
<1>3. CASE loop[r].flushed # Received(r)
  <2>1. Flushed(r) = << e >>
    BY <1>3 DEF Flushed
  <2>2. loop[r].flushed + 1 \in TextCount /\ loop[r].seq + 1 \in TextCount
    BY <1>1, <1>3 DEF TextCount
  <2>3. e \in EventType
    BY <1>1, <2>2 DEF Event, EventType
  <2>4. Flushed(r) \in Seq(EventType) /\ Len(Flushed(r)) = 1 /\ Flushed(r)[1] = e
    BY <2>1, <2>3
  <2>5. e.req = r /\ e.kind = "chunk"
    BY DEF Event
  <2>6. NextSeq(r) = loop[r].seq + 1
    BY <2>4 DEF NextSeq
  <2>7. QED
    BY <2>2, <2>4, <2>5, <2>6, <1>1, <1>3 DEF TextCount
<1>4. QED BY <1>2, <1>3

-----------------------------------------------------------------------------
(* Type correctness.                                                       *)

LEMMA InitType == Init => TypeOK
<1> SUFFICES ASSUME Init PROVE TypeOK
  OBVIOUS
<1> USE LLMAssumption
<1>1. cfg \in ProviderSetting /\ active \in Providers \cup {NoProvider}
  BY DEF Init, AppConfig, Effective, Build, ProviderSetting
<1>2. emitted \in Seq(EventType)
  BY DEF Init
<1>3. \A r \in Requests : /\ loop[r] = [received |-> 0, flushed |-> 0, seq |-> 0]
                          /\ chan[r] = [sent |-> 0, term |-> "open", failed |-> FALSE]
  BY DEF Init, NoResult
<1>4. \A r \in Requests : /\ loop[r].seq <= loop[r].flushed
                          /\ loop[r].flushed <= loop[r].received
                          /\ loop[r].received <= chan[r].sent
  <2>1. TAKE r \in Requests
  <2>2. loop[r].seq = 0 /\ loop[r].flushed = 0 /\ loop[r].received = 0 /\ chan[r].sent = 0
    BY <1>3
  <2>3. QED BY <2>2
<1>5. /\ disk \in AppConfig /\ torn \subseteq Savers /\ edits \in 0..MaxEdits
      /\ saver \in [Savers -> [stage : SaverStages, held : AppConfig]]
  BY DEF Init, SaverStages
<1>6. /\ stage \in [Requests -> Stages]
      /\ target \in [Requests -> Providers \cup {NoProvider}]
      /\ expired \in [Requests -> BOOLEAN]
      /\ audit \subseteq AuditType /\ crashed \in BOOLEAN
  BY DEF Init, Stages, ProviderSetting
<1>7. /\ chan \in [Requests -> [sent : TextCount, term : Terms, failed : BOOLEAN]]
      /\ loop \in [Requests -> [received : TextCount, flushed : TextCount, seq : TextCount]]
  BY DEF Init, NoResult, Terms, TextCount
<1>8. QED
  BY <1>1, <1>2, <1>4, <1>5, <1>6, <1>7 DEF TypeOK

\* The part of the type invariant that a save or a hand edit can change.
ConfigTypeOK ==
  /\ disk \in AppConfig /\ torn \subseteq Savers /\ edits \in 0..MaxEdits
  /\ saver \in [Savers -> [stage : SaverStages, held : AppConfig]]
  /\ cfg \in ProviderSetting /\ active \in Providers \cup {NoProvider}

LEMMA ConfigStepType == TypeOK /\ ConfigStep => ConfigTypeOK'
<1> SUFFICES ASSUME TypeOK, ConfigStep PROVE ConfigTypeOK'
  OBVIOUS
<1> USE LLMAssumption
<1>1. Readable \in AppConfig
  BY DEF TypeOK, Readable, AppConfig, ProviderSetting
<1>2. Effective(Readable.provider) \in ProviderSetting
  BY <1>1 DEF Effective, AppConfig
<1>3. ASSUME NEW w \in Savers, NEW p \in Providers \cup {Disabled}, LoadForSave(w, p)
      PROVE  ConfigTypeOK'
  <2>1. [provider |-> p, denied |-> Readable.denied] \in AppConfig
    BY <1>1 DEF AppConfig, ProviderSetting
  <2>2. QED
    BY <1>3, <2>1 DEF LoadForSave, TypeOK, ConfigTypeOK, SaverStages
<1>4. ASSUME NEW w \in Savers, Truncate(w) PROVE ConfigTypeOK'
  BY <1>4 DEF Truncate, TypeOK, ConfigTypeOK, SaverStages
<1>5. ASSUME NEW w \in Savers, Write(w) PROVE ConfigTypeOK'
  BY <1>5 DEF Write, TypeOK, ConfigTypeOK, SaverStages
<1>6. ASSUME NEW w \in Savers, Reload(w) PROVE ConfigTypeOK'
  <2>1. [saver[w].held EXCEPT !.provider = Effective(Readable.provider)] \in AppConfig
    BY <1>2 DEF TypeOK, AppConfig
  <2>2. saver' \in [Savers -> [stage : SaverStages, held : AppConfig]]
    <3> DEFINE p == Effective(Readable.provider)
               g == [saver[w] EXCEPT !.stage = "reloaded"]
               h == [saver[w].held EXCEPT !.provider = p]
    <3>1. /\ saver \in [Savers -> [stage : SaverStages, held : AppConfig]]
          /\ saver[w] \in [stage : SaverStages, held : AppConfig]
      BY DEF TypeOK
    <3>2. saver' = [saver EXCEPT ![w] = [saver[w] EXCEPT !.stage = "reloaded", !.held.provider = p]]
      BY <1>6, <3>1 DEF Reload
    <3>3. g \in [stage : SaverStages, held : AppConfig] /\ g.held = saver[w].held
      BY <3>1 DEF SaverStages
    <3>4. h \in AppConfig
      BY <2>1
    <3> HIDE DEF p
    <3>5. [saver[w] EXCEPT !.stage = "reloaded", !.held.provider = p] = [g EXCEPT !.held = h]
      BY <3>1
    <3> HIDE DEF g, h
    <3>6. [g EXCEPT !.held = h] \in [stage : SaverStages, held : AppConfig]
      BY <3>3, <3>4
    <3>7. QED BY <3>1, <3>2, <3>5, <3>6
  <2>3. QED
    BY <1>6, <2>2 DEF Reload, TypeOK, ConfigTypeOK
<1>7. ASSUME NEW w \in Savers, AssignCfg(w) PROVE ConfigTypeOK'
  <2>1. saver[w].held.provider \in ProviderSetting
    BY DEF TypeOK, AppConfig
  <2>2. saver' \in [Savers -> [stage : SaverStages, held : AppConfig]]
    BY <1>7 DEF AssignCfg, TypeOK, SaverStages
  <2>3. QED
    BY <1>7, <2>1, <2>2 DEF AssignCfg, TypeOK, ConfigTypeOK
<1>8. ASSUME NEW w \in Savers, AssignProvider(w) PROVE ConfigTypeOK'
  <2>1. Build(saver[w].held.provider) \in Providers \cup {NoProvider}
    BY DEF Build
  <2>2. saver' \in [Savers -> [stage : SaverStages, held : AppConfig]]
    BY <1>8 DEF AssignProvider, TypeOK, SaverStages
  <2>3. QED
    BY <1>8, <2>1, <2>2 DEF AssignProvider, TypeOK, ConfigTypeOK
<1>9. ASSUME NEW d \in SUBSET Providers, EditPolicy(d) PROVE ConfigTypeOK'
  BY <1>9 DEF EditPolicy, TypeOK, ConfigTypeOK, AppConfig
<1>10. QED
  BY <1>3, <1>4, <1>5, <1>6, <1>7, <1>8, <1>9 DEF ConfigStep

\* The steps of a request leave the configuration alone.
LEMMA SendStepType ==
  ASSUME TypeOK, NEW r \in Requests, SendStep(r)
  PROVE  TypeOK'
<1> USE LLMAssumption
<1>1. stage' \in [Requests -> Stages]
  BY DEF TypeOK, SendStep, SeeProvider, CheckRequest, AuditUserMessage, Stages
<1>3. UserMessage(r) \in AuditType /\ PolicyDenied(r) \in AuditType
  BY DEF UserMessage, PolicyDenied, AuditType, TextCount
<1>4. audit' \subseteq AuditType
  BY <1>3 DEF TypeOK, SendStep, SeeProvider, CheckRequest, AuditUserMessage
<1>5. UNCHANGED <<configVars, target, chan, expired, loop, emitted, crashed>>
  BY DEF SendStep, SeeProvider, CheckRequest, AuditUserMessage
<1>6. QED
  BY <1>1, <1>4, <1>5 DEF TypeOK, configVars

LEMMA LoopStepType ==
  ASSUME TypeOK, NEW r \in Requests, LoopStep(r)
  PROVE  TypeOK'
<1> USE LLMAssumption
<1>1. UNCHANGED configVars
  BY DEF LoopStep
<1>2. CASE StartStream(r)
  <2>1. Event("error", r, 0, 0, 0) \in EventType
    BY DEF Event, EventType, TextCount
  <2>2. emitted' \in Seq(EventType)
    <3>1. emitted \in Seq(EventType)
      BY DEF TypeOK
    <3>2. emitted' = emitted \/ emitted' = Append(emitted, Event("error", r, 0, 0, 0))
      BY <1>2 DEF StartStream
    <3>3. QED BY <2>1, <3>1, <3>2
  <2>3. stage' \in [Requests -> Stages]
    BY <1>2 DEF StartStream, TypeOK, Stages
  <2>4. target' \in [Requests -> Providers \cup {NoProvider}]
    BY <1>2 DEF StartStream, TypeOK
  <2>5. UNCHANGED <<chan, expired, loop, audit, crashed>>
    BY <1>2 DEF StartStream
  <2>6. QED
    BY <1>1, <2>2, <2>3, <2>4, <2>5 DEF TypeOK, configVars
<1>3. CASE StreamOnNil(r)
  BY <1>1, <1>3 DEF StreamOnNil, TypeOK, configVars, requestVars
<1>4. CASE ReceiveText(r)
  <2>1. /\ loop[r].received + 1 \in TextCount
        /\ loop[r].received + 1 <= chan[r].sent
        /\ loop[r].flushed <= loop[r].received + 1
    BY <1>4 DEF ReceiveText, Received, TypeOK, TextCount
  <2>2. loop' = [loop EXCEPT ![r] = [@ EXCEPT !.received = loop[r].received + 1]]
    BY <1>4 DEF ReceiveText
  <2>3. loop' \in [Requests -> [received : TextCount, flushed : TextCount, seq : TextCount]]
    BY <2>1, <2>2 DEF TypeOK
  <2>4. \A q \in Requests : /\ loop'[q].seq <= loop'[q].flushed
                            /\ loop'[q].flushed <= loop'[q].received
                            /\ loop'[q].received <= chan[q].sent
    BY <2>1, <2>2 DEF TypeOK
  <2>5. UNCHANGED <<stage, target, chan, expired, audit, emitted, crashed>>
    BY <1>4 DEF ReceiveText
  <2>6. QED
    BY <1>1, <2>3, <2>4, <2>5 DEF TypeOK, configVars
<1>5. ASSUME Flush(r), UNCHANGED chan
      PROVE  /\ loop' \in [Requests -> [received : TextCount, flushed : TextCount, seq : TextCount]]
             /\ \A q \in Requests : /\ loop'[q].seq <= loop'[q].flushed
                                    /\ loop'[q].flushed <= loop'[q].received
                                    /\ loop'[q].received <= chan'[q].sent
  <2>1. Received(r) \in TextCount /\ NextSeq(r) \in TextCount /\ NextSeq(r) <= Received(r)
    BY FlushFacts DEF TypeOK, Received
  <2>2. loop' = [loop EXCEPT ![r] = [@ EXCEPT !.flushed = Received(r), !.seq = NextSeq(r)]]
    BY <1>5 DEF Flush
  <2>3. loop'[r] = [received |-> loop[r].received, flushed |-> Received(r), seq |-> NextSeq(r)]
    BY <2>2 DEF TypeOK
  <2>4. \A q \in Requests : q # r => loop'[q] = loop[q]
    BY <2>2 DEF TypeOK
  <2>5. loop' \in [Requests -> [received : TextCount, flushed : TextCount, seq : TextCount]]
    BY <2>1, <2>2, <2>3, <2>4 DEF TypeOK, Received
  <2>6. loop[r].received \in Nat /\ loop[r].received <= chan[r].sent
    BY DEF TypeOK, TextCount
  <2>7. ASSUME NEW q \in Requests
        PROVE  /\ loop'[q].seq <= loop'[q].flushed
               /\ loop'[q].flushed <= loop'[q].received
               /\ loop'[q].received <= chan'[q].sent
    <3>1. CASE q = r
      BY <1>5, <2>1, <2>3, <2>6, <3>1 DEF Received
    <3>2. CASE q # r
      BY <1>5, <2>4, <3>2 DEF TypeOK
    <3>3. QED BY <3>1, <3>2
  <2>8. QED BY <2>5, <2>7
<1>6. /\ \A k \in {"done", "error"} :
           emitted \o Flushed(r) \o << Event(k, r, NextSeq(r), 0, 0) >> \in Seq(EventType)
      /\ emitted \o Flushed(r) \in Seq(EventType)
  <2>1. Flushed(r) \in Seq(EventType) /\ emitted \in Seq(EventType)
    BY FlushFacts DEF TypeOK
  <2>2. \A k \in {"done", "error"} : Event(k, r, NextSeq(r), 0, 0) \in EventType
    BY FlushFacts DEF Event, EventType, TextCount
  <2>3. QED BY <2>1, <2>2
<1>7. CASE ReceiveDone(r)
  <2>1. AIResponse(r, Received(r)) \in AuditType
    BY DEF TypeOK, Received, AIResponse, AuditType
  <2>2. audit' \subseteq AuditType
    BY <1>7, <2>1 DEF ReceiveDone, TypeOK
  <2>3. stage' \in [Requests -> Stages] /\ emitted' \in Seq(EventType)
    BY <1>6, <1>7 DEF ReceiveDone, TypeOK, Stages
  <2>4. Flush(r) /\ UNCHANGED <<target, chan, expired, crashed>>
    BY <1>7 DEF ReceiveDone
  <2>5. QED
    BY <1>1, <1>5, <2>2, <2>3, <2>4 DEF TypeOK, configVars
<1>8. CASE ReceiveError(r)
  <2>1. stage' \in [Requests -> Stages] /\ emitted' \in Seq(EventType)
    BY <1>6, <1>8 DEF ReceiveError, TypeOK, Stages
  <2>2. Flush(r) /\ UNCHANGED <<target, chan, expired, audit, crashed>>
    BY <1>8 DEF ReceiveError
  <2>3. QED
    BY <1>1, <1>5, <2>1, <2>2 DEF TypeOK, configVars
<1>9. CASE Tick(r)
  <2>1. emitted' \in Seq(EventType)
    BY <1>6, <1>9 DEF Tick
  <2>2. Flush(r) /\ UNCHANGED <<stage, target, chan, expired, audit, crashed>>
    BY <1>9 DEF Tick
  <2>3. QED
    BY <1>1, <1>5, <2>1, <2>2 DEF TypeOK, configVars
<1>10. CASE Abandon(r)
  <2>1. stage' \in [Requests -> Stages]
    BY <1>10 DEF Abandon, TypeOK, Stages
  <2>2. UNCHANGED <<target, chan, expired, loop, audit, emitted, crashed>>
    BY <1>10 DEF Abandon
  <2>3. QED
    BY <1>1, <2>1, <2>2 DEF TypeOK, configVars
<1>11. QED
  BY <1>2, <1>3, <1>4, <1>7, <1>8, <1>9, <1>10 DEF LoopStep

LEMMA ProviderStepType ==
  ASSUME TypeOK, NEW r \in Requests, ProviderStep(r)
  PROVE  TypeOK'
<1> USE LLMAssumption
<1>0. chan[r] \in [sent : TextCount, term : Terms, failed : BOOLEAN]
  BY DEF TypeOK
<1>1. UNCHANGED <<configVars, stage, target, expired, loop, audit, emitted, crashed>>
  BY DEF ProviderStep
<1>2. ASSUME NEW c \in [sent : TextCount, term : Terms, failed : BOOLEAN],
             c.sent >= chan[r].sent, chan' = [chan EXCEPT ![r] = c]
      PROVE  TypeOK'
  <2>1. chan' \in [Requests -> [sent : TextCount, term : Terms, failed : BOOLEAN]]
    BY <1>2 DEF TypeOK
  <2>2. loop[r].received \in Nat /\ chan[r].sent \in Nat /\ c.sent \in Nat
    BY DEF TypeOK, TextCount
  <2>3. \A q \in Requests : loop[q].received <= chan'[q].sent
    BY <1>2, <2>2 DEF TypeOK
  <2>4. QED
    BY <1>1, <2>1, <2>3 DEF TypeOK, configVars
<1>3. CASE SendText(r)
  <2>1. chan[r].sent + 1 \in TextCount
    BY <1>3 DEF SendText, TypeOK, TextCount
  <2>2. chan' = [chan EXCEPT ![r] = [@ EXCEPT !.sent = chan[r].sent + 1]]
    BY <1>3 DEF SendText
  <2>3. [chan[r] EXCEPT !.sent = chan[r].sent + 1]
          \in [sent : TextCount, term : Terms, failed : BOOLEAN]
    BY <1>0, <2>1
  <2>4. [chan[r] EXCEPT !.sent = chan[r].sent + 1].sent >= chan[r].sent
    BY <1>0 DEF TextCount
  <2>5. QED BY <1>2, <2>2, <2>3, <2>4
<1>4. ASSUME NEW t \in Terms, NEW f \in BOOLEAN,
             chan' = [chan EXCEPT ![r] = [@ EXCEPT !.term = t, !.failed = f]]
      PROVE  TypeOK'
  <2>1. [chan[r] EXCEPT !.term = t, !.failed = f]
          \in [sent : TextCount, term : Terms, failed : BOOLEAN]
    BY <1>0
  <2>2. [chan[r] EXCEPT !.term = t, !.failed = f].sent >= chan[r].sent
    BY <1>0 DEF TextCount
  <2>3. QED BY <1>2, <1>4, <2>1, <2>2
<1>5. chan[r].failed \in BOOLEAN
  BY DEF TypeOK
<1>6. CASE SendDone(r)
  <2>1. chan' = [chan EXCEPT ![r] = [@ EXCEPT !.term = "done", !.failed = chan[r].failed]]
    BY <1>6 DEF SendDone, TypeOK
  <2>2. QED BY <1>4, <1>5, <2>1 DEF Terms
<1>7. CASE SendError(r)
  <2>1. CASE Occupied(r) < ChanCap
    <3>1. chan' = [chan EXCEPT ![r] = [@ EXCEPT !.term = "error", !.failed = TRUE]]
      BY <1>0, <1>7, <2>1 DEF SendError
    <3>2. QED BY <1>4, <3>1 DEF Terms
  <2>2. CASE ~(Occupied(r) < ChanCap)
    <3>1. chan' = [chan EXCEPT ![r] = [@ EXCEPT !.term = "closed", !.failed = TRUE]]
      BY <1>0, <1>7, <2>2 DEF SendError
    <3>2. QED BY <1>4, <3>1 DEF Terms
  <2>3. QED BY <2>1, <2>2
<1>8. CASE CloseOnCancel(r)
  <2>1. chan' = [chan EXCEPT ![r] = [@ EXCEPT !.term = "closed", !.failed = chan[r].failed]]
    BY <1>8 DEF CloseOnCancel, TypeOK
  <2>2. QED BY <1>4, <1>5, <2>1 DEF Terms
<1>9. QED
  BY <1>3, <1>6, <1>7, <1>8 DEF ProviderStep

\* Every variable of the request path keeps its type, and the goroutine never
\* counts past what its provider sent (llm_service.go:165-316).
THEOREM TypeCorrect == Spec => []TypeOK
<1>1. TypeOK /\ [Next]_vars => TypeOK'
  <2> SUFFICES ASSUME TypeOK, [Next]_vars PROVE TypeOK'
    OBVIOUS
  <2>1. CASE ConfigStep /\ UNCHANGED crashed
    <3>1. ConfigTypeOK'
      BY <2>1, ConfigStepType
    <3>2. UNCHANGED <<requestVars, audit, emitted, crashed>>
      BY <2>1 DEF ConfigStep
    <3>3. QED
      BY <3>1, <3>2 DEF TypeOK, ConfigTypeOK, requestVars
  <2>2. ASSUME NEW r \in Requests,
               SendStep(r) \/ LoopStep(r) \/ ProviderStep(r)
        PROVE  TypeOK'
    BY <2>2, SendStepType, LoopStepType, ProviderStepType
  <2>3. ASSUME NEW r \in Requests, Expire(r) PROVE TypeOK'
    BY <2>3 DEF Expire, TypeOK, configVars
  <2>4. CASE UNCHANGED vars
    BY <2>4 DEF vars, configVars, requestVars, TypeOK
  <2>5. QED
    BY <2>1, <2>2, <2>3, <2>4 DEF Next
<1>2. QED
  BY InitType, <1>1, PTL DEF Spec

-----------------------------------------------------------------------------
(* One terminal event per request, and nothing after it.                   *)

\* The strengthening that is inductive: a request with a terminal event has
\* left the loop, which no step can take it back to.
TerminalInv ==
  /\ NothingAfterTerminalEvent
  /\ \A i \in 1..Len(emitted) :
       emitted[i].kind # "chunk" => stage[emitted[i].req] = "ended"

\* Events of one request, of which only the last may be terminal, can follow a
\* log that holds no terminal event of that request.
LEMMA EmitMore ==
  ASSUME TypeOK, TerminalInv, NEW r \in Requests, stage[r] # "ended",
         NEW s \in Seq(EventType), emitted' = emitted \o s,
         \A i \in 1..Len(s) : s[i].req = r,
         \A i \in 1..Len(s) : i < Len(s) => s[i].kind = "chunk",
         \A q \in Requests : stage[q] = "ended" => stage'[q] = "ended",
         \A i \in 1..Len(s) : s[i].kind # "chunk" => stage'[r] = "ended"
  PROVE  TerminalInv'
<1> DEFINE n == Len(emitted)
<1>1. /\ emitted \in Seq(EventType) /\ n \in Nat /\ Len(s) \in Nat
      /\ Len(emitted') = n + Len(s)
      /\ \A i \in 1..n : emitted'[i] = emitted[i]
      /\ \A i \in n+1..n+Len(s) : emitted'[i] = s[i - n] /\ i - n \in 1..Len(s)
  BY DEF TypeOK
<1>2. ASSUME NEW i \in 1..n PROVE emitted[i].req \in Requests
  <2>1. emitted[i] \in EventType
    BY <1>1
  <2>2. QED BY <2>1 DEF EventType
<1>3. ASSUME NEW i \in 1..n, emitted[i].req = r PROVE emitted[i].kind = "chunk"
  <2>1. emitted[i].kind # "chunk" => stage[emitted[i].req] = "ended"
    BY DEF TerminalInv
  <2>2. QED BY <1>3, <2>1
<1>4. ASSUME NEW i \in 1..Len(emitted'), NEW j \in 1..Len(emitted'),
             i < j, emitted'[i].req = emitted'[j].req
      PROVE  emitted'[i].kind = "chunk"
  <2>1. CASE j \in 1..n
    <3>1. i \in 1..n
      BY <1>1, <1>4, <2>1
    <3>2. QED
      BY <1>1, <1>4, <2>1, <3>1 DEF TerminalInv, NothingAfterTerminalEvent
  <2>2. CASE j \notin 1..n
    <3>1. j \in n+1..n+Len(s) /\ emitted'[j].req = r
      BY <1>1, <2>2
    <3>2. CASE i \in 1..n
      BY <1>1, <1>3, <1>4, <3>1, <3>2
    <3>3. CASE i \notin 1..n
      <4>1. i \in n+1..n+Len(s) /\ i - n < Len(s)
        BY <1>1, <1>4, <3>1, <3>3
      <4>2. QED
        BY <1>1, <4>1
    <3>4. QED BY <3>2, <3>3
  <2>3. QED BY <2>1, <2>2
<1>5. ASSUME NEW i \in 1..Len(emitted'), emitted'[i].kind # "chunk"
      PROVE  stage'[emitted'[i].req] = "ended"
  <2>1. CASE i \in 1..n
    BY <1>1, <1>2, <1>5, <2>1 DEF TerminalInv
  <2>2. CASE i \notin 1..n
    BY <1>1, <1>5, <2>2
  <2>3. QED BY <2>1, <2>2
<1>6. QED
  BY <1>4, <1>5 DEF TerminalInv, NothingAfterTerminalEvent

\* What the loop emits in one step, and from which stages.
LEMMA LoopStepEmits ==
  ASSUME TypeOK, NEW r \in Requests, LoopStep(r)
  PROVE  \/ UNCHANGED emitted
         \/ \E s \in Seq(EventType) :
              /\ emitted' = emitted \o s
              /\ \A i \in 1..Len(s) : s[i].req = r
              /\ \A i \in 1..Len(s) : i < Len(s) => s[i].kind = "chunk"
              /\ \A i \in 1..Len(s) : s[i].kind # "chunk" => stage'[r] = "ended"
<1>1. emitted \in Seq(EventType) /\ Flushed(r) \in Seq(EventType)
      /\ Len(Flushed(r)) \in {0, 1}
      /\ \A i \in 1..Len(Flushed(r)) : Flushed(r)[i].req = r /\ Flushed(r)[i].kind = "chunk"
  BY FlushFacts DEF TypeOK
<1>2. ASSUME NEW e \in EventType, e.req = r, stage'[r] = "ended",
             NEW f \in Seq(EventType), f = << >> \/ f = Flushed(r),
             emitted' = emitted \o f \o << e >>
      PROVE  \E s \in Seq(EventType) :
              /\ emitted' = emitted \o s
              /\ \A i \in 1..Len(s) : s[i].req = r
              /\ \A i \in 1..Len(s) : i < Len(s) => s[i].kind = "chunk"
              /\ \A i \in 1..Len(s) : s[i].kind # "chunk" => stage'[r] = "ended"
  <2> DEFINE s == f \o << e >>
  <2>0. f \in Seq(EventType) /\ e \in EventType
    BY <1>2
  <2>1. s \in Seq(EventType) /\ Len(s) = Len(f) + 1 /\ Len(f) \in Nat
        /\ \A i \in 1..Len(s) : s[i] = IF i <= Len(f) THEN f[i] ELSE e
    BY <2>0
  <2>2. \A i \in 1..Len(f) : f[i].req = r /\ f[i].kind = "chunk"
    BY <1>1, <1>2
  <2>3. emitted' = emitted \o s
    BY <1>1, <1>2
  <2>4. /\ \A i \in 1..Len(s) : s[i].req = r
        /\ \A i \in 1..Len(s) : i < Len(s) => s[i].kind = "chunk"
    BY <1>2, <2>1, <2>2
  <2>5. QED BY <1>2, <2>1, <2>3, <2>4
<1>3. CASE StartStream(r)
  <2> DEFINE e == Event("error", r, 0, 0, 0)
  <2>1. CASE stage' = [stage EXCEPT ![r] = "ended"] /\ emitted' = Append(emitted, e)
    <3>1. e \in EventType /\ e.req = r
      BY LLMAssumption DEF Event, EventType, TextCount
    <3>2. emitted' = emitted \o << >> \o << e >>
      BY <1>1, <2>1, <3>1
    <3>3. stage'[r] = "ended"
      BY <2>1 DEF TypeOK
    <3>4. << >> \in Seq(EventType)
      OBVIOUS
    <3>5. QED BY <1>2, <3>1, <3>2, <3>3, <3>4
  <2>2. QED
    BY <1>3, <2>1 DEF StartStream
<1>4. CASE ReceiveDone(r)
  <2> DEFINE e == Event("done", r, NextSeq(r), 0, 0)
  <2>1. e \in EventType /\ e.req = r
    BY FlushFacts, LLMAssumption DEF Event, EventType, TextCount
  <2>2. stage'[r] = "ended" /\ emitted' = emitted \o Flushed(r) \o << e >>
    BY <1>4 DEF ReceiveDone, TypeOK
  <2>3. QED BY <1>1, <1>2, <2>1, <2>2
<1>5. CASE ReceiveError(r)
  <2> DEFINE e == Event("error", r, NextSeq(r), 0, 0)
  <2>1. e \in EventType /\ e.req = r
    BY FlushFacts, LLMAssumption DEF Event, EventType, TextCount
  <2>2. stage'[r] = "ended" /\ emitted' = emitted \o Flushed(r) \o << e >>
    BY <1>5 DEF ReceiveError, TypeOK
  <2>3. QED BY <1>1, <1>2, <2>1, <2>2
<1>6. CASE Tick(r)
  <2>1. emitted' = emitted \o Flushed(r)
    BY <1>6 DEF Tick
  <2>2. QED BY <1>1, <2>1
<1>7. QED
  BY <1>3, <1>4, <1>5, <1>6
  DEF LoopStep, StreamOnNil, ReceiveText, Abandon

\* Every step keeps a terminal event the last of its request.
LEMMA TerminalInvHolds == Spec => []TerminalInv
<1>1. Init => TerminalInv
  BY DEF Init, TerminalInv, NothingAfterTerminalEvent
<1>2. TypeOK /\ TerminalInv /\ [Next]_vars => TerminalInv'
  <2> SUFFICES ASSUME TypeOK, TerminalInv, [Next]_vars PROVE TerminalInv'
    OBVIOUS
  <2> DEFINE Kept == \A q \in Requests : stage[q] = "ended" => stage'[q] = "ended"
  <2>1. ASSUME Kept, UNCHANGED emitted PROVE TerminalInv'
    <3>1. ASSUME NEW i \in 1..Len(emitted) PROVE emitted[i].req \in Requests
      <4>1. emitted[i] \in EventType
        BY DEF TypeOK
      <4>2. QED BY <4>1 DEF EventType
    <3>2. NothingAfterTerminalEvent'
      BY <2>1 DEF TerminalInv, NothingAfterTerminalEvent
    <3>3. ASSUME NEW i \in 1..Len(emitted), emitted[i].kind # "chunk"
          PROVE  stage'[emitted[i].req] = "ended"
      <4>1. stage[emitted[i].req] = "ended"
        BY <3>3 DEF TerminalInv
      <4>2. QED BY <2>1, <3>1, <4>1
    <3>4. QED
      BY <2>1, <3>2, <3>3 DEF TerminalInv
  <2>2. CASE ConfigStep \/ UNCHANGED vars
    BY <2>1, <2>2 DEF ConfigStep, vars, requestVars
  <2>3. ASSUME NEW r \in Requests, SendStep(r) PROVE TerminalInv'
    BY <2>1, <2>3 DEF SendStep, SeeProvider, CheckRequest, AuditUserMessage, TypeOK
  <2>4. ASSUME NEW r \in Requests, ProviderStep(r) \/ Expire(r) PROVE TerminalInv'
    BY <2>1, <2>4 DEF ProviderStep, Expire
  <2>5. ASSUME NEW r \in Requests, LoopStep(r) PROVE TerminalInv'
    <3>1. Kept /\ (stage[r] = "ended" => UNCHANGED emitted)
      BY <2>5 DEF LoopStep, StartStream, StreamOnNil, ReceiveText, ReceiveDone,
                  ReceiveError, Tick, Abandon, TypeOK, requestVars
    <3>2. CASE UNCHANGED emitted
      BY <2>1, <3>1, <3>2
    <3>3. CASE ~UNCHANGED emitted
      <4>1. stage[r] # "ended"
        BY <3>1, <3>3
      <4>2. PICK s \in Seq(EventType) :
              /\ emitted' = emitted \o s
              /\ \A i \in 1..Len(s) : s[i].req = r
              /\ \A i \in 1..Len(s) : i < Len(s) => s[i].kind = "chunk"
              /\ \A i \in 1..Len(s) : s[i].kind # "chunk" => stage'[r] = "ended"
        BY <2>5, <3>3, LoopStepEmits
      <4>3. QED
        BY <3>1, <4>1, <4>2, EmitMore
    <3>4. QED BY <3>2, <3>3
  <2>6. QED
    BY <2>2, <2>3, <2>4, <2>5 DEF Next
<1>3. QED
  BY <1>1, <1>2, TypeCorrect, PTL DEF Spec

\* llm:done or llm:error is the last event of its request
\* (llm_service.go:282-312), whatever the interleaving with other requests.
THEOREM TerminalEventIsLast == Spec => []NothingAfterTerminalEvent
<1>1. TerminalInv => NothingAfterTerminalEvent
  BY DEF TerminalInv
<1>2. QED
  BY <1>1, TerminalInvHolds, PTL

-----------------------------------------------------------------------------
(* A request reaches a provider only after its text was audited.           *)

\* The strengthening ties the log and the target to the stage: the user's text
\* is logged on the way to "launched", a target exists only from "streaming" on.
AuditInv ==
  \A r \in Requests :
    /\ stage[r] \in {"launched", "streaming", "ended"} => UserMessage(r) \in audit
    /\ UserMessage(r) \in audit => stage[r] \in {"launched", "streaming", "ended"}
    /\ target[r] # NoProvider => stage[r] \in {"streaming", "ended"}
    /\ PolicyDenied(r) \in audit => stage[r] = "rejected"

\* The entries of different events or requests differ.
LEMMA EntriesDiffer ==
  ASSUME NEW r \in Requests, NEW q \in Requests, NEW n
  PROVE  /\ UserMessage(r) # PolicyDenied(q)
         /\ UserMessage(r) # AIResponse(q, n)
         /\ PolicyDenied(r) # AIResponse(q, n)
         /\ UserMessage(r) = UserMessage(q) => r = q
         /\ PolicyDenied(r) = PolicyDenied(q) => r = q
<1>1. /\ UserMessage(r).event = "user_message" /\ UserMessage(r).req = r
      /\ PolicyDenied(r).event = "llm_policy_denied" /\ PolicyDenied(r).req = r
      /\ UserMessage(q).req = q /\ PolicyDenied(q).event = "llm_policy_denied"
      /\ PolicyDenied(q).req = q /\ AIResponse(q, n).event = "ai_response"
  BY DEF UserMessage, PolicyDenied, AIResponse
<1>2. "user_message" # "llm_policy_denied" /\ "user_message" # "ai_response"
      /\ "llm_policy_denied" # "ai_response"
  OBVIOUS
<1>3. QED BY <1>1, <1>2

\* What a step does to one request: it stays, or it moves one stage on.
LEMMA AuditStep ==
  ASSUME TypeOK, AuditInv, NEW q \in Requests,
         SendStep(q) \/ LoopStep(q)
  PROVE  AuditInv'
<1> SUFFICES ASSUME NEW r \in Requests
    PROVE  /\ stage'[r] \in {"launched", "streaming", "ended"} => UserMessage(r) \in audit'
           /\ UserMessage(r) \in audit' => stage'[r] \in {"launched", "streaming", "ended"}
           /\ target'[r] # NoProvider => stage'[r] \in {"streaming", "ended"}
           /\ PolicyDenied(r) \in audit' => stage'[r] = "rejected"
  BY DEF AuditInv, UserMessage, PolicyDenied
<1>1. /\ stage[r] \in {"launched", "streaming", "ended"} => UserMessage(r) \in audit
      /\ UserMessage(r) \in audit => stage[r] \in {"launched", "streaming", "ended"}
      /\ target[r] # NoProvider => stage[r] \in {"streaming", "ended"}
      /\ PolicyDenied(r) \in audit => stage[r] = "rejected"
  BY DEF AuditInv
<1>2. /\ stage \in [Requests -> Stages] /\ DOMAIN target = Requests
  BY DEF TypeOK
<1>3. /\ UserMessage(r) # PolicyDenied(q)
      /\ PolicyDenied(r) # UserMessage(q)
      /\ UserMessage(r) # AIResponse(q, Received(q))
      /\ PolicyDenied(r) # AIResponse(q, Received(q))
      /\ UserMessage(r) = UserMessage(q) => r = q
      /\ PolicyDenied(r) = PolicyDenied(q) => r = q
  BY EntriesDiffer
<1>4. CASE SeeProvider(q)
  BY <1>1, <1>2, <1>4 DEF SeeProvider
<1>5. CASE CheckRequest(q)
  BY <1>1, <1>2, <1>3, <1>5 DEF CheckRequest
<1>6. CASE AuditUserMessage(q)
  BY <1>1, <1>2, <1>3, <1>6 DEF AuditUserMessage
<1>7. CASE StartStream(q)
  BY <1>1, <1>2, <1>7 DEF StartStream
<1>8. CASE ReceiveDone(q)
  <2>1. audit' = audit \cup {AIResponse(q, Received(q))}
        /\ stage[q] = "streaming" /\ stage' = [stage EXCEPT ![q] = "ended"]
        /\ target' = target
    BY <1>8 DEF ReceiveDone
  <2>2. QED BY <1>1, <1>2, <1>3, <2>1
<1>9. CASE ReceiveError(q) \/ Abandon(q)
  <2>1. audit' = audit /\ target' = target
        /\ stage[q] = "streaming" /\ stage' = [stage EXCEPT ![q] = "ended"]
    BY <1>9 DEF ReceiveError, Abandon
  <2>2. QED BY <1>1, <1>2, <2>1
<1>10. CASE StreamOnNil(q) \/ ReceiveText(q) \/ Tick(q)
  BY <1>1, <1>10 DEF StreamOnNil, ReceiveText, Tick, requestVars
<1>11. QED
  BY <1>4, <1>5, <1>6, <1>7, <1>8, <1>9, <1>10 DEF SendStep, LoopStep

\* A refused request leaves no user text in the audit log and one that reaches
\* a provider was logged first (llm_service.go:183-185, 233), under every
\* interleaving with saves, hand edits and other requests.
THEOREM RequestsAreAudited == Spec => []OnlyAuditedRequestsStream
<1>1. Init => AuditInv
  BY DEF Init, AuditInv
<1>2. TypeOK /\ AuditInv /\ [Next]_vars => AuditInv'
  <2> SUFFICES ASSUME TypeOK, AuditInv, [Next]_vars PROVE AuditInv'
    OBVIOUS
  <2>1. ASSUME UNCHANGED <<stage, target, audit>> PROVE AuditInv'
    BY <2>1 DEF AuditInv, UserMessage, PolicyDenied
  <2>2. CASE ConfigStep \/ UNCHANGED vars
    BY <2>1, <2>2 DEF ConfigStep, vars, requestVars
  <2>3. ASSUME NEW r \in Requests, SendStep(r) \/ LoopStep(r) PROVE AuditInv'
    BY <2>3, AuditStep
  <2>4. ASSUME NEW r \in Requests, ProviderStep(r) \/ Expire(r) PROVE AuditInv'
    BY <2>1, <2>4 DEF ProviderStep, Expire
  <2>5. QED
    BY <2>2, <2>3, <2>4 DEF Next
<1>3. AuditInv => OnlyAuditedRequestsStream
  BY DEF AuditInv, OnlyAuditedRequestsStream
<1>4. QED
  BY TypeCorrect, <1>1, <1>2, <1>3, PTL DEF Spec

-----------------------------------------------------------------------------
(* What llm:done ends is whole.                                            *)

Chunk(i) == emitted[i].kind = "chunk"

\* The chunks of a request carry the text flushed so far, in order and without a
\* gap or an overlap, and after llm:done nothing is left to flush.
WholeInv ==
  /\ \A i \in 1..Len(emitted) : Chunk(i) =>
       /\ emitted[i].first <= emitted[i].last
       /\ emitted[i].last <= loop[emitted[i].req].flushed
  /\ \A i, j \in 1..Len(emitted) :
       Chunk(i) /\ Chunk(j) /\ i < j /\ emitted[i].req = emitted[j].req
         => emitted[i].last < emitted[j].first
  /\ \A r \in Requests : \A n \in 1..loop[r].flushed :
       \E i \in 1..Len(emitted) : /\ Chunk(i) /\ emitted[i].req = r
                                  /\ emitted[i].first <= n /\ n <= emitted[i].last
  /\ \A i \in 1..Len(emitted) : LET r == emitted[i].req IN emitted[i].kind = "done" =>
       loop[r].flushed = Received(r) /\ AIResponse(r, Received(r)) \in audit

\* A step that emits nothing and flushes nothing, and receives nothing after an end.
LEMMA WholeKept ==
  ASSUME TypeOK, WholeInv, UNCHANGED emitted, audit \subseteq audit',
         \A r \in Requests : loop'[r].flushed = loop[r].flushed,
         \A i \in 1..Len(emitted) : emitted[i].kind = "done" =>
            loop'[emitted[i].req].received = loop[emitted[i].req].received
  PROVE  WholeInv'
<1>1. ASSUME NEW i \in 1..Len(emitted) PROVE emitted[i].req \in Requests
  <2>1. emitted[i] \in EventType
    BY DEF TypeOK
  <2>2. QED BY <2>1 DEF EventType
<1>2. \A i : Chunk(i)' <=> Chunk(i)
  BY DEF Chunk
<1>3. \A i \in 1..Len(emitted) : LET r == emitted[i].req IN emitted[i].kind = "done" =>
        loop'[r].flushed = Received(r)' /\ AIResponse(r, Received(r)') \in audit'
  BY <1>1 DEF WholeInv, Received
<1>4. QED
  BY <1>1, <1>2, <1>3 DEF WholeInv, AIResponse, Received

\* A step that emits for a request that has not ended: one chunk of all that was
\* received and not flushed, or no chunk and nothing flushed; llm:done when all
\* is flushed and recorded.
LEMMA WholeGrows ==
  ASSUME TypeOK, TypeOK', TerminalInv, WholeInv, NEW r \in Requests, stage[r] # "ended",
         NEW s \in Seq(EventType), emitted' = emitted \o s,
         \A i \in 1..Len(s) : s[i].req = r,
         \A q \in Requests \ {r} : loop'[q] = loop[q],
         audit \subseteq audit',
         loop[r].flushed <= loop'[r].flushed,
         \A i \in 1..Len(s) : s[i].kind = "chunk" =>
            /\ i = 1 /\ s[1].first = loop[r].flushed + 1 /\ s[1].last = loop'[r].flushed
            /\ s[1].first <= s[1].last,
         loop'[r].flushed # loop[r].flushed => Len(s) >= 1 /\ s[1].kind = "chunk",
         \A i \in 1..Len(s) : s[i].kind = "done" =>
            loop'[r].flushed = loop'[r].received /\ AIResponse(r, loop'[r].received) \in audit'
  PROVE  WholeInv'
<1> DEFINE n == Len(emitted)
<1>1. /\ n \in Nat /\ Len(s) \in Nat /\ Len(emitted') = n + Len(s)
      /\ \A i \in 1..n : emitted'[i] = emitted[i]
      /\ \A i \in n+1..n+Len(s) : emitted'[i] = s[i - n] /\ i - n \in 1..Len(s)
  BY DEF TypeOK
<1>2. ASSUME NEW i \in 1..n
      PROVE  /\ emitted[i].req \in Requests
             /\ emitted[i].first \in Nat /\ emitted[i].last \in Nat
  <2>1. emitted[i] \in EventType
    BY DEF TypeOK
  <2>2. QED BY <2>1, LLMAssumption DEF EventType, TextCount
<1>3. ASSUME NEW i \in 1..n, emitted[i].req = r PROVE Chunk(i)
  BY <1>2, <1>3 DEF TerminalInv, Chunk
<1>4. \A q \in Requests : loop[q].flushed \in Nat /\ loop'[q].flushed \in Nat
                          /\ loop[q].flushed <= loop'[q].flushed
  <2>1. \A q \in Requests : loop[q].flushed \in TextCount /\ loop'[q].flushed \in TextCount
    BY DEF TypeOK
  <2>2. QED BY <2>1, LLMAssumption DEF TextCount
<1>5. ASSUME NEW i \in 1..Len(emitted'), Chunk(i)'
      PROVE  \/ i \in 1..n /\ Chunk(i) /\ emitted'[i] = emitted[i]
             \/ /\ i = n + 1 /\ emitted'[i].req = r
                /\ emitted'[i].first = loop[r].flushed + 1 /\ emitted'[i].last = loop'[r].flushed
                /\ emitted'[i].first <= emitted'[i].last
  <2>1. CASE i \in 1..n
    BY <1>1, <1>5, <2>1 DEF Chunk
  <2>2. CASE i \notin 1..n
    <3>1. i \in n+1..n+Len(s) /\ emitted'[i] = s[i - n] /\ i - n \in 1..Len(s)
      BY <1>1, <2>2
    <3>2. s[i - n].kind = "chunk"
      BY <1>5, <3>1 DEF Chunk
    <3>3. i - n = 1
      BY <3>1, <3>2
    <3>4. QED BY <1>1, <3>1, <3>2, <3>3
  <2>3. QED BY <2>1, <2>2
<1>6. ASSUME NEW i \in 1..Len(emitted'), Chunk(i)'
      PROVE  /\ emitted'[i].first <= emitted'[i].last
             /\ emitted'[i].last <= loop'[emitted'[i].req].flushed
  <2>1. CASE i \in 1..n /\ Chunk(i) /\ emitted'[i] = emitted[i]
    <3> DEFINE q == emitted[i].req
    <3>1. q \in Requests /\ emitted[i].last \in Nat
      BY <1>2, <2>1
    <3>2. emitted[i].first <= emitted[i].last /\ emitted[i].last <= loop[q].flushed
      BY <2>1 DEF WholeInv
    <3>3. loop[q].flushed \in Nat /\ loop'[q].flushed \in Nat /\ loop[q].flushed <= loop'[q].flushed
      BY <1>4, <3>1
    <3>4. emitted[i].last <= loop'[q].flushed
      BY <3>1, <3>2, <3>3
    <3>5. QED BY <2>1, <3>2, <3>4
  <2>2. CASE emitted'[i].req = r /\ emitted'[i].last = loop'[r].flushed
             /\ emitted'[i].first <= emitted'[i].last
    BY <1>4, <2>2
  <2>3. QED BY <1>5, <1>6, <2>1, <2>2
<1>7. ASSUME NEW i \in 1..Len(emitted'), NEW j \in 1..Len(emitted'), Chunk(i)', Chunk(j)',
             i < j, emitted'[i].req = emitted'[j].req
      PROVE  emitted'[i].last < emitted'[j].first
  <2>1. i \in 1..n /\ Chunk(i) /\ emitted'[i] = emitted[i]
    BY <1>1, <1>5, <1>7
  <2>2. CASE j \in 1..n /\ Chunk(j) /\ emitted'[j] = emitted[j]
    BY <1>7, <2>1, <2>2 DEF WholeInv
  <2>3. CASE emitted'[j].req = r /\ emitted'[j].first = loop[r].flushed + 1
    <3>1. emitted[i].last <= loop[r].flushed
      BY <1>7, <2>1, <2>3 DEF WholeInv
    <3>2. emitted[i].last \in Nat /\ loop[r].flushed \in Nat
      BY <1>2, <1>4, <2>1
    <3>3. emitted[i].last < loop[r].flushed + 1
      BY <3>1, <3>2
    <3>4. QED BY <2>1, <2>3, <3>3
  <2>4. QED BY <1>5, <1>7, <2>2, <2>3
<1>8. ASSUME NEW q \in Requests, NEW m \in 1..loop'[q].flushed
      PROVE  \E i \in 1..Len(emitted') : /\ Chunk(i)' /\ emitted'[i].req = q
                                         /\ emitted'[i].first <= m /\ m <= emitted'[i].last
  <2>1. CASE m \in 1..loop[q].flushed
    <3>1. PICK i \in 1..n : /\ Chunk(i) /\ emitted[i].req = q
                            /\ emitted[i].first <= m /\ m <= emitted[i].last
      BY <2>1 DEF WholeInv
    <3>2. i \in 1..Len(emitted') /\ emitted'[i] = emitted[i]
      BY <1>1
    <3>3. QED BY <3>1, <3>2 DEF Chunk
  <2>2. CASE m \notin 1..loop[q].flushed
    <3>1. q = r /\ loop'[r].flushed # loop[r].flushed /\ m > loop[r].flushed
      BY <1>4, <2>2
    <3>2. Len(s) >= 1 /\ s[1].kind = "chunk" /\ 1 \in 1..Len(s)
      BY <1>1, <3>1
    <3>3. n + 1 \in 1..Len(emitted') /\ emitted'[n + 1] = s[1]
      BY <1>1, <3>2
    <3>4. s[1].first = loop[r].flushed + 1 /\ s[1].last = loop'[r].flushed /\ s[1].req = r
      BY <3>2
    <3>5. s[1].first <= m /\ m <= s[1].last
      BY <1>4, <3>1, <3>4
    <3>6. QED BY <3>1, <3>2, <3>3, <3>4, <3>5 DEF Chunk
  <2>3. QED BY <2>1, <2>2
<1>9. ASSUME NEW i \in 1..Len(emitted'), emitted'[i].kind = "done"
      PROVE  LET q == emitted'[i].req IN
             loop'[q].flushed = loop'[q].received /\ AIResponse(q, loop'[q].received) \in audit'
  <2>1. CASE i \in 1..n
    <3>1. emitted'[i] = emitted[i] /\ emitted[i].req # r
      BY <1>1, <1>3, <1>9, <2>1 DEF Chunk
    <3>2. QED BY <1>2, <1>9, <2>1, <3>1 DEF WholeInv, Received
  <2>2. CASE i \notin 1..n
    BY <1>1, <1>9, <2>2
  <2>3. QED BY <2>1, <2>2
<1>10. QED
  BY <1>6, <1>7, <1>8, <1>9 DEF WholeInv, Received, AIResponse

\* What a flush emits, with one more event after it or none.
LEMMA FlushGrows ==
  ASSUME TypeOK, TypeOK', TerminalInv, WholeInv, NEW r \in Requests, stage[r] = "streaming",
         Flush(r), NEW t \in Seq(EventType), Len(t) \in {0, 1}, emitted' = emitted \o (Flushed(r) \o t),
         \A i \in 1..Len(t) : t[i].req = r /\ t[i].kind # "chunk",
         audit \subseteq audit',
         \A i \in 1..Len(t) : t[i].kind = "done" => AIResponse(r, Received(r)) \in audit'
  PROVE  WholeInv'
<1> DEFINE f == Flushed(r)
           s == f \o t
<1>1. /\ loop[r].flushed \in Nat /\ Received(r) \in Nat /\ loop[r].flushed <= Received(r)
  BY LLMAssumption DEF TypeOK, TextCount, Received
<1>2. /\ loop'[r].flushed = Received(r) /\ loop'[r].received = Received(r)
      /\ \A q \in Requests \ {r} : loop'[q] = loop[q]
  BY DEF Flush, TypeOK, Received
<1>3. f \in Seq(EventType) /\ Len(f) \in {0, 1}
  BY FlushFacts
<1>4. /\ Len(f) = 0 <=> loop[r].flushed = Received(r)
      /\ Len(f) = 1 => /\ f[1].kind = "chunk" /\ f[1].req = r
                       /\ f[1].first = loop[r].flushed + 1 /\ f[1].last = Received(r)
  BY DEF Flushed, Event
<1> HIDE DEF f
<1>5. /\ s \in Seq(EventType) /\ Len(s) = Len(f) + Len(t)
      /\ \A i \in 1..Len(s) : s[i] = IF i <= Len(f) THEN f[i] ELSE t[i - Len(f)]
  BY <1>3
<1>6. \A i \in 1..Len(s) : \/ i = 1 /\ Len(f) = 1 /\ s[i] = f[1]
                           \/ i - Len(f) \in 1..Len(t) /\ s[i] = t[i - Len(f)]
  BY <1>3, <1>5
<1>7. emitted' = emitted \o s
  BY DEF f
<1> HIDE DEF s
<1>8. \A i \in 1..Len(s) : s[i].req = r
  BY <1>4, <1>6
<1>9. \A i \in 1..Len(s) : s[i].kind = "chunk" =>
        /\ i = 1 /\ s[1].first = loop[r].flushed + 1 /\ s[1].last = loop'[r].flushed
        /\ s[1].first <= s[1].last
  <2>1. ASSUME NEW i \in 1..Len(s), s[i].kind = "chunk"
        PROVE  i = 1 /\ Len(f) = 1 /\ s[1] = f[1]
    BY <1>6, <2>1
  <2>2. Len(f) = 1 => loop[r].flushed + 1 <= Received(r)
    BY <1>1, <1>4
  <2>3. QED BY <1>2, <1>4, <2>1, <2>2
<1>10. loop'[r].flushed # loop[r].flushed => Len(s) >= 1 /\ s[1].kind = "chunk"
  <2>1. SUFFICES ASSUME Len(f) = 1 PROVE Len(s) >= 1 /\ s[1].kind = "chunk"
    BY <1>2, <1>3, <1>4
  <2>2. Len(s) >= 1 /\ s[1] = f[1]
    BY <1>5, <2>1
  <2>3. QED BY <1>4, <2>1, <2>2
<1>11. \A i \in 1..Len(s) : s[i].kind = "done" =>
        loop'[r].flushed = loop'[r].received /\ AIResponse(r, loop'[r].received) \in audit'
  BY <1>2, <1>4, <1>6
<1>12. stage[r] # "ended" /\ loop[r].flushed <= loop'[r].flushed
  BY <1>1, <1>2
<1>13. QED
  BY <1>2, <1>5, <1>7, <1>8, <1>9, <1>10, <1>11, <1>12, WholeGrows

LEMMA WholeLoopStep ==
  ASSUME TypeOK, TypeOK', TerminalInv, WholeInv, NEW r \in Requests, LoopStep(r)
  PROVE  WholeInv'
<1>1. ASSUME UNCHANGED emitted, audit' = audit,
             \/ loop' = loop
             \/ stage[r] = "streaming" /\ loop' = [loop EXCEPT ![r].received = @ + 1]
      PROVE  WholeInv'
  <2>1. ASSUME NEW i \in 1..Len(emitted), emitted[i].kind = "done"
        PROVE  loop'[emitted[i].req].received = loop[emitted[i].req].received
    <3>1. emitted[i].req \in Requests
      <4>1. emitted[i] \in EventType
        BY DEF TypeOK
      <4>2. QED BY <4>1 DEF EventType
    <3>2. stage[emitted[i].req] = "ended"
      BY <2>1 DEF TerminalInv
    <3>3. QED BY <1>1, <3>1, <3>2 DEF TypeOK
  <2>2. ASSUME NEW q \in Requests
        PROVE  loop'[q].flushed = loop[q].flushed
    <3>1. loop \in [Requests -> [received : TextCount, flushed : TextCount, seq : TextCount]]
      BY DEF TypeOK
    <3>2. CASE loop' = loop
      BY <3>2
    <3>3. CASE loop' = [loop EXCEPT ![r].received = @ + 1]
      <4>1. CASE q = r
        BY <3>1, <3>3, <4>1
      <4>2. CASE q # r
        BY <3>1, <3>3, <4>2
      <4>3. QED BY <4>1, <4>2
    <3>4. QED BY <1>1, <3>2, <3>3
  <2>3. QED BY <1>1, <2>1, <2>2, WholeKept
<1>2. emitted \in Seq(EventType) /\ Flushed(r) \in Seq(EventType)
  BY FlushFacts DEF TypeOK
<1>3. CASE StartStream(r)
  <2> DEFINE e == Event("error", r, 0, 0, 0)
             s == << e >>
  <2>1. e \in EventType /\ e.req = r /\ e.kind = "error"
    BY LLMAssumption DEF Event, EventType, TextCount
  <2>2. CASE emitted' = Append(emitted, e)
    <3>1. s \in Seq(EventType) /\ Len(s) = 1 /\ s[1] = e /\ emitted' = emitted \o s
      BY <1>2, <2>1, <2>2
    <3>2. stage[r] # "ended" /\ loop' = loop /\ audit' = audit
      BY <1>3 DEF StartStream
    <3>3. loop[r].flushed <= loop'[r].flushed
      BY <3>2, LLMAssumption DEF TypeOK, TextCount
    <3> HIDE DEF s, e
    <3>4. \A i \in 1..Len(s) : s[i] = e
      BY <3>1
    <3>5. loop'[r].flushed = loop[r].flushed
      BY <3>2
    <3>6. \A i \in 1..Len(s) : s[i].req = r /\ s[i].kind # "chunk" /\ s[i].kind # "done"
      BY <2>1, <3>4
    <3>7. QED BY <3>1, <3>2, <3>3, <3>5, <3>6, WholeGrows
  <2>3. CASE UNCHANGED emitted
    BY <1>1, <1>3, <2>3 DEF StartStream
  <2>4. QED BY <1>3, <2>2, <2>3 DEF StartStream
<1>4. ASSUME NEW kind \in {"done", "error"}, stage[r] = "streaming", Flush(r),
             emitted' = emitted \o Flushed(r) \o << Event(kind, r, NextSeq(r), 0, 0) >>,
             audit \subseteq audit', kind = "done" => AIResponse(r, Received(r)) \in audit'
      PROVE  WholeInv'
  <2> DEFINE e == Event(kind, r, NextSeq(r), 0, 0)
             t == << e >>
  <2>1. e \in EventType /\ e.req = r /\ e.kind = kind
    BY FlushFacts, LLMAssumption DEF Event, EventType, TextCount
  <2>2. t \in Seq(EventType) /\ Len(t) = 1 /\ t[1] = e
    BY <2>1
  <2>3. emitted' = emitted \o (Flushed(r) \o t)
    BY <1>2, <1>4, <2>2
  <2> HIDE DEF t, e
  <2>4. \A i \in 1..Len(t) : t[i].req = r /\ t[i].kind # "chunk" /\ t[i].kind = kind
    BY <2>1, <2>2
  <2>5. Len(t) \in {0, 1}
    BY <2>2
  <2>6. \A i \in 1..Len(t) : t[i].kind = "done" => AIResponse(r, Received(r)) \in audit'
    BY <1>4, <2>4
  <2>7. QED BY <1>4, <2>2, <2>3, <2>4, <2>5, <2>6, FlushGrows
<1>5. CASE ReceiveDone(r)
  <2>1. audit \subseteq audit' /\ AIResponse(r, Received(r)) \in audit'
    BY <1>5 DEF ReceiveDone
  <2>2. QED BY <1>4, <1>5, <2>1 DEF ReceiveDone
<1>6. CASE ReceiveError(r)
  BY <1>4, <1>6 DEF ReceiveError
<1>7. CASE Tick(r)
  <2> DEFINE t == << >>
  <2>1. t \in Seq(EventType) /\ Len(t) = 0 /\ 1..Len(t) = {}
    OBVIOUS
  <2>2. emitted' = emitted \o (Flushed(r) \o t)
    BY <1>2, <1>7 DEF Tick
  <2>3. stage[r] = "streaming" /\ Flush(r) /\ audit \subseteq audit'
    BY <1>7 DEF Tick
  <2> HIDE DEF t
  <2>4. Len(t) \in {0, 1} /\ \A i \in 1..Len(t) : FALSE
    BY <2>1
  <2>5. QED BY <2>1, <2>2, <2>3, <2>4, FlushGrows
<1>8. CASE StreamOnNil(r) \/ Abandon(r) \/ ReceiveText(r)
  <2>1. UNCHANGED emitted /\ audit' = audit
    BY <1>8 DEF StreamOnNil, Abandon, ReceiveText
  <2>2. \/ loop' = loop
        \/ stage[r] = "streaming" /\ loop' = [loop EXCEPT ![r].received = @ + 1]
    BY <1>8 DEF StreamOnNil, Abandon, ReceiveText, requestVars
  <2>3. QED BY <1>1, <2>1, <2>2
<1>9. QED
  BY <1>3, <1>5, <1>6, <1>7, <1>8 DEF LoopStep

\* When llm:done is emitted the chunks before it carry every piece of the text received,
\* each once, and the log's ai_response entry is that text (llm_service.go:285-303).
THEOREM DoneIsWhole == Spec => []DoneIsWholeAndAudited
<1>1. Init => WholeInv
  BY DEF Init, WholeInv, Chunk
<1>2. TypeOK /\ TypeOK' /\ TerminalInv /\ WholeInv /\ [Next]_vars => WholeInv'
  <2> SUFFICES ASSUME TypeOK, TypeOK', TerminalInv, WholeInv, [Next]_vars PROVE WholeInv'
    OBVIOUS
  <2>1. CASE ConfigStep \/ UNCHANGED vars
    BY <2>1, WholeKept DEF ConfigStep, vars, requestVars
  <2>2. ASSUME NEW r \in Requests, SendStep(r) \/ ProviderStep(r) \/ Expire(r) PROVE WholeInv'
    BY <2>2, WholeKept DEF SendStep, SeeProvider, CheckRequest, AuditUserMessage, ProviderStep, Expire
  <2>3. ASSUME NEW r \in Requests, LoopStep(r) PROVE WholeInv'
    BY <2>3, WholeLoopStep
  <2>4. QED BY <2>1, <2>2, <2>3 DEF Next
<1>3. TypeOK /\ TerminalInv /\ WholeInv => DoneIsWholeAndAudited
  <2> SUFFICES ASSUME TypeOK, TerminalInv, WholeInv, NEW i \in 1..Len(emitted),
                      emitted[i].kind = "done"
               PROVE  LET r == emitted[i].req
                          mine == {j \in 1..i-1 : emitted[j].req = r}
                      IN /\ AIResponse(r, Received(r)) \in audit
                         /\ \A n \in 1..Received(r) : \E j \in mine :
                              /\ emitted[j].first <= n /\ n <= emitted[j].last
                              /\ \A k \in mine \ {j} : n < emitted[k].first \/ emitted[k].last < n
    BY DEF DoneIsWholeAndAudited
  <2> DEFINE r == emitted[i].req
             mine == {j \in 1..i-1 : emitted[j].req = r}
  <2>1. ASSUME NEW j \in 1..Len(emitted)
        PROVE  /\ emitted[j].req \in Requests
               /\ emitted[j].first \in Nat /\ emitted[j].last \in Nat
    <3>1. emitted[j] \in EventType
      BY DEF TypeOK
    <3>2. QED BY <3>1, LLMAssumption DEF EventType, TextCount
  <2>2. loop[r].flushed = Received(r) /\ AIResponse(r, Received(r)) \in audit
    BY DEF WholeInv
  <2>3. \A k \in mine : k \in 1..Len(emitted) /\ Chunk(k) /\ emitted[k].req = r
    BY DEF TerminalInv, NothingAfterTerminalEvent, Chunk
  <2>4. ASSUME NEW n \in 1..Received(r)
        PROVE  \E j \in mine : /\ emitted[j].first <= n /\ n <= emitted[j].last
                               /\ \A k \in mine \ {j} : n < emitted[k].first \/ emitted[k].last < n
    <3>1. PICK j \in 1..Len(emitted) : /\ Chunk(j) /\ emitted[j].req = r
                                       /\ emitted[j].first <= n /\ n <= emitted[j].last
      BY <2>1, <2>2 DEF WholeInv
    <3>2. j # i /\ ~(i < j)
      BY <3>1 DEF TerminalInv, NothingAfterTerminalEvent, Chunk
    <3>3. j \in mine
      BY <3>1, <3>2
    <3>4. ASSUME NEW k \in mine \ {j} PROVE n < emitted[k].first \/ emitted[k].last < n
      <4>1. /\ k < j => emitted[k].last < emitted[j].first
            /\ j < k => emitted[j].last < emitted[k].first
        BY <2>3, <3>1 DEF WholeInv
      <4>2. k < j \/ j < k
        BY <2>3
      <4>3. n \in Nat /\ k \in 1..Len(emitted)
        BY <2>3, LLMAssumption
      <4>4. QED BY <2>1, <3>1, <4>1, <4>2, <4>3
    <3>5. QED BY <3>1, <3>3, <3>4
  <2>5. QED BY <2>2, <2>4
<1>4. QED
  BY TypeCorrect, TerminalInvHolds, <1>1, <1>2, <1>3, PTL DEF Spec
-----------------------------------------------------------------------------
(* A save that met no other is in force once it has returned.              *)

\* What a lone save knows at each stage.  The file is torn only while a save
\* is between its two halves, so a lone one reloads what it has written.
SaveInv ==
  /\ \A w \in torn : saver[w].stage = "writing"
  /\ \A w \in Savers : Alone(w) =>
       LET p == Effective(disk.provider) IN
       /\ saver[w].stage \in {"reloaded", "assigned", "saved"} => saver[w].held.provider = p
       /\ saver[w].stage \in {"assigned", "saved"} => cfg = p
       /\ saver[w].stage = "saved" => active = Build(p)

\* The step of a save from stage a to stage b leaves the other saves alone, and
\* who is alone after it was alone before it.
LEMMA SaverMoves ==
  ASSUME TypeOK, NEW w \in Savers, NEW g,
         saver' = [saver EXCEPT ![w] = g], g.stage # "idle"
  PROVE  /\ saver'[w] = g
         /\ \A v \in Savers \ {w} : saver'[v] = saver[v] /\ ~Alone(v)'
         /\ Alone(w)' <=> Alone(w)
<1>1. saver'[w] = g /\ \A v \in Savers \ {w} : saver'[v] = saver[v]
  BY DEF TypeOK
<1>2. QED
  BY <1>1 DEF Alone

LEMMA SaveStep ==
  ASSUME TypeOK, SaveInv, ConfigStep
  PROVE  SaveInv'
<1> DEFINE At(w) ==
      LET p == Effective(disk.provider) IN
       /\ saver[w].stage \in {"reloaded", "assigned", "saved"} => saver[w].held.provider = p
       /\ saver[w].stage \in {"assigned", "saved"} => cfg = p
       /\ saver[w].stage = "saved" => active = Build(p)
<1>1. /\ saver \in [Savers -> [stage : SaverStages, held : AppConfig]]
      /\ torn \subseteq Savers
  BY DEF TypeOK
<1>2. ASSUME NEW w \in Savers, NEW g, saver' = [saver EXCEPT ![w] = g], g.stage # "idle",
             \A v \in torn' : saver'[v].stage = "writing",
             Alone(w) /\ saver'[w] = g => At(w)'
      PROVE  SaveInv'
  <2>1. /\ saver'[w] = g
        /\ \A v \in Savers \ {w} : saver'[v] = saver[v] /\ ~Alone(v)'
        /\ Alone(w)' <=> Alone(w)
    BY <1>2, SaverMoves
  <2>2. QED
    BY <1>2, <2>1 DEF SaveInv
<1>3. ASSUME NEW w \in Savers, NEW g, saver' = [saver EXCEPT ![w] = g],
             torn' \subseteq torn \ {w} \/ (torn' = torn \cup {w} /\ g.stage = "writing")
      PROVE  \A v \in torn' : saver'[v].stage = "writing"
  BY <1>1, <1>3 DEF SaveInv
<1>4. ASSUME NEW w \in Savers, saver[w].stage # "writing"
      PROVE  torn \subseteq torn \ {w} /\ (Alone(w) => torn = {})
  BY <1>1, <1>4 DEF SaveInv, Alone
<1>5. ASSUME NEW w \in Savers, NEW p \in Providers \cup {Disabled}, LoadForSave(w, p)
      PROVE  SaveInv'
  <2> DEFINE g == [stage |-> "loaded", held |-> [provider |-> p, denied |-> Readable.denied]]
  <2>1. saver' = [saver EXCEPT ![w] = g] /\ torn' = torn /\ saver[w].stage # "writing"
    BY <1>5 DEF LoadForSave
  <2>2. g.stage = "loaded"
    OBVIOUS
  <2> HIDE DEF g
  <2>3. QED BY <1>2, <1>3, <1>4, <2>1, <2>2
<1>6. ASSUME NEW w \in Savers, Truncate(w) PROVE SaveInv'
  <2> DEFINE g == [saver[w] EXCEPT !.stage = "writing"]
  <2>1. saver' = [saver EXCEPT ![w] = g] /\ torn' = torn \cup {w}
    BY <1>6 DEF Truncate
  <2>2. g.stage = "writing"
    BY <1>1
  <2> HIDE DEF g
  <2>3. QED BY <1>2, <1>3, <2>1, <2>2
<1>7. ASSUME NEW w \in Savers, Write(w) PROVE SaveInv'
  <2> DEFINE g == [saver[w] EXCEPT !.stage = "written"]
  <2>1. saver' = [saver EXCEPT ![w] = g] /\ torn' \subseteq torn \ {w}
    BY <1>7 DEF Write
  <2>2. g.stage = "written"
    BY <1>1
  <2> HIDE DEF g
  <2>3. QED BY <1>2, <1>3, <2>1, <2>2
<1>8. ASSUME NEW w \in Savers, Reload(w) PROVE SaveInv'
  <2> DEFINE g == [saver[w] EXCEPT !.stage = "reloaded",
                                   !.held.provider = Effective(Readable.provider)]
  <2>1. /\ saver' = [saver EXCEPT ![w] = g] /\ torn' = torn /\ disk' = disk
        /\ saver[w].stage # "writing"
    BY <1>8 DEF Reload
  <2>2. g.stage = "reloaded" /\ g.held.provider = Effective(Readable.provider)
    BY <1>1 DEF AppConfig
  <2>3. Alone(w) => g.held.provider = Effective(disk.provider)
    BY <1>4, <2>1, <2>2 DEF Readable
  <2> HIDE DEF g
  <2>4. Alone(w) /\ saver'[w] = g => At(w)'
    BY <2>1, <2>2, <2>3 DEF Effective
  <2>5. QED BY <1>2, <1>3, <1>4, <2>1, <2>2, <2>4
<1>9. ASSUME NEW w \in Savers, AssignCfg(w) PROVE SaveInv'
  <2> DEFINE g == [saver[w] EXCEPT !.stage = "assigned"]
  <2>1. /\ saver' = [saver EXCEPT ![w] = g] /\ torn' = torn /\ disk' = disk
        /\ saver[w].stage = "reloaded" /\ cfg' = saver[w].held.provider
    BY <1>9 DEF AssignCfg
  <2>2. g.stage = "assigned" /\ g.held = saver[w].held
    BY <1>1
  <2>3. Alone(w) => saver[w].held.provider = Effective(disk.provider)
    BY <2>1 DEF SaveInv
  <2> HIDE DEF g
  <2>4. Alone(w) /\ saver'[w] = g => At(w)'
    BY <2>1, <2>2, <2>3 DEF Effective
  <2>5. QED BY <1>2, <1>3, <1>4, <2>1, <2>2, <2>4
<1>10. ASSUME NEW w \in Savers, AssignProvider(w) PROVE SaveInv'
  <2> DEFINE g == [saver[w] EXCEPT !.stage = "saved"]
  <2>1. /\ saver' = [saver EXCEPT ![w] = g] /\ torn' = torn /\ disk' = disk /\ cfg' = cfg
        /\ saver[w].stage = "assigned" /\ active' = Build(saver[w].held.provider)
    BY <1>10 DEF AssignProvider
  <2>2. g.stage = "saved" /\ g.held = saver[w].held
    BY <1>1
  <2>3. Alone(w) => saver[w].held.provider = Effective(disk.provider)
                    /\ cfg = Effective(disk.provider)
    BY <2>1 DEF SaveInv
  <2> HIDE DEF g
  <2>4. Alone(w) /\ saver'[w] = g => At(w)'
    BY <2>1, <2>2, <2>3 DEF Effective, Build
  <2>5. QED BY <1>2, <1>3, <1>4, <2>1, <2>2, <2>4
<1>11. ASSUME NEW d \in SUBSET Providers, EditPolicy(d) PROVE SaveInv'
  <2>1. disk'.provider = disk.provider
    BY <1>11 DEF EditPolicy, TypeOK, AppConfig
  <2>2. UNCHANGED <<torn, saver, cfg, active>>
    BY <1>11 DEF EditPolicy
  <2>3. QED
    BY <2>1, <2>2 DEF SaveInv, Alone, Effective, Build
<1>12. QED
  BY <1>5, <1>6, <1>7, <1>8, <1>9, <1>10, <1>11 DEF ConfigStep

\* Once a save that met no other has returned, the provider in memory is the one
\* the file or the environment names (settings_service.go:156-157).
THEOREM SavesTakeEffect == Spec => []SaveTakesEffect
<1>1. Init => SaveInv
  BY DEF Init, SaveInv
<1>2. TypeOK /\ SaveInv /\ [Next]_vars => SaveInv'
  <2> SUFFICES ASSUME TypeOK, SaveInv, [Next]_vars PROVE SaveInv'
    OBVIOUS
  <2>1. CASE ConfigStep
    BY <2>1, SaveStep
  <2>2. CASE UNCHANGED configVars
    BY <2>2 DEF configVars, SaveInv, Alone, Effective, Build
  <2>3. UNCHANGED configVars \/ ConfigStep
    BY DEF Next, vars, SendStep, LoopStep, ProviderStep, Expire
  <2>4. QED BY <2>1, <2>2, <2>3
<1>3. SaveInv => SaveTakesEffect
  BY DEF SaveInv, SaveTakesEffect
<1>4. QED
  BY TypeCorrect, <1>1, <1>2, <1>3, PTL DEF Spec

-----------------------------------------------------------------------------
(* The order of a request's chunks, event by event.                        *)

LastOf(s, p, r, j) ==
  /\ j \in 1..p /\ s[j].req = r
  /\ \A k \in j+1..p : s[k].req # r

\* The first p events of s carry n chunks of request r, numbered from 0, that
\* end at piece t of its text.
At(s, p, r, n, t) ==
  \/ n = 0 /\ t = 0 /\ \A j \in 1..p : s[j].req # r
  \/ \E j \in 1..p : /\ LastOf(s, p, r, j) /\ s[j].kind = "chunk"
                     /\ s[j].seq + 1 = n /\ s[j].last = t

\* Each chunk, and the llm:done, of a request goes on where the events before it
\* stop, and so does the loop.
OrderInv ==
  /\ \A i \in 1..Len(emitted) :
       LET r == emitted[i].req IN
         /\ stage[r] \in {"streaming", "ended"}
         /\ Chunk(i) => At(emitted, i - 1, r, emitted[i].seq, emitted[i].first - 1)
         /\ emitted[i].kind = "done" =>
              \E n \in TextCount : At(emitted, i - 1, r, n, Received(r))
  /\ \A r \in Requests :
       stage[r] # "ended" => At(emitted, Len(emitted), r, loop[r].seq, loop[r].flushed)

\* The count is a function of the events.
LEMMA AtOnce ==
  ASSUME NEW s, NEW p \in Nat, NEW r, NEW n, NEW t, NEW m, NEW u,
         At(s, p, r, n, t), At(s, p, r, m, u)
  PROVE  n = m /\ t = u
<1>1. ASSUME NEW i \in 1..p, NEW j \in 1..p, LastOf(s, p, r, i), LastOf(s, p, r, j)
      PROVE  i = j
  BY <1>1 DEF LastOf
<1>2. QED
  BY <1>1 DEF At, LastOf

\* It depends on the first p events alone.
LEMMA AtPrefix ==
  ASSUME NEW s, NEW u, NEW p \in Nat, \A i \in 1..p : u[i] = s[i],
         NEW r, NEW n, NEW t
  PROVE  At(s, p, r, n, t) <=> At(u, p, r, n, t)
<1>1. \A j \in 1..p : LastOf(s, p, r, j) <=> LastOf(u, p, r, j)
  BY DEF LastOf
<1>2. QED
  BY <1>1 DEF At

\* Events of other requests leave it alone.
LEMMA AtOthers ==
  ASSUME NEW s, NEW p \in Nat, NEW q \in Nat, p <= q, NEW r, NEW n, NEW t,
         \A k \in p+1..q : s[k].req # r
  PROVE  At(s, p, r, n, t) => At(s, q, r, n, t)
<1>1. CASE n = 0 /\ t = 0 /\ \A j \in 1..p : s[j].req # r
  <2>1. \A j \in 1..q : s[j].req # r
    BY <1>1
  <2>2. QED BY <1>1, <2>1 DEF At
<1>2. ASSUME NEW j \in 1..p, LastOf(s, p, r, j), s[j].kind = "chunk",
             s[j].seq + 1 = n, s[j].last = t
      PROVE  At(s, q, r, n, t)
  <2>1. j \in 1..q /\ LastOf(s, q, r, j)
    BY <1>2 DEF LastOf
  <2>2. QED BY <1>2, <2>1 DEF At
<1>3. QED
  BY <1>1, <1>2 DEF At

\* A chunk of the request moves it on.
LEMMA AtChunk ==
  ASSUME NEW s, NEW p \in Nat, NEW r, s[p + 1].req = r, s[p + 1].kind = "chunk"
  PROVE  At(s, p + 1, r, s[p + 1].seq + 1, s[p + 1].last)
<1>1. p + 1 \in 1..p + 1 /\ LastOf(s, p + 1, r, p + 1)
  BY DEF LastOf
<1>2. QED BY <1>1 DEF At

\* llm_service.go:269-280: what a flush emits goes on from the events before it.
LEMMA FlushOrder ==
  ASSUME TypeOK, OrderInv, NEW r \in Requests, stage[r] # "ended",
         NEW s, \A i \in 1..Len(emitted) : s[i] = emitted[i],
         \A i \in 1..Len(Flushed(r)) : s[Len(emitted) + i] = Flushed(r)[i]
  PROVE  /\ At(s, Len(emitted) + Len(Flushed(r)), r, NextSeq(r), Received(r))
         /\ \A i \in Len(emitted) + 1..Len(emitted) + Len(Flushed(r)) :
              /\ s[i].req = r /\ s[i].kind = "chunk"
              /\ At(s, i - 1, r, s[i].seq, s[i].first - 1)
<1> DEFINE n == Len(emitted)
           e == Event("chunk", r, loop[r].seq, loop[r].flushed + 1, Received(r))
<1>1. n \in Nat /\ loop[r].flushed \in Nat /\ loop[r].seq \in Nat
  BY DEF TypeOK, TextCount
<1>2. At(s, n, r, loop[r].seq, loop[r].flushed)
  <2>1. At(emitted, n, r, loop[r].seq, loop[r].flushed)
    BY DEF OrderInv
  <2>2. QED BY <1>1, <2>1, AtPrefix
<1>3. CASE loop[r].flushed = Received(r)
  <2>1. Len(Flushed(r)) = 0
    BY <1>3 DEF Flushed
  <2>2. NextSeq(r) = loop[r].seq
    BY <1>1, <2>1 DEF NextSeq
  <2> HIDE DEF n
  <2>3. n + 0 = n /\ n + 1..n + 0 = {}
    BY <1>1
  <2>4. QED BY <1>2, <1>3, <2>1, <2>2, <2>3 DEF n
<1>4. CASE loop[r].flushed # Received(r)
  <2>1. Flushed(r) = << e >>
    BY <1>4 DEF Flushed
  <2>2. Len(Flushed(r)) = 1 /\ s[n + 1] = e
    BY <2>1
  <2>3. /\ e.req = r /\ e.kind = "chunk" /\ e.seq = loop[r].seq
        /\ e.first = loop[r].flushed + 1 /\ e.last = Received(r)
    BY DEF Event
  <2>4. NextSeq(r) = loop[r].seq + 1
    BY <2>2 DEF NextSeq
  <2> HIDE DEF n, e
  <2>5. At(s, n + 1, r, NextSeq(r), Received(r))
    BY <1>1, <2>2, <2>3, <2>4, AtChunk
  <2>6. ASSUME NEW i \in n + 1..n + 1
        PROVE  /\ s[i].req = r /\ s[i].kind = "chunk"
               /\ At(s, i - 1, r, s[i].seq, s[i].first - 1)
    <3>1. i = n + 1 /\ i - 1 = n /\ loop[r].flushed + 1 - 1 = loop[r].flushed
      BY <1>1
    <3>2. s[i] = e
      BY <2>2, <3>1
    <3>3. e.first - 1 = loop[r].flushed
      BY <1>1, <2>3
    <3>4. At(s, i - 1, r, e.seq, e.first - 1)
      BY <1>2, <2>3, <3>1, <3>3
    <3>5. QED BY <2>3, <3>2, <3>4
  <2>7. QED BY <2>2, <2>5, <2>6 DEF n
<1>5. QED BY <1>3, <1>4

\* A step that emits nothing, receives nothing after an end and flushes nothing.
LEMMA OrderKept ==
  ASSUME TypeOK, TerminalInv, OrderInv, UNCHANGED emitted,
         \A q \in Requests : /\ stage[q] = "streaming" => stage'[q] \in {"streaming", "ended"}
                             /\ stage[q] = "ended" => stage'[q] = "ended"
                             /\ loop'[q].seq = loop[q].seq
                             /\ loop'[q].flushed = loop[q].flushed
                             /\ stage[q] = "ended" => loop'[q].received = loop[q].received
  PROVE  OrderInv'
<1>1. ASSUME NEW i \in 1..Len(emitted)
      PROVE  LET r == emitted[i].req IN
         /\ stage'[r] \in {"streaming", "ended"}
         /\ Chunk(i) => At(emitted, i - 1, r, emitted[i].seq, emitted[i].first - 1)
         /\ emitted[i].kind = "done" =>
              \E n \in TextCount : At(emitted, i - 1, r, n, Received(r)')
  <2> DEFINE r == emitted[i].req
  <2>1. emitted[i] \in EventType
    BY DEF TypeOK
  <2>2. r \in Requests
    BY <2>1 DEF EventType
  <2>3. /\ stage[r] \in {"streaming", "ended"}
        /\ Chunk(i) => At(emitted, i - 1, r, emitted[i].seq, emitted[i].first - 1)
        /\ emitted[i].kind = "done" =>
             \E n \in TextCount : At(emitted, i - 1, r, n, Received(r))
    BY DEF OrderInv
  <2>4. emitted[i].kind = "done" => stage[r] = "ended"
    BY DEF TerminalInv
  <2>5. emitted[i].kind = "done" => Received(r)' = Received(r)
    BY <2>2, <2>4 DEF Received
  <2>6. stage'[r] \in {"streaming", "ended"}
    BY <2>2, <2>3
  <2>7. QED BY <2>3, <2>5, <2>6
<1>2. ASSUME NEW r \in Requests, stage'[r] # "ended"
      PROVE  At(emitted, Len(emitted), r, loop'[r].seq, loop'[r].flushed)
  <2>1. stage[r] # "ended"
    BY <1>2
  <2>2. At(emitted, Len(emitted), r, loop[r].seq, loop[r].flushed)
    BY <2>1 DEF OrderInv
  <2>3. QED BY <2>2
<1>3. QED
  BY <1>1, <1>2 DEF OrderInv, Chunk

\* A step that emits events of one streaming request, each in its order.
LEMMA OrderGrows ==
  ASSUME TypeOK, TerminalInv, OrderInv, NEW r \in Requests, stage[r] # "ended",
         NEW m \in Nat, Len(emitted) <= m, emitted' \in Seq(EventType), Len(emitted') = m,
         \A i \in 1..Len(emitted) : emitted'[i] = emitted[i],
         \A i \in Len(emitted) + 1..m :
           /\ emitted'[i].req = r
           /\ emitted'[i].kind = "chunk" =>
                At(emitted', i - 1, r, emitted'[i].seq, emitted'[i].first - 1)
           /\ emitted'[i].kind = "done" =>
                \E n \in TextCount : At(emitted', i - 1, r, n, loop'[r].received),
         stage'[r] \in {"streaming", "ended"},
         stage'[r] # "ended" => At(emitted', m, r, loop'[r].seq, loop'[r].flushed),
         \A q \in Requests \ {r} : stage'[q] = stage[q] /\ loop'[q] = loop[q]
  PROVE  OrderInv'
<1> DEFINE n == Len(emitted)
<1>0. n \in Nat
  BY DEF TypeOK
<1>1. ASSUME NEW i \in 1..m
      PROVE  LET q == emitted'[i].req IN
         /\ stage'[q] \in {"streaming", "ended"}
         /\ emitted'[i].kind = "chunk" =>
              At(emitted', i - 1, q, emitted'[i].seq, emitted'[i].first - 1)
         /\ emitted'[i].kind = "done" =>
              \E k \in TextCount : At(emitted', i - 1, q, k, loop'[q].received)
  <2>1. CASE i \in n + 1..m
    BY <2>1
  <2>2. CASE i \in 1..n
    <3> DEFINE q == emitted[i].req
    <3>1. emitted[i] \in EventType
      BY <2>2 DEF TypeOK
    <3>2. q \in Requests /\ emitted'[i] = emitted[i]
      BY <2>2, <3>1 DEF EventType
    <3>3. /\ stage[q] \in {"streaming", "ended"}
          /\ Chunk(i) => At(emitted, i - 1, q, emitted[i].seq, emitted[i].first - 1)
          /\ emitted[i].kind = "done" =>
               \E k \in TextCount : At(emitted, i - 1, q, k, Received(q))
      BY <2>2 DEF OrderInv
    <3>4. emitted[i].kind = "done" => q # r
      BY <2>2 DEF TerminalInv
    <3>5. emitted[i].kind = "done" => loop'[q].received = Received(q)
      BY <3>2, <3>4 DEF Received
    <3>6. stage'[q] \in {"streaming", "ended"}
      BY <3>2, <3>3
    <3>7. i - 1 \in Nat /\ \A j \in 1..i - 1 : emitted'[j] = emitted[j]
      BY <1>0, <2>2
    <3>8. \A k, t : At(emitted, i - 1, q, k, t) => At(emitted', i - 1, q, k, t)
      BY <3>7, AtPrefix
    <3>9. QED BY <3>2, <3>3, <3>5, <3>6, <3>8 DEF Chunk
  <2>3. QED BY <1>0, <2>1, <2>2
<1>2. ASSUME NEW q \in Requests, stage'[q] # "ended"
      PROVE  At(emitted', m, q, loop'[q].seq, loop'[q].flushed)
  <2>1. CASE q = r
    BY <1>2, <2>1
  <2>2. CASE q # r
    <3>1. At(emitted, n, q, loop[q].seq, loop[q].flushed) /\ loop'[q] = loop[q]
      BY <1>2, <2>2 DEF OrderInv
    <3>2. At(emitted', n, q, loop[q].seq, loop[q].flushed)
      BY <1>0, <3>1, AtPrefix
    <3>3. \A k \in n + 1..m : emitted'[k].req # q
      BY <2>2
    <3> HIDE DEF n
    <3>4. QED BY <1>0, <3>1, <3>2, <3>3, AtOthers DEF n
  <2>3. QED BY <2>1, <2>2
<1>3. QED
  BY <1>1, <1>2 DEF OrderInv, Chunk, Received

\* What the loop of one request emits, and how it counts on.
LEMMA OrderLoopStep ==
  ASSUME TypeOK, TypeOK', TerminalInv, OrderInv, NEW r \in Requests, LoopStep(r)
  PROVE  OrderInv'
<1> DEFINE n == Len(emitted)
           m == n + Len(Flushed(r))
<1>1. /\ emitted \in Seq(EventType) /\ n \in Nat
      /\ Flushed(r) \in Seq(EventType) /\ Len(Flushed(r)) \in Nat
      /\ NextSeq(r) \in TextCount /\ Received(r) \in TextCount
  BY FlushFacts DEF TypeOK, Received
<1>2. /\ stage \in [Requests -> Stages]
      /\ loop \in [Requests -> [received : TextCount, flushed : TextCount, seq : TextCount]]
  BY DEF TypeOK
<1>3. ASSUME Flush(r)
      PROVE  /\ loop'[r].seq = NextSeq(r) /\ loop'[r].flushed = Received(r)
             /\ loop'[r].received = Received(r)
             /\ \A q \in Requests \ {r} : loop'[q] = loop[q]
  BY <1>2, <1>3 DEF Flush, Received
<1>4. ASSUME Flush(r), stage[r] = "streaming", emitted' = emitted \o Flushed(r),
             stage' = stage
      PROVE  OrderInv'
  <2>1. /\ Len(emitted') = m /\ m \in Nat /\ n <= m
        /\ \A i \in 1..n : emitted'[i] = emitted[i]
        /\ \A i \in 1..Len(Flushed(r)) : emitted'[n + i] = Flushed(r)[i]
    BY <1>1, <1>4
  <2>2. At(emitted', m, r, NextSeq(r), Received(r))
        /\ \A i \in n + 1..m : /\ emitted'[i].req = r /\ emitted'[i].kind = "chunk"
                               /\ At(emitted', i - 1, r, emitted'[i].seq, emitted'[i].first - 1)
    <3>1. stage[r] # "ended"
      BY <1>4
    <3>2. QED BY <2>1, <3>1, FlushOrder
  <2>3. emitted' \in Seq(EventType)
    BY DEF TypeOK
  <2> HIDE DEF m
  <2>4. QED
    BY <1>3, <1>4, <2>1, <2>2, <2>3, OrderGrows
<1>5. ASSUME Flush(r), stage[r] = "streaming", stage' = [stage EXCEPT ![r] = "ended"],
             NEW e, e.req = r, e.kind \in {"done", "error"},
             emitted' = emitted \o Flushed(r) \o << e >>
      PROVE  OrderInv'
  <2>1. /\ Len(emitted') = m + 1 /\ m \in Nat /\ n <= m
        /\ \A i \in 1..n : emitted'[i] = emitted[i]
        /\ \A i \in 1..Len(Flushed(r)) : emitted'[n + i] = Flushed(r)[i]
        /\ emitted'[m + 1] = e
    BY <1>1, <1>5
  <2>2. At(emitted', m, r, NextSeq(r), Received(r))
        /\ \A i \in n + 1..m : /\ emitted'[i].req = r /\ emitted'[i].kind = "chunk"
                               /\ At(emitted', i - 1, r, emitted'[i].seq, emitted'[i].first - 1)
    <3>1. stage[r] # "ended"
      BY <1>5
    <3>2. QED BY <2>1, <3>1, FlushOrder
  <2>3. emitted' \in Seq(EventType)
    BY DEF TypeOK
  <2> HIDE DEF m
  <2>4. /\ m \in Nat /\ m + 1 \in Nat /\ n <= m + 1
        /\ \A i \in n + 1..m + 1 : i \in n + 1..m \/ i = m + 1
    BY <1>1, <2>1
  <2>5. ASSUME NEW i \in n + 1..m + 1
        PROVE  /\ emitted'[i].req = r
               /\ emitted'[i].kind = "chunk" =>
                    At(emitted', i - 1, r, emitted'[i].seq, emitted'[i].first - 1)
               /\ emitted'[i].kind = "done" =>
                    \E k \in TextCount : At(emitted', i - 1, r, k, loop'[r].received)
    <3>1. CASE i \in n + 1..m
      <4>1. emitted'[i].kind # "done"
        BY <2>2, <3>1
      <4>2. QED BY <2>2, <3>1, <4>1
    <3>2. CASE i = m + 1
      <4>1. emitted'[i] = e /\ e.kind # "chunk"
        BY <1>5, <2>1, <3>2
      <4>2. loop'[r].received = Received(r)
        BY <1>3, <1>5
      <4>3. i - 1 = m
        BY <2>4, <3>2
      <4>4. At(emitted', i - 1, r, NextSeq(r), loop'[r].received)
        BY <2>2, <4>2, <4>3
      <4>5. QED BY <1>1, <1>5, <3>2, <4>1, <4>4
    <3>3. QED BY <2>4, <3>1, <3>2
  <2>6. stage'[r] = "ended" /\ \A q \in Requests \ {r} : stage'[q] = stage[q]
    BY <1>2, <1>5
  <2>7. QED
    BY <1>3, <1>5, <2>1, <2>3, <2>4, <2>5, <2>6, OrderGrows
<1>6. CASE StartStream(r)
  <2>1. CASE UNCHANGED emitted /\ stage' = [stage EXCEPT ![r] = "streaming"]
    <3>1. loop' = loop /\ stage[r] = "launched"
      BY <1>6 DEF StartStream
    <3>2. QED BY <1>2, <2>1, <3>1, OrderKept
  <2>2. CASE stage' = [stage EXCEPT ![r] = "ended"]
             /\ emitted' = Append(emitted, Event("error", r, 0, 0, 0))
    <3>1. /\ loop' = loop /\ stage[r] # "ended"
          /\ stage'[r] = "ended" /\ \A q \in Requests \ {r} : stage'[q] = stage[q]
      BY <1>2, <1>6, <2>2 DEF StartStream
    <3>2. /\ Len(emitted') = n + 1 /\ \A i \in 1..n : emitted'[i] = emitted[i]
          /\ emitted'[n + 1] = Event("error", r, 0, 0, 0)
      BY <1>1, <2>2
    <3>3. \A i \in n + 1..n + 1 : emitted'[i].req = r /\ emitted'[i].kind = "error"
      BY <1>1, <3>2 DEF Event
    <3>4. emitted' \in Seq(EventType) /\ n + 1 \in Nat /\ n <= n + 1
      BY <1>1 DEF TypeOK
    <3> HIDE DEF n
    <3>5. QED BY <3>1, <3>2, <3>3, <3>4, OrderGrows DEF n
  <2>3. QED
    BY <1>6, <2>1, <2>2 DEF StartStream
<1>7. CASE StreamOnNil(r)
  <2>1. UNCHANGED <<emitted, stage, loop>>
    BY <1>7 DEF StreamOnNil, requestVars
  <2>2. QED BY <2>1, OrderKept
<1>8. CASE ReceiveText(r)
  <2>1. UNCHANGED <<emitted, stage>> /\ stage[r] = "streaming"
    BY <1>8 DEF ReceiveText
  <2>2. \A q \in Requests : /\ loop'[q].seq = loop[q].seq
                            /\ loop'[q].flushed = loop[q].flushed
                            /\ q # r => loop'[q] = loop[q]
    BY <1>2, <1>8 DEF ReceiveText
  <2>3. QED BY <2>1, <2>2, OrderKept
<1>9. CASE ReceiveDone(r)
  <2> DEFINE e == Event("done", r, NextSeq(r), 0, 0)
  <2>1. e.req = r /\ e.kind \in {"done", "error"}
    BY DEF Event
  <2>2. /\ Flush(r) /\ stage[r] = "streaming" /\ stage' = [stage EXCEPT ![r] = "ended"]
        /\ emitted' = emitted \o Flushed(r) \o << e >>
    BY <1>9 DEF ReceiveDone
  <2>3. QED BY <1>5, <2>1, <2>2
<1>10. CASE ReceiveError(r)
  <2> DEFINE e == Event("error", r, NextSeq(r), 0, 0)
  <2>1. e.req = r /\ e.kind \in {"done", "error"}
    BY DEF Event
  <2>2. /\ Flush(r) /\ stage[r] = "streaming" /\ stage' = [stage EXCEPT ![r] = "ended"]
        /\ emitted' = emitted \o Flushed(r) \o << e >>
    BY <1>10 DEF ReceiveError
  <2>3. QED BY <1>5, <2>1, <2>2
<1>11. CASE Tick(r)
  BY <1>4, <1>11 DEF Tick
<1>12. CASE Abandon(r)
  <2>1. UNCHANGED <<emitted, loop>> /\ stage[r] = "streaming"
        /\ stage' = [stage EXCEPT ![r] = "ended"]
    BY <1>12 DEF Abandon
  <2>2. QED BY <1>2, <2>1, OrderKept
<1>13. QED
  BY <1>6, <1>7, <1>8, <1>9, <1>10, <1>11, <1>12 DEF LoopStep

\* The chunks of every request are emitted in order and without a gap.
LEMMA OrderHolds == Spec => []OrderInv
<1>1. Init => OrderInv
  <2> SUFFICES ASSUME Init PROVE OrderInv
    OBVIOUS
  <2>1. Len(emitted) = 0 /\ 1..0 = {}
    BY DEF Init
  <2>2. \A r \in Requests : loop[r].seq = 0 /\ loop[r].flushed = 0
    BY DEF Init
  <2>3. \A r \in Requests : At(emitted, Len(emitted), r, loop[r].seq, loop[r].flushed)
    BY <2>1, <2>2 DEF At
  <2>4. QED BY <2>1, <2>3 DEF OrderInv
<1>2. TypeOK /\ TypeOK' /\ TerminalInv /\ OrderInv /\ [Next]_vars => OrderInv'
  <2> SUFFICES ASSUME TypeOK, TypeOK', TerminalInv, OrderInv, [Next]_vars PROVE OrderInv'
    OBVIOUS
  <2>1. CASE ConfigStep \/ UNCHANGED vars
    <3>1. UNCHANGED <<emitted, stage, loop>>
      BY <2>1 DEF ConfigStep, vars, requestVars
    <3>2. QED BY <3>1, OrderKept
  <2>2. ASSUME NEW r \in Requests, SendStep(r) PROVE OrderInv'
    <3>1. UNCHANGED <<emitted, loop>> /\ stage[r] \in {"new", "seen", "allowed"}
          /\ \A q \in Requests \ {r} : stage'[q] = stage[q]
      BY <2>2 DEF SendStep, SeeProvider, CheckRequest, AuditUserMessage, TypeOK
    <3>2. QED BY <3>1, OrderKept
  <2>3. ASSUME NEW r \in Requests, ProviderStep(r) \/ Expire(r) PROVE OrderInv'
    <3>1. UNCHANGED <<emitted, stage, loop>>
      BY <2>3 DEF ProviderStep, Expire
    <3>2. QED BY <3>1, OrderKept
  <2>4. ASSUME NEW r \in Requests, LoopStep(r) PROVE OrderInv'
    BY <2>4, OrderLoopStep
  <2>5. QED
    BY <2>1, <2>2, <2>3, <2>4 DEF Next
<1>3. QED
  BY <1>1, <1>2, TypeCorrect, TerminalInvHolds, PTL DEF Spec

-----------------------------------------------------------------------------
(* The chat frontend on top: it leaves the request path its own steps, so  *)
(* all that is proved of LLMService holds in LLMChat too.                  *)

THEOREM ChatRunsTheService == ChatSpec => Spec
<1>1. ChatInit => Init
  BY DEF ChatInit
<1>2. [ChatNext]_chatVars => [Next]_vars
  BY DEF ChatNext, Backend, Send, HandleRejection, Clear, SwitchTab, Deliver, chatVars
<1>3. QED
  BY <1>1, <1>2, PTL DEF ChatSpec, Spec

\* What a step of the request path leaves alone: the events that are out, and
\* a request that is over.
LEMMA ServiceGrows ==
  ASSUME TypeOK, TypeOK', [Next]_vars
  PROVE  /\ Len(emitted) <= Len(emitted')
         /\ \A i \in 1..Len(emitted) : emitted'[i] = emitted[i]
         /\ \A i \in Len(emitted) + 1..Len(emitted') :
              stage[emitted'[i].req] \in {"launched", "streaming"}
         /\ \A q \in Requests : stage[q] = "ended" => stage'[q] = "ended" /\ loop'[q] = loop[q]
         /\ \A q \in Requests : stage[q] = "rejected" => stage'[q] = "rejected"
         /\ \A q \in Requests : stage[q] # "new" => stage'[q] # "new"
         /\ \A q \in Requests : stage[q] = "streaming" => stage'[q] \in {"streaming", "ended"}
<1> USE DEF Stages
<1>0. Len(emitted) \in Nat
  BY DEF TypeOK
<1>1. ASSUME UNCHANGED <<emitted, stage, loop>>
      PROVE  /\ Len(emitted) <= Len(emitted')
             /\ \A i \in Len(emitted) + 1..Len(emitted') :
                  stage[emitted'[i].req] \in {"launched", "streaming"}
  BY <1>0, <1>1
<1>2. CASE ConfigStep \/ UNCHANGED vars
  <2>1. UNCHANGED <<emitted, stage, loop>>
    BY <1>2 DEF ConfigStep, vars, requestVars
  <2>2. QED BY <1>1, <2>1
<1>3. ASSUME NEW r \in Requests, ProviderStep(r) \/ Expire(r) PROVE UNCHANGED <<emitted, stage, loop>>
  BY <1>3 DEF ProviderStep, Expire
<1>4. ASSUME NEW r \in Requests, SendStep(r)
      PROVE  /\ UNCHANGED <<emitted, loop>>
             /\ stage[r] \in {"new", "seen", "allowed"} /\ stage'[r] # "new"
             /\ \A q \in Requests \ {r} : stage'[q] = stage[q]
  BY <1>4 DEF SendStep, SeeProvider, CheckRequest, AuditUserMessage, TypeOK
<1>5. ASSUME NEW r \in Requests, LoopStep(r)
      PROVE  /\ stage[r] \in {"launched", "streaming"} /\ stage'[r] \notin {"new", "rejected"}
             /\ stage[r] = "streaming" => stage'[r] \in {"streaming", "ended"}
             /\ \A q \in Requests \ {r} : stage'[q] = stage[q] /\ loop'[q] = loop[q]
  <2>1. /\ stage[r] \in {"launched", "streaming"} /\ stage'[r] \notin {"new", "rejected"}
        /\ stage[r] = "streaming" => stage'[r] \in {"streaming", "ended"}
        /\ \A q \in Requests \ {r} : stage'[q] = stage[q]
    BY <1>5 DEF LoopStep, StartStream, StreamOnNil, ReceiveText, ReceiveDone,
                ReceiveError, Tick, Abandon, TypeOK, requestVars
  <2>2. \A q \in Requests \ {r} : loop'[q] = loop[q]
    BY <1>5 DEF LoopStep, StartStream, StreamOnNil, ReceiveText, ReceiveDone,
                ReceiveError, Tick, Abandon, Flush, TypeOK, requestVars
  <2>3. QED BY <2>1, <2>2
<1>6. ASSUME NEW r \in Requests, LoopStep(r)
      PROVE  /\ Len(emitted) <= Len(emitted')
             /\ \A i \in 1..Len(emitted) : emitted'[i] = emitted[i]
             /\ \A i \in Len(emitted) + 1..Len(emitted') : emitted'[i].req = r
  <2>1. CASE UNCHANGED emitted
    BY <1>0, <2>1
  <2>2. ASSUME NEW s \in Seq(EventType), emitted' = emitted \o s,
               \A i \in 1..Len(s) : s[i].req = r
        PROVE  /\ Len(emitted) <= Len(emitted')
               /\ \A i \in 1..Len(emitted) : emitted'[i] = emitted[i]
               /\ \A i \in Len(emitted) + 1..Len(emitted') : emitted'[i].req = r
    <3>1. emitted \in Seq(EventType)
      BY DEF TypeOK
    <3>2. /\ Len(s) \in Nat /\ Len(emitted') = Len(emitted) + Len(s)
          /\ \A i \in 1..Len(emitted) : emitted'[i] = emitted[i]
          /\ \A i \in Len(emitted) + 1..Len(emitted') :
               emitted'[i] = s[i - Len(emitted)] /\ i - Len(emitted) \in 1..Len(s)
      BY <2>2, <3>1
    <3>3. QED BY <1>0, <2>2, <3>2
  <2>3. QED BY <1>6, <2>1, <2>2, LoopStepEmits
<1>7. ASSUME NEW r \in Requests, SendStep(r) \/ LoopStep(r) \/ ProviderStep(r) \/ Expire(r)
      PROVE  /\ Len(emitted) <= Len(emitted')
             /\ \A i \in 1..Len(emitted) : emitted'[i] = emitted[i]
             /\ \A i \in Len(emitted) + 1..Len(emitted') :
                  stage[emitted'[i].req] \in {"launched", "streaming"}
             /\ \A q \in Requests : stage[q] = "ended" => stage'[q] = "ended" /\ loop'[q] = loop[q]
             /\ \A q \in Requests : stage[q] = "rejected" => stage'[q] = "rejected"
             /\ \A q \in Requests : stage[q] # "new" => stage'[q] # "new"
             /\ \A q \in Requests : stage[q] = "streaming" => stage'[q] \in {"streaming", "ended"}
  <2>1. CASE SendStep(r)
    BY <1>0, <1>4, <2>1
  <2>2. CASE LoopStep(r)
    BY <1>5, <1>6, <2>2
  <2>3. CASE ProviderStep(r) \/ Expire(r)
    <3>1. UNCHANGED <<emitted, stage, loop>>
      BY <1>3, <2>3
    <3>2. QED BY <1>1, <3>1
  <2>4. QED BY <1>7, <2>1, <2>2, <2>3
<1>8. CASE ConfigStep /\ UNCHANGED crashed
  BY <1>2, <1>8
<1>9. QED
  BY <1>2, <1>7, <1>8 DEF Next

-----------------------------------------------------------------------------
(* The run of pending chunks.                                              *)

Piece == {e \in EventType : e.kind = "chunk"}

\* useLLMStream.ts:29-38: among finitely many pending chunks some number after n
\* is missing, and the run ends before the first one that is.
LEMMA RunEnds ==
  ASSUME NEW p \in SUBSET Piece, IsFiniteSet(p), NEW n \in Nat
  PROVE  \E k \in 0..Cardinality(p) :
           /\ \A i \in 0..k-1 : \E e \in p : e.seq = n + i
           /\ \A e \in p : e.seq # n + k
<1> DEFINE c == Cardinality(p)
           Missing == {k \in 0..c : \A e \in p : e.seq # n + k}
<1>1. c \in Nat
  BY FS_CardinalityType
<1>2. Missing # {}
  <2> SUFFICES ASSUME Missing = {} PROVE FALSE
    OBVIOUS
  <2>1. \A k \in 0..c : \E e \in p : e.seq = n + k
    OBVIOUS
  <2> DEFINE f == [k \in 0..c |-> CHOOSE e \in p : e.seq = n + k]
  <2>2. \A k \in 0..c : f[k] \in p /\ f[k].seq = n + k
    BY <2>1
  <2>3. f \in [0..c -> p]
    BY <2>2
  <2>4. IsFiniteSet(0..c) /\ Cardinality(0..c) = c + 1
    BY <1>1, FS_Interval
  <2> DEFINE S == 0..c
  <2> HIDE DEF f, S
  <2>5. IsFiniteSet(S) /\ Cardinality(p) < Cardinality(S) /\ f \in [S -> p]
    BY <1>1, <2>3, <2>4 DEF S
  <2>6. \E x, y \in S : x # y /\ f[x] = f[y]
    BY <2>5, FS_PigeonHole
  <2>7. QED
    BY <1>1, <2>2, <2>6 DEF S
<1>3. Missing \subseteq Nat
  BY <1>1
<1> DEFINE Less == {d \in Nat \X Nat : d[1] < d[2]}
<1>4. IsWellFoundedOn(Less, Nat)
  BY NatLessThanWellFounded DEF OpToRel
<1> HIDE DEF Less, Missing
<1>5. PICK k \in Missing : \A j \in Missing : ~(<<j, k>> \in Less)
  BY <1>2, <1>3, <1>4, WFMin
<1>6. ASSUME NEW i \in 0..k-1 PROVE \E e \in p : e.seq = n + i
  <2>1. k \in 0..c /\ k \in Nat
    BY <1>3 DEF Missing
  <2>2. i \in 0..c /\ i \in Nat /\ i < k
    BY <1>1, <2>1
  <2>3. <<i, k>> \in Less
    BY <2>1, <2>2 DEF Less
  <2>4. i \notin Missing
    BY <1>5, <2>3
  <2>5. QED BY <2>2, <2>4 DEF Missing
<1>7. k \in 0..c /\ \A e \in p : e.seq # n + k
  BY <1>5 DEF Missing
<1>8. QED BY <1>6, <1>7

LEMMA RunFacts ==
  ASSUME NEW p \in SUBSET Piece, IsFiniteSet(p), NEW n \in Nat
  PROVE  /\ Run(p, n) \in Seq(p)
         /\ \A i \in 1..Len(Run(p, n)) : Run(p, n)[i] \in p /\ Run(p, n)[i].seq = n + i - 1
         /\ \A e \in p : e.seq # n + Len(Run(p, n))
<1> DEFINE k == RunLength(p, n)
<1>1. /\ k \in 0..Cardinality(p)
      /\ \A i \in 0..k-1 : \E e \in p : e.seq = n + i
      /\ \A e \in p : e.seq # n + k
  BY RunEnds DEF RunLength
<1>2. k \in Nat
  BY <1>1, FS_CardinalityType
<1> HIDE DEF k
<1>3. Run(p, n) = [i \in 1..k |-> CHOOSE e \in p : e.seq = n + i - 1]
  BY DEF Run, k
<1>4. ASSUME NEW i \in 1..k PROVE \E e \in p : e.seq = n + i - 1
  <2>1. i - 1 \in 0..k-1 /\ n + (i - 1) = n + i - 1
    BY <1>2
  <2>2. QED BY <1>1, <2>1
<1>5. \A i \in 1..k : Run(p, n)[i] \in p /\ Run(p, n)[i].seq = n + i - 1
  BY <1>3, <1>4
<1>6. Run(p, n) \in Seq(p) /\ Len(Run(p, n)) = k
  <2>1. DOMAIN Run(p, n) = 1..k /\ Run(p, n) \in [1..k -> p]
    BY <1>3, <1>5
  <2>2. QED BY <1>2, <2>1
<1>7. QED BY <1>1, <1>5, <1>6

\* A chunk with the next number, alone, is the whole run.
LEMMA RunOfOne ==
  ASSUME NEW e \in Piece
  PROVE  Run({e}, e.seq) = << e >>
<1> DEFINE R == Run({e}, e.seq)
<1>1. e.seq \in Nat
  BY DEF Piece, EventType, TextCount
<1>2. {e} \in SUBSET Piece /\ IsFiniteSet({e})
  BY FS_Singleton
<1>3. /\ R \in Seq({e})
      /\ \A i \in 1..Len(R) : R[i] \in {e} /\ R[i].seq = e.seq + i - 1
      /\ \A d \in {e} : d.seq # e.seq + Len(R)
  BY <1>1, <1>2, RunFacts
<1> HIDE DEF R
<1>4. Len(R) \in Nat /\ Len(R) # 0
  BY <1>1, <1>3
<1>5. ~(Len(R) >= 2)
  <2> SUFFICES ASSUME Len(R) >= 2 PROVE FALSE
    OBVIOUS
  <2>1. 2 \in 1..Len(R)
    BY <1>4
  <2>2. R[2] = e /\ R[2].seq = e.seq + 2 - 1
    BY <1>3, <2>1
  <2>3. QED BY <1>1, <2>2
<1>6. Len(R) = 1 /\ R[1] = e
  <2>1. Len(R) = 1
    BY <1>4, <1>5
  <2>2. R[1] \in {e}
    BY <1>3, <2>1
  <2>3. QED BY <2>1, <2>2
<1>7. R = << e >>
  <2>1. R \in Seq({e})
    BY <1>3
  <2>2. R = [i \in 1..1 |-> R[i]]
    BY <1>6, <2>1
  <2>3. QED BY <1>6, <2>2
<1>8. QED BY <1>7 DEF R

-----------------------------------------------------------------------------
(* chatStore's operations on the messages of the tabs.                     *)

Message == [id : Nat, status : {"streaming", "final", "error"}, pieces : Seq(Piece)]
Messages == [Tabs -> Seq(Message)]

\* What each operation leaves of msgs in new: a message more in tab t, more pieces
\* or another status in the message id of that tab.
Added(new, msgs, t, status, pieces) ==
  /\ new \in Messages
  /\ \A u \in Tabs \ {t} : new[u] = msgs[u]
  /\ Len(new[t]) = Len(msgs[t]) + 1 /\ Len(msgs[t]) \in Nat
  /\ \A i \in DOMAIN msgs[t] : i \in DOMAIN new[t] /\ new[t][i] = msgs[t][i]
  /\ new[t][Len(msgs[t]) + 1] = [id |-> created, status |-> status, pieces |-> pieces]

Continued(new, msgs, t, id, run) ==
  /\ new \in Messages
  /\ \A u \in Tabs \ {t} : new[u] = msgs[u]
  /\ DOMAIN new[t] = DOMAIN msgs[t]
  /\ \A i \in DOMAIN msgs[t] :
       /\ new[t][i].id = msgs[t][i].id /\ new[t][i].status = msgs[t][i].status
       /\ msgs[t][i].id # id => new[t][i] = msgs[t][i]
       /\ msgs[t][i].id = id => new[t][i].pieces = msgs[t][i].pieces \o run

Marked(new, msgs, t, id, status) ==
  /\ new \in Messages
  /\ \A u \in Tabs \ {t} : new[u] = msgs[u]
  /\ DOMAIN new[t] = DOMAIN msgs[t]
  /\ \A i \in DOMAIN msgs[t] :
       /\ new[t][i].id = msgs[t][i].id /\ new[t][i].pieces = msgs[t][i].pieces
       /\ msgs[t][i].id # id => new[t][i] = msgs[t][i]
       /\ msgs[t][i].id = id => new[t][i].status = status

LEMMA AddMessageFacts ==
  ASSUME NEW msgs \in Messages, created \in Nat, NEW t \in Tabs,
         NEW status \in {"streaming", "final", "error"}, NEW pieces \in Seq(Piece)
  PROVE  Added(AddMessage(msgs, t, status, pieces), msgs, t, status, pieces)
<1> DEFINE m == [id |-> created, status |-> status, pieces |-> pieces]
           new == AddMessage(msgs, t, status, pieces)
<1>1. m \in Message
  BY DEF Message
<1>2. msgs[t] \in Seq(Message)
  BY DEF Messages
<1>3. new = [msgs EXCEPT ![t] = Append(msgs[t], m)]
  BY DEF AddMessage
<1> HIDE DEF m, new
<1>4. Append(msgs[t], m) \in Seq(Message)
  BY <1>1, <1>2
<1>5. /\ Len(Append(msgs[t], m)) = Len(msgs[t]) + 1 /\ Len(msgs[t]) \in Nat
      /\ \A i \in DOMAIN msgs[t] : /\ i \in DOMAIN Append(msgs[t], m)
                                   /\ Append(msgs[t], m)[i] = msgs[t][i]
      /\ Append(msgs[t], m)[Len(msgs[t]) + 1] = m
  BY <1>1, <1>2
<1>6. new \in Messages /\ new[t] = Append(msgs[t], m)
      /\ \A u \in Tabs \ {t} : new[u] = msgs[u]
  BY <1>3, <1>4 DEF Messages
<1>7. QED BY <1>5, <1>6 DEF m, new, Added

LEMMA AppendFacts ==
  ASSUME NEW msgs \in Messages, NEW t \in Tabs, NEW id, NEW run \in Seq(Piece)
  PROVE  Continued(AppendPieces(msgs, t, id, run), msgs, t, id, run)
<1> DEFINE s == msgs[t]
           u == [i \in DOMAIN s |->
                   IF s[i].id = id THEN [s[i] EXCEPT !.pieces = @ \o run] ELSE s[i]]
           new == AppendPieces(msgs, t, id, run)
<1>1. s \in Seq(Message) /\ DOMAIN s = 1..Len(s) /\ Len(s) \in Nat
  BY DEF Messages
<1>2. new = [msgs EXCEPT ![t] = u]
  BY DEF AppendPieces
<1> HIDE DEF s, new
<1>3. ASSUME NEW i \in DOMAIN s
      PROVE  /\ u[i] \in Message
             /\ u[i].id = s[i].id /\ u[i].status = s[i].status
             /\ s[i].id # id => u[i] = s[i]
             /\ s[i].id = id => u[i].pieces = s[i].pieces \o run
  <2>1. s[i] \in Message
    BY <1>1
  <2>2. s[i].pieces \o run \in Seq(Piece)
    BY <2>1 DEF Message
  <2> DEFINE m == s[i]
             p == s[i].pieces \o run
  <2>3. m \in Message /\ p \in Seq(Piece)
    BY <2>1, <2>2
  <2>4. u[i] = IF m.id = id THEN [m EXCEPT !.pieces = p] ELSE m
    OBVIOUS
  <2> HIDE DEF m, p, u
  <2>5. [m EXCEPT !.pieces = p] \in Message
        /\ [m EXCEPT !.pieces = p].id = m.id /\ [m EXCEPT !.pieces = p].status = m.status
        /\ [m EXCEPT !.pieces = p].pieces = p
    BY <2>3 DEF Message
  <2>6. QED BY <2>3, <2>4, <2>5 DEF m, p
<1>4. DOMAIN u = DOMAIN s
  OBVIOUS
<1> HIDE DEF u
<1>5. u \in Seq(Message)
  <2>1. u \in [1..Len(s) -> Message]
    <3>1. DOMAIN u = 1..Len(s) /\ u = [i \in DOMAIN s |-> u[i]]
      BY <1>1 DEF u
    <3>2. QED BY <1>1, <1>3, <3>1
  <2>2. QED BY <1>1, <2>1
<1>6. new \in Messages /\ new[t] = u /\ \A v \in Tabs \ {t} : new[v] = msgs[v]
  BY <1>2, <1>5 DEF Messages
<1>7. QED BY <1>3, <1>4, <1>6 DEF s, new, Continued

LEMMA SetStatusFacts ==
  ASSUME NEW msgs \in Messages, NEW t \in Tabs, NEW id,
         NEW status \in {"streaming", "final", "error"}
  PROVE  Marked(SetStatus(msgs, t, id, status), msgs, t, id, status)
<1> DEFINE s == msgs[t]
           u == [i \in DOMAIN s |->
                   IF s[i].id = id THEN [s[i] EXCEPT !.status = status] ELSE s[i]]
           new == SetStatus(msgs, t, id, status)
<1>1. s \in Seq(Message) /\ DOMAIN s = 1..Len(s) /\ Len(s) \in Nat
  BY DEF Messages
<1>2. new = [msgs EXCEPT ![t] = u]
  BY DEF SetStatus
<1> HIDE DEF s, new
<1>3. ASSUME NEW i \in DOMAIN s
      PROVE  /\ u[i] \in Message
             /\ u[i].id = s[i].id /\ u[i].pieces = s[i].pieces
             /\ s[i].id # id => u[i] = s[i]
             /\ s[i].id = id => u[i].status = status
  <2> DEFINE m == s[i]
  <2>1. m \in Message
    BY <1>1
  <2>2. u[i] = IF m.id = id THEN [m EXCEPT !.status = status] ELSE m
    OBVIOUS
  <2> HIDE DEF m, u
  <2>3. [m EXCEPT !.status = status] \in Message
        /\ [m EXCEPT !.status = status].id = m.id
        /\ [m EXCEPT !.status = status].pieces = m.pieces
        /\ [m EXCEPT !.status = status].status = status
    BY <2>1 DEF Message
  <2>4. QED BY <2>1, <2>2, <2>3 DEF m
<1>4. DOMAIN u = DOMAIN s
  OBVIOUS
<1> HIDE DEF u
<1>5. u \in Seq(Message)
  <2>1. u \in [1..Len(s) -> Message]
    <3>1. DOMAIN u = 1..Len(s) /\ u = [i \in DOMAIN s |-> u[i]]
      BY <1>1 DEF u
    <3>2. QED BY <1>1, <1>3, <3>1
  <2>2. QED BY <1>1, <2>1
<1>6. new \in Messages /\ new[t] = u /\ \A v \in Tabs \ {t} : new[v] = msgs[v]
  BY <1>2, <1>5 DEF Messages
<1>7. QED BY <1>3, <1>4, <1>6 DEF s, new, Marked

-----------------------------------------------------------------------------
(* The pieces of a message are in sequence.                                *)

ChatTypeOK ==
  /\ delivered \in 0..Len(emitted)
  /\ activeTab \in Tabs
  /\ hook \in [msg : Nat \cup {NoMessage}, next : Nat, pending : SUBSET Piece]
  /\ IsFiniteSet(hook.pending)
  /\ messages \in Messages /\ created \in Nat
  /\ sentFrom \in [Requests -> Tabs \cup {NoTab}]
  /\ settled \subseteq Requests

\* The event that is delivered next.
LEMMA NextEvent ==
  ASSUME TypeOK, ChatTypeOK, Deliver
  PROVE  LET e == emitted[delivered + 1] IN
         /\ delivered + 1 \in 1..Len(emitted) /\ e \in EventType
         /\ e.req \in Requests
         /\ e.kind = "chunk" => e \in Piece
         /\ \/ e.kind = "chunk" /\ HandleChunk(e)
            \/ e.kind = "done"  /\ HandleDone(e)
            \/ e.kind = "error" /\ HandleError(e)
<1> DEFINE e == emitted[delivered + 1]
<1>1. emitted \in Seq(EventType) /\ Len(emitted) \in Nat
      /\ delivered \in Nat /\ delivered < Len(emitted)
  BY DEF TypeOK, ChatTypeOK, Deliver
<1>2. delivered + 1 \in 1..Len(emitted)
  BY <1>1
<1>3. e \in EventType
  BY <1>1, <1>2
<1>4. e.req \in Requests /\ (e.kind = "chunk" => e \in Piece)
  BY <1>3 DEF EventType, Piece
<1>5. \/ e.kind = "chunk" /\ HandleChunk(e)
      \/ e.kind = "done"  /\ HandleDone(e)
      \/ e.kind = "error" /\ HandleError(e)
  BY DEF Deliver
<1>6. QED BY <1>2, <1>3, <1>4, <1>5

\* useLLMStream.ts:29-38: what handling a chunk does to the hook, and the run of
\* chunks it writes.
LEMMA ChunkFacts ==
  ASSUME ChatTypeOK, NEW e \in Piece, HandleChunk(e)
  PROVE  \E run \in Seq(Piece) :
           /\ \A i \in 1..Len(run) : run[i].seq = hook.next + i - 1
           /\ hook' \in [msg : Nat \cup {NoMessage}, next : Nat, pending : SUBSET Piece]
           /\ IsFiniteSet(hook'.pending)
           /\ hook'.next = hook.next + Len(run)
           /\ \/ /\ hook.msg = NoMessage /\ run # << >> /\ hook'.msg = created
                 /\ messages' = AddMessage(messages, activeTab, "streaming", run)
                 /\ created' = created + 1
              \/ /\ hook.msg # NoMessage \/ run = << >>
                 /\ hook'.msg = hook.msg
                 /\ messages' = AppendPieces(messages, activeTab, hook.msg, run)
                 /\ created' = created
<1> DEFINE waiting == {p \in hook.pending : p.seq # e.seq} \cup {e}
           run == Run(waiting, hook.next)
           isNew == hook.msg = NoMessage /\ run # << >>
           left == {p \in waiting : \A i \in DOMAIN run : run[i] # p}
<1>1. /\ hook \in [msg : Nat \cup {NoMessage}, next : Nat, pending : SUBSET Piece]
      /\ IsFiniteSet(hook.pending) /\ created \in Nat
  BY DEF ChatTypeOK
<1>2. waiting \subseteq Piece /\ IsFiniteSet(waiting)
  <2>1. {p \in hook.pending : p.seq # e.seq} \in SUBSET hook.pending
    OBVIOUS
  <2>2. IsFiniteSet({p \in hook.pending : p.seq # e.seq})
    BY <1>1, <2>1, FS_Subset
  <2>3. QED BY <1>1, <2>2, FS_AddElement
<1>3. /\ hook' = [msg |-> IF isNew THEN created ELSE hook.msg,
                  next |-> hook.next + Len(run), pending |-> left]
      /\ messages' = IF isNew THEN AddMessage(messages, activeTab, "streaming", run)
                     ELSE AppendPieces(messages, activeTab, hook.msg, run)
      /\ created' = IF isNew THEN created + 1 ELSE created
  BY DEF HandleChunk
<1> HIDE DEF waiting
<1>4. /\ run \in Seq(waiting)
      /\ \A i \in 1..Len(run) : run[i].seq = hook.next + i - 1
  BY <1>1, <1>2, RunFacts
<1> HIDE DEF run
<1>5. run \in Seq(Piece) /\ Len(run) \in Nat
  BY <1>2, <1>4
<1>6. left \in SUBSET Piece /\ IsFiniteSet(left)
  <2>1. left \in SUBSET waiting
    OBVIOUS
  <2>2. QED BY <1>2, <2>1, FS_Subset
<1> HIDE DEF left
<1>7. hook' \in [msg : Nat \cup {NoMessage}, next : Nat, pending : SUBSET Piece]
      /\ hook'.pending = left /\ hook'.next = hook.next + Len(run)
  BY <1>1, <1>3, <1>5, <1>6
<1>8. CASE isNew
  <2>1. hook'.msg = created
    BY <1>3, <1>8
  <2>2. QED BY <1>3, <1>4, <1>5, <1>6, <1>7, <1>8, <2>1
<1>9. CASE ~isNew
  <2>1. hook'.msg = hook.msg
    BY <1>3, <1>9
  <2>2. QED BY <1>3, <1>4, <1>5, <1>6, <1>7, <1>9, <2>1
<1>10. QED BY <1>8, <1>9

\* A fresh hook.
LEMMA FreshFacts ==
  /\ FreshHook \in [msg : Nat \cup {NoMessage}, next : Nat, pending : SUBSET Piece]
  /\ IsFiniteSet(FreshHook.pending)
  /\ FreshHook.msg = NoMessage /\ FreshHook.next = 0 /\ FreshHook.pending = {}
BY FS_EmptySet DEF FreshHook

LEMMA ChatInitType == ChatInit => ChatTypeOK
<1> SUFFICES ASSUME ChatInit PROVE ChatTypeOK
  OBVIOUS
<1>1. Len(emitted) = 0 /\ delivered \in 0..0
  BY DEF ChatInit, Init
<1>2. messages \in Messages
  BY DEF ChatInit, Messages
<1>3. QED
  BY <1>1, <1>2, FreshFacts DEF ChatInit, ChatTypeOK

LEMMA ChatStepType ==
  TypeOK /\ TypeOK' /\ ChatTypeOK /\ [ChatNext]_chatVars => ChatTypeOK'
<1> SUFFICES ASSUME TypeOK, TypeOK', ChatTypeOK, [ChatNext]_chatVars PROVE ChatTypeOK'
  OBVIOUS
<1> DEFINE HookType == [msg : Nat \cup {NoMessage}, next : Nat, pending : SUBSET Piece]
<1>0. << >> \in Seq(Piece) /\ Len(emitted) \in Nat
  BY DEF TypeOK
<1>1. CASE Backend \/ UNCHANGED chatVars
  <2>1. [Next]_vars /\ UNCHANGED uiVars
    BY <1>1 DEF Backend, chatVars
  <2>2. Len(emitted) <= Len(emitted') /\ Len(emitted') \in Nat
    BY <2>1, ServiceGrows DEF TypeOK
  <2>3. QED
    BY <1>0, <2>1, <2>2 DEF ChatTypeOK, uiVars, ghostVars
<1>2. ASSUME NEW r \in Requests, Send(r) PROVE ChatTypeOK'
  BY <1>2 DEF Send, ChatTypeOK, vars
<1>3. ASSUME NEW r \in Requests, HandleRejection(r) PROVE ChatTypeOK'
  <2>1. sentFrom[r] \in Tabs
    BY <1>3 DEF HandleRejection, Pending, Sent, ChatTypeOK
  <2>2. AddMessage(messages, sentFrom[r], "error", << >>) \in Messages
    BY <1>0, <2>1, AddMessageFacts DEF ChatTypeOK, Added
  <2>3. QED
    BY <1>3, <2>2 DEF HandleRejection, ChatTypeOK, vars
<1>4. CASE Clear
  <2>1. messages' \in Messages
    BY <1>4 DEF Clear, ChatTypeOK, Messages
  <2>2. QED
    BY <1>4, <2>1 DEF Clear, ChatTypeOK, vars
<1>5. ASSUME NEW t \in Tabs, SwitchTab(t) PROVE ChatTypeOK'
  BY <1>5, FreshFacts DEF SwitchTab, ChatTypeOK, vars
<1>6. CASE Deliver
  <2> DEFINE e == emitted[delivered + 1]
  <2>1. /\ delivered + 1 \in 1..Len(emitted) /\ e \in EventType /\ e.req \in Requests
        /\ e.kind = "chunk" => e \in Piece
        /\ \/ e.kind = "chunk" /\ HandleChunk(e)
           \/ e.kind = "done"  /\ HandleDone(e)
           \/ e.kind = "error" /\ HandleError(e)
    BY <1>6, NextEvent
  <2>2. /\ delivered' = delivered + 1
        /\ UNCHANGED <<emitted, activeTab, sentFrom>>
    BY <1>6 DEF Deliver, vars
  <2>3. delivered' \in 0..Len(emitted)
    BY <1>0, <2>1, <2>2
  <2> HIDE DEF e
  <2>4. messages \in Messages /\ created \in Nat /\ activeTab \in Tabs /\ settled \subseteq Requests
    BY DEF ChatTypeOK
  <2>5. ASSUME hook' \in HookType, IsFiniteSet(hook'.pending), messages' \in Messages,
               created' \in Nat, settled' \subseteq Requests
        PROVE  ChatTypeOK'
    BY <2>2, <2>3, <2>4, <2>5 DEF ChatTypeOK
  <2>6. CASE HandleChunk(e) /\ e.kind = "chunk"
    <3>1. PICK run \in Seq(Piece) :
           /\ hook' \in HookType
           /\ IsFiniteSet(hook'.pending)
           /\ \/ /\ messages' = AddMessage(messages, activeTab, "streaming", run)
                 /\ created' = created + 1
              \/ /\ messages' = AppendPieces(messages, activeTab, hook.msg, run)
                 /\ created' = created
      BY <2>1, <2>6, ChunkFacts
    <3>2. AddMessage(messages, activeTab, "streaming", run) \in Messages
      BY <2>4, AddMessageFacts DEF Added
    <3>3. AppendPieces(messages, activeTab, hook.msg, run) \in Messages
      BY <2>4, AppendFacts DEF Continued
    <3>4. settled' = settled
      BY <2>6 DEF HandleChunk
    <3>5. QED BY <2>4, <2>5, <3>1, <3>2, <3>3, <3>4
  <2>7. CASE HandleDone(e)
    <3>1. messages' \in Messages
      BY <2>4, <2>7, SetStatusFacts DEF HandleDone, Marked
    <3>2. QED BY <2>1, <2>4, <2>5, <2>7, <3>1, FreshFacts DEF HandleDone
  <2>8. CASE HandleError(e)
    <3>1. AddMessage(messages, activeTab, "error", << >>) \in Messages
      BY <1>0, <2>4, AddMessageFacts DEF Added
    <3>2. SetStatus(messages, activeTab, hook.msg, "error") \in Messages
      BY <2>4, SetStatusFacts DEF Marked
    <3>3. messages' \in Messages /\ created' \in Nat
      BY <2>4, <2>8, <3>1, <3>2 DEF HandleError
    <3>4. QED BY <2>1, <2>4, <2>5, <2>8, <3>3, FreshFacts DEF HandleError
  <2>9. QED BY <2>1, <2>6, <2>7, <2>8
<1>7. QED
  BY <1>1, <1>2, <1>3, <1>4, <1>5, <1>6 DEF ChatNext

InSequence(m) == \A k \in DOMAIN m.pieces : m.pieces[k].seq = k - 1

\* A message is older than the next id and its pieces are in sequence; the one
\* the hook writes to holds as many pieces as the hook has numbered.
MessagesInv ==
  /\ \A t \in Tabs : \A i \in DOMAIN messages[t] :
       messages[t][i].id < created /\ InSequence(messages[t][i])
  /\ hook.msg = NoMessage => hook.next = 0
  /\ hook.msg # NoMessage => hook.msg < created
  /\ \A i \in DOMAIN messages[activeTab] :
       messages[activeTab][i].id = hook.msg
         => Len(messages[activeTab][i].pieces) = hook.next

LEMMA MessageIds ==
  ASSUME ChatTypeOK, NEW t \in Tabs, NEW i \in DOMAIN messages[t]
  PROVE  /\ messages[t][i] \in Message /\ messages[t][i].id \in Nat
         /\ messages[t][i].id # NoMessage /\ messages[t][i].pieces \in Seq(Piece)
<1>1. messages[t] \in Seq(Message)
  BY DEF ChatTypeOK, Messages
<1>2. messages[t][i] \in Message
  BY <1>1
<1>3. QED BY <1>2, ChatAssumption DEF Message

\* A step that leaves the hook fresh.
LEMMA MessagesFresh ==
  ASSUME ChatTypeOK', hook' = FreshHook,
         \A t \in Tabs : \A i \in DOMAIN messages'[t] :
           messages'[t][i].id < created' /\ InSequence(messages'[t][i])
  PROVE  MessagesInv'
<1>1. \A i \in DOMAIN messages'[activeTab'] : messages'[activeTab'][i].id # NoMessage
  <2>1. messages'[activeTab'] \in Seq(Message)
    BY DEF ChatTypeOK, Messages
  <2>2. \A i \in DOMAIN messages'[activeTab'] : messages'[activeTab'][i] \in Message
    BY <2>1
  <2>3. QED BY <2>2, ChatAssumption DEF Message
<1>2. hook'.msg = NoMessage /\ hook'.next = 0
  BY FreshFacts
<1>3. QED
  BY <1>1, <1>2 DEF MessagesInv, InSequence

\* An error message of its own, in any tab.
LEMMA MessagesAdd ==
  ASSUME ChatTypeOK, MessagesInv, NEW t \in Tabs,
         messages' = AddMessage(messages, t, "error", << >>), created' = created + 1
  PROVE  /\ \A u \in Tabs : \A i \in DOMAIN messages'[u] :
              messages'[u][i].id < created' /\ InSequence(messages'[u][i])
         /\ \A u \in Tabs : \A i \in DOMAIN messages'[u] :
              \/ i \in DOMAIN messages[u] /\ messages'[u][i] = messages[u][i]
              \/ messages'[u][i].id = created
<1> DEFINE m == [id |-> created, status |-> "error", pieces |-> << >>]
           n == Len(messages[t])
<1>0. messages \in Messages /\ created \in Nat /\ << >> \in Seq(Piece)
  BY DEF ChatTypeOK
<1>1. /\ messages' \in Messages
      /\ \A u \in Tabs \ {t} : messages'[u] = messages[u]
      /\ Len(messages'[t]) = n + 1 /\ n \in Nat
      /\ \A i \in DOMAIN messages[t] : messages'[t][i] = messages[t][i]
      /\ messages'[t][n + 1] = m
  <2>1. Added(messages', messages, t, "error", << >>)
    BY <1>0, AddMessageFacts
  <2>2. QED BY <2>1 DEF Added
<1>2. messages[t] \in Seq(Message) /\ messages'[t] \in Seq(Message)
  BY <1>0, <1>1 DEF Messages
<1>3. /\ DOMAIN messages[t] = 1..n
      /\ \A i \in DOMAIN messages'[t] : i \in 1..n \/ i = n + 1
  BY <1>1, <1>2
<1>4. m.id = created /\ InSequence(m)
  BY DEF InSequence
<1> HIDE DEF m, n
<1>5. ASSUME NEW u \in Tabs, NEW i \in DOMAIN messages'[u]
      PROVE  \/ i \in DOMAIN messages[u] /\ messages'[u][i] = messages[u][i]
             \/ messages'[u][i] = m
  BY <1>1, <1>3
<1>6. ASSUME NEW u \in Tabs, NEW i \in DOMAIN messages'[u]
      PROVE  messages'[u][i].id < created' /\ InSequence(messages'[u][i])
  <2>1. CASE messages'[u][i] = m
    BY <1>0, <1>4, <2>1
  <2>2. CASE i \in DOMAIN messages[u] /\ messages'[u][i] = messages[u][i]
    <3>1. messages[u][i].id \in Nat
      BY <2>2, MessageIds
    <3>2. messages[u][i].id < created /\ InSequence(messages[u][i])
      BY <2>2 DEF MessagesInv
    <3>3. QED BY <1>0, <2>2, <3>1, <3>2
  <2>3. QED BY <1>5, <2>1, <2>2
<1>7. QED BY <1>4, <1>5, <1>6

\* Finalizing or interrupting a message.
LEMMA MessagesStatus ==
  ASSUME ChatTypeOK, MessagesInv, NEW status \in {"final", "error"},
         messages' = SetStatus(messages, activeTab, hook.msg, status), created' = created
  PROVE  \A u \in Tabs : \A i \in DOMAIN messages'[u] :
           messages'[u][i].id < created' /\ InSequence(messages'[u][i])
<1>1. messages \in Messages /\ activeTab \in Tabs
  BY DEF ChatTypeOK
<1>2. \A u \in Tabs :
        /\ DOMAIN messages'[u] = DOMAIN messages[u]
        /\ \A i \in DOMAIN messages[u] : /\ messages'[u][i].id = messages[u][i].id
                                         /\ messages'[u][i].pieces = messages[u][i].pieces
  <2>1. Marked(messages', messages, activeTab, hook.msg, status)
    BY <1>1, SetStatusFacts
  <2>2. QED BY <2>1 DEF Marked
<1>3. QED
  BY <1>2 DEF MessagesInv, InSequence

\* A run of chunks: the first of a new message, or more of the hook's.
LEMMA MessagesChunk ==
  ASSUME ChatTypeOK, MessagesInv, NEW e \in Piece, HandleChunk(e), activeTab' = activeTab
  PROVE  MessagesInv'
<1> DEFINE t == activeTab
<1>0. /\ messages \in Messages /\ created \in Nat /\ t \in Tabs
      /\ hook \in [msg : Nat \cup {NoMessage}, next : Nat, pending : SUBSET Piece]
  BY DEF ChatTypeOK
<1>1. PICK run \in Seq(Piece) :
        /\ \A i \in 1..Len(run) : run[i].seq = hook.next + i - 1
        /\ hook'.next = hook.next + Len(run)
        /\ \/ /\ hook.msg = NoMessage /\ run # << >> /\ hook'.msg = created
              /\ messages' = AddMessage(messages, t, "streaming", run)
              /\ created' = created + 1
           \/ /\ hook.msg # NoMessage \/ run = << >>
              /\ hook'.msg = hook.msg
              /\ messages' = AppendPieces(messages, t, hook.msg, run)
              /\ created' = created
  BY ChunkFacts
<1>2. DOMAIN run = 1..Len(run) /\ Len(run) \in Nat
  OBVIOUS
<1>3. CASE /\ hook.msg = NoMessage /\ hook'.msg = created
           /\ messages' = AddMessage(messages, t, "streaming", run)
           /\ created' = created + 1
  <2> DEFINE m == [id |-> created, status |-> "streaming", pieces |-> run]
             n == Len(messages[t])
  <2>1. /\ messages' \in Messages
        /\ \A u \in Tabs \ {t} : messages'[u] = messages[u]
        /\ Len(messages'[t]) = n + 1 /\ n \in Nat
        /\ \A i \in DOMAIN messages[t] : messages'[t][i] = messages[t][i]
        /\ messages'[t][n + 1] = m
    <3>1. Added(messages', messages, t, "streaming", run)
      BY <1>0, <1>3, AddMessageFacts
    <3>2. QED BY <3>1 DEF Added
  <2>2. messages[t] \in Seq(Message) /\ messages'[t] \in Seq(Message)
    BY <1>0, <2>1 DEF Messages
  <2>3. /\ DOMAIN messages[t] = 1..n
        /\ \A i \in DOMAIN messages'[t] : i \in 1..n \/ i = n + 1
    BY <2>1, <2>2
  <2>4. hook.next = 0 /\ hook'.next = Len(run)
    BY <1>1, <1>2, <1>3 DEF MessagesInv
  <2>5. m.id = created /\ m.pieces = run
    OBVIOUS
  <2>6. InSequence(m)
    BY <1>1, <1>2, <2>4, <2>5 DEF InSequence
  <2> HIDE DEF m, n
  <2>7. ASSUME NEW u \in Tabs, NEW i \in DOMAIN messages'[u]
        PROVE  \/ i \in DOMAIN messages[u] /\ messages'[u][i] = messages[u][i]
               \/ messages'[u][i] = m
    BY <2>1, <2>3
  <2>8. ASSUME NEW u \in Tabs, NEW i \in DOMAIN messages'[u]
        PROVE  /\ messages'[u][i].id < created' /\ InSequence(messages'[u][i])
               /\ messages'[u][i].id = created => messages'[u][i] = m
    <3>1. CASE messages'[u][i] = m
      BY <1>0, <1>3, <2>5, <2>6, <3>1
    <3>2. CASE i \in DOMAIN messages[u] /\ messages'[u][i] = messages[u][i]
      <4>1. messages[u][i].id \in Nat
        BY <3>2, MessageIds
      <4>2. messages[u][i].id < created /\ InSequence(messages[u][i])
        BY <3>2 DEF MessagesInv
      <4>3. QED BY <1>0, <1>3, <3>2, <4>1, <4>2
    <3>3. QED BY <2>7, <3>1, <3>2
  <2>9. hook'.msg # NoMessage /\ hook'.msg < created'
    BY <1>0, <1>3, ChatAssumption
  <2>10. \A i \in DOMAIN messages'[t] :
           messages'[t][i].id = hook'.msg => Len(messages'[t][i].pieces) = hook'.next
    BY <1>0, <1>3, <2>4, <2>5, <2>8
  <2>11. QED
    BY <2>8, <2>9, <2>10 DEF MessagesInv, InSequence
<1>4. CASE /\ hook.msg # NoMessage \/ run = << >>
           /\ hook'.msg = hook.msg
           /\ messages' = AppendPieces(messages, t, hook.msg, run)
           /\ created' = created
  <2>1. /\ \A u \in Tabs \ {t} : messages'[u] = messages[u]
        /\ DOMAIN messages'[t] = DOMAIN messages[t]
        /\ \A i \in DOMAIN messages[t] :
              /\ messages'[t][i].id = messages[t][i].id
              /\ messages[t][i].id # hook.msg => messages'[t][i] = messages[t][i]
              /\ messages[t][i].id = hook.msg
                   => messages'[t][i].pieces = messages[t][i].pieces \o run
    <3>1. Continued(messages', messages, t, hook.msg, run)
      BY <1>0, <1>4, AppendFacts
    <3>2. QED BY <3>1 DEF Continued
  <2>2. ASSUME NEW i \in DOMAIN messages[t], messages[t][i].id = hook.msg
        PROVE  /\ InSequence(messages'[t][i])
               /\ Len(messages'[t][i].pieces) = hook'.next
    <3> DEFINE p == messages[t][i].pieces
    <3>1. /\ p \in Seq(Piece) /\ messages'[t][i].pieces = p \o run
          /\ Len(p) = hook.next
          /\ \A k \in DOMAIN p : p[k].seq = k - 1
      BY <1>0, <2>1, <2>2, MessageIds DEF MessagesInv, InSequence
    <3> HIDE DEF p
    <3>2. /\ Len(p) \in Nat /\ Len(p \o run) = Len(p) + Len(run)
          /\ DOMAIN p = 1..Len(p) /\ DOMAIN (p \o run) = 1..Len(p) + Len(run)
          /\ \A k \in 1..Len(p) : (p \o run)[k] = p[k]
          /\ \A k \in Len(p) + 1..Len(p) + Len(run) : (p \o run)[k] = run[k - Len(p)]
      BY <1>2, <3>1
    <3>3. ASSUME NEW k \in DOMAIN (p \o run) PROVE (p \o run)[k].seq = k - 1
      <4>1. CASE k \in 1..Len(p)
        BY <3>1, <3>2, <4>1
      <4>2. CASE k \in Len(p) + 1..Len(p) + Len(run)
        <5>1. k - Len(p) \in 1..Len(run)
          BY <1>2, <3>2, <4>2
        <5>2. run[k - Len(p)].seq = hook.next + (k - Len(p)) - 1
          BY <1>1, <5>1
        <5>3. hook.next + (k - Len(p)) - 1 = k - 1
          BY <1>0, <3>1, <3>2, <4>2
        <5>4. QED BY <3>2, <4>2, <5>2, <5>3
      <4>3. k \in 1..Len(p) \/ k \in Len(p) + 1..Len(p) + Len(run)
        BY <1>2, <3>2
      <4>4. QED BY <4>1, <4>2, <4>3
    <3>4. InSequence(messages'[t][i])
      BY <3>1, <3>3 DEF InSequence
    <3>5. Len(messages'[t][i].pieces) = hook'.next
      BY <1>1, <3>1, <3>2
    <3>6. QED BY <3>4, <3>5
  <2>3. ASSUME NEW u \in Tabs, NEW i \in DOMAIN messages'[u]
        PROVE  messages'[u][i].id < created' /\ InSequence(messages'[u][i])
    <3>1. i \in DOMAIN messages[u] /\ messages'[u][i].id = messages[u][i].id
      BY <2>1, <2>3
    <3>2. messages[u][i].id < created /\ InSequence(messages[u][i])
      BY <3>1 DEF MessagesInv
    <3>3. InSequence(messages'[u][i])
      BY <2>1, <2>2, <3>1, <3>2
    <3>4. QED BY <1>4, <3>1, <3>2, <3>3
  <2>4. hook'.msg = NoMessage => hook'.next = 0
    BY <1>1, <1>4 DEF MessagesInv
  <2>5. hook'.msg # NoMessage => hook'.msg < created'
    BY <1>4 DEF MessagesInv
  <2>6. \A i \in DOMAIN messages'[t] :
          messages'[t][i].id = hook'.msg => Len(messages'[t][i].pieces) = hook'.next
    BY <1>4, <2>1, <2>2
  <2>7. QED
    BY <2>3, <2>4, <2>5, <2>6 DEF MessagesInv, InSequence
<1>5. QED BY <1>1, <1>3, <1>4

LEMMA MessagesStep ==
  TypeOK /\ ChatTypeOK /\ ChatTypeOK' /\ MessagesInv /\ [ChatNext]_chatVars => MessagesInv'
<1> SUFFICES ASSUME TypeOK, ChatTypeOK, ChatTypeOK', MessagesInv, [ChatNext]_chatVars
    PROVE  MessagesInv'
  OBVIOUS
<1>0. created \in Nat /\ messages \in Messages /\ activeTab \in Tabs
  BY DEF ChatTypeOK
<1>1. ASSUME UNCHANGED <<hook, messages, created, activeTab>> PROVE MessagesInv'
  BY <1>1 DEF MessagesInv, InSequence
<1>2. CASE Backend \/ UNCHANGED chatVars
  BY <1>1, <1>2 DEF Backend, chatVars, uiVars
<1>3. ASSUME NEW r \in Requests, Send(r) PROVE MessagesInv'
  BY <1>1, <1>3 DEF Send
<1>4. ASSUME NEW r \in Requests, HandleRejection(r) PROVE MessagesInv'
  <2>1. sentFrom[r] \in Tabs
    BY <1>4 DEF HandleRejection, Pending, Sent, ChatTypeOK
  <2>2. /\ messages' = AddMessage(messages, sentFrom[r], "error", << >>)
        /\ created' = created + 1 /\ UNCHANGED <<hook, activeTab>>
    BY <1>4 DEF HandleRejection
  <2>3. /\ \A u \in Tabs : \A i \in DOMAIN messages'[u] :
              messages'[u][i].id < created' /\ InSequence(messages'[u][i])
        /\ \A u \in Tabs : \A i \in DOMAIN messages'[u] :
              \/ i \in DOMAIN messages[u] /\ messages'[u][i] = messages[u][i]
              \/ messages'[u][i].id = created
    BY <2>1, <2>2, MessagesAdd
  <2>4. hook.msg # created
    BY <1>0, ChatAssumption DEF MessagesInv, ChatTypeOK
  <2>5. \A i \in DOMAIN messages'[activeTab] :
          messages'[activeTab][i].id = hook.msg
            => Len(messages'[activeTab][i].pieces) = hook.next
    BY <1>0, <2>3, <2>4 DEF MessagesInv
  <2>6. hook.msg # NoMessage => hook.msg < created'
    BY <1>0, <2>2 DEF MessagesInv, ChatTypeOK
  <2>7. QED
    BY <2>2, <2>3, <2>5, <2>6 DEF MessagesInv, InSequence
<1>5. CASE Clear
  <2>1. /\ messages' = [messages EXCEPT ![activeTab] = << >>]
        /\ UNCHANGED <<hook, activeTab, created>>
    BY <1>5 DEF Clear
  <2>2. messages'[activeTab] = << >>
        /\ \A u \in Tabs \ {activeTab} : messages'[u] = messages[u]
    BY <1>0, <2>1 DEF Messages
  <2>3. DOMAIN messages'[activeTab] = {}
    BY <2>2
  <2>4. QED
    BY <2>1, <2>2, <2>3 DEF MessagesInv, InSequence
<1>6. ASSUME NEW t \in Tabs, SwitchTab(t) PROVE MessagesInv'
  <2>1. UNCHANGED <<messages, created>> /\ hook' = FreshHook
    BY <1>6 DEF SwitchTab
  <2>2. \A u \in Tabs : \A i \in DOMAIN messages'[u] :
          messages'[u][i].id < created' /\ InSequence(messages'[u][i])
    BY <2>1 DEF MessagesInv, InSequence
  <2>3. QED BY <2>1, <2>2, MessagesFresh
<1>7. CASE Deliver
  <2> DEFINE e == emitted[delivered + 1]
  <2>1. /\ e.kind = "chunk" => e \in Piece
        /\ \/ e.kind = "chunk" /\ HandleChunk(e)
           \/ e.kind = "done"  /\ HandleDone(e)
           \/ e.kind = "error" /\ HandleError(e)
    BY <1>7, NextEvent
  <2>2. activeTab' = activeTab
    BY <1>7 DEF Deliver
  <2> HIDE DEF e
  <2>3. CASE e \in Piece /\ HandleChunk(e)
    BY <2>2, <2>3, MessagesChunk
  <2>4. CASE HandleDone(e)
    <3>1. /\ messages' = SetStatus(messages, activeTab, hook.msg, "final")
          /\ created' = created /\ hook' = FreshHook
      BY <2>4 DEF HandleDone
    <3>2. QED BY <3>1, MessagesStatus, MessagesFresh
  <2>5. CASE HandleError(e)
    <3>1. hook' = FreshHook
      BY <2>5 DEF HandleError
    <3>2. CASE hook.msg = NoMessage
      <4>1. /\ messages' = AddMessage(messages, activeTab, "error", << >>)
            /\ created' = created + 1
        BY <2>5, <3>2 DEF HandleError
      <4>2. QED BY <1>0, <3>1, <4>1, MessagesAdd, MessagesFresh
    <3>3. CASE hook.msg # NoMessage
      <4>1. /\ messages' = SetStatus(messages, activeTab, hook.msg, "error")
            /\ created' = created
        BY <2>5, <3>3 DEF HandleError
      <4>2. QED BY <3>1, <4>1, MessagesStatus, MessagesFresh
    <3>4. QED BY <3>2, <3>3
  <2>6. QED BY <2>1, <2>3, <2>4, <2>5
<1>8. QED
  BY <1>2, <1>3, <1>4, <1>5, <1>6, <1>7 DEF ChatNext

LEMMA MessagesHold == ChatSpec => [](ChatTypeOK /\ MessagesInv)
<1>1. ChatInit => MessagesInv
  <2> SUFFICES ASSUME ChatInit PROVE MessagesInv
    OBVIOUS
  <2>1. \A t \in Tabs : DOMAIN messages[t] = {}
    BY DEF ChatInit
  <2>2. QED
    BY <2>1, FreshFacts DEF ChatInit, MessagesInv
<1>2. QED
  BY <1>1, ChatInitType, ChatStepType, MessagesStep, ChatRunsTheService, TypeCorrect,
     PTL DEF ChatSpec

\* Whatever overlaps, is lost, cleared or switched, no piece of a message is
\* skipped or repeated (useLLMStream.ts:29-38).
THEOREM PiecesStayInSequence == ChatSpec => []PiecesInSequence
<1>1. MessagesInv => PiecesInSequence
  BY DEF MessagesInv, InSequence, PiecesInSequence, AllMessages
<1>2. QED
  BY <1>1, MessagesHold, PTL

-----------------------------------------------------------------------------
(* Who is waiting for an outcome.                                          *)

\* A request is settled by its rejection or by its terminal event, and the hook
\* holds something of a request that is not settled yet.
SettledInv ==
  /\ \A r \in Requests : stage[r] # "new" => Sent(r)
  /\ \A r \in settled :
       /\ Sent(r)
       /\ \/ stage[r] = "rejected"
          \/ \E i \in 1..delivered : emitted[i].req = r /\ ~Chunk(i)
  /\ \A i \in 1..delivered : ~Chunk(i) => emitted[i].req \in settled
  /\ hook # FreshHook => \E q \in Requests : Pending(q) /\ stage[q] \in {"streaming", "ended"}

\* An event still to be delivered is one of a pending request.
LEMMA UndeliveredIsPending ==
  ASSUME TypeOK, TerminalInv, OrderInv, ChatTypeOK, SettledInv,
         NEW i \in delivered + 1..Len(emitted)
  PROVE  /\ emitted[i].req \in Requests /\ Pending(emitted[i].req)
         /\ stage[emitted[i].req] \in {"streaming", "ended"}
         /\ ~Chunk(i) => ~Abandoned(emitted[i].req)
<1> DEFINE r == emitted[i].req
<1>1. delivered \in Nat /\ Len(emitted) \in Nat /\ delivered <= Len(emitted)
      /\ i \in 1..Len(emitted) /\ i > delivered
  BY DEF ChatTypeOK, TypeOK
<1>2. emitted[i] \in EventType
  BY <1>1 DEF TypeOK
<1>3. r \in Requests
  BY <1>2 DEF EventType
<1>4. stage[r] \in {"streaming", "ended"}
  BY <1>1 DEF OrderInv
<1>5. Sent(r)
  BY <1>3, <1>4 DEF SettledInv
<1>6. r \notin settled
  <2> SUFFICES ASSUME r \in settled PROVE FALSE
    OBVIOUS
  <2>1. PICK j \in 1..delivered : emitted[j].req = r /\ ~Chunk(j)
    BY <1>4 DEF SettledInv
  <2>2. j \in 1..Len(emitted) /\ j < i
    BY <1>1
  <2>3. emitted[j].kind = "chunk"
    BY <1>1, <2>1, <2>2 DEF TerminalInv, NothingAfterTerminalEvent
  <2>4. QED BY <2>1, <2>3 DEF Chunk
<1>7. ~Chunk(i) => ~Abandoned(r)
  BY <1>1 DEF Abandoned, Chunk
<1>8. QED BY <1>3, <1>4, <1>5, <1>6, <1>7 DEF Pending

\* A step of the request path: nobody is settled, and who was abandoned stays so.
LEMMA BackendKeeps ==
  ASSUME TypeOK, TypeOK', ChatTypeOK, [Next]_vars, UNCHANGED uiVars
  PROVE  /\ \A i \in 1..delivered : i \in 1..Len(emitted) /\ emitted'[i] = emitted[i]
         /\ \A i \in 1..delivered : Chunk(i)' <=> Chunk(i)
         /\ \A r \in Requests : /\ Sent(r)' <=> Sent(r)
                                /\ Pending(r)' <=> Pending(r)
                                /\ Abandoned(r) => Abandoned(r)'
         /\ InFlight' \subseteq InFlight
<1>1. /\ Len(emitted) <= Len(emitted') /\ Len(emitted) \in Nat /\ Len(emitted') \in Nat
      /\ \A i \in 1..Len(emitted) : emitted'[i] = emitted[i]
      /\ \A i \in Len(emitted) + 1..Len(emitted') :
           stage[emitted'[i].req] \in {"launched", "streaming"}
      /\ \A q \in Requests : stage[q] = "ended" => stage'[q] = "ended"
  BY ServiceGrows DEF TypeOK
<1>2. \A i \in 1..delivered : i \in 1..Len(emitted)
  BY <1>1 DEF ChatTypeOK
<1>3. ASSUME NEW r \in Requests, Abandoned(r) PROVE Abandoned(r)'
  <2>1. stage[r] = "ended" /\ stage'[r] = "ended"
    BY <1>1, <1>3 DEF Abandoned
  <2>2. ASSUME NEW i \in 1..Len(emitted'), emitted'[i].req = r
        PROVE  emitted'[i].kind = "chunk"
    <3>1. i \in 1..Len(emitted) \/ i \in Len(emitted) + 1..Len(emitted')
      BY <1>1
    <3>2. i \notin Len(emitted) + 1..Len(emitted')
      BY <1>1, <2>1, <2>2
    <3>3. QED BY <1>1, <1>3, <2>2, <3>1, <3>2 DEF Abandoned
  <2>3. QED BY <2>1, <2>2 DEF Abandoned
<1>4. \A r \in Requests : (Sent(r)' <=> Sent(r)) /\ (Pending(r)' <=> Pending(r))
  BY DEF Sent, Pending, uiVars, ghostVars
<1>5. InFlight' \subseteq InFlight
  BY <1>3, <1>4 DEF InFlight
<1>6. \A i \in 1..delivered : Chunk(i)' <=> Chunk(i)
  BY <1>1, <1>2 DEF Chunk
<1>7. QED BY <1>1, <1>2, <1>3, <1>4, <1>5, <1>6

LEMMA FrontendKeeps ==
  ASSUME UNCHANGED vars
  PROVE  /\ \A r : Abandoned(r)' <=> Abandoned(r)
         /\ \A i : Chunk(i)' <=> Chunk(i)
BY DEF vars, requestVars, Abandoned, Chunk

LEMMA SettledStep ==
  TypeOK /\ TypeOK' /\ TerminalInv /\ OrderInv /\ ChatTypeOK /\ SettledInv
    /\ [ChatNext]_chatVars => SettledInv'
<1> SUFFICES ASSUME TypeOK, TypeOK', TerminalInv, OrderInv, ChatTypeOK, SettledInv,
                    [ChatNext]_chatVars
    PROVE  SettledInv'
  OBVIOUS
<1>1. CASE Backend \/ UNCHANGED chatVars
  <2>1. [Next]_vars /\ UNCHANGED uiVars
    BY <1>1 DEF Backend, chatVars
  <2>2. UNCHANGED <<delivered, hook, settled>>
    BY <2>1 DEF uiVars, ghostVars
  <2>3. /\ \A i \in 1..delivered : emitted'[i] = emitted[i] /\ (Chunk(i)' <=> Chunk(i))
        /\ \A r \in Requests : (Sent(r)' <=> Sent(r)) /\ (Pending(r)' <=> Pending(r))
    BY <2>1, BackendKeeps
  <2>4. /\ \A q \in Requests : stage[q] = "ended" => stage'[q] = "ended"
        /\ \A q \in Requests : stage[q] = "rejected" => stage'[q] = "rejected"
        /\ \A q \in Requests : stage[q] = "streaming" => stage'[q] \in {"streaming", "ended"}
    BY <2>1, ServiceGrows
  <2>5. \A r \in Requests : stage'[r] # "new" => Sent(r)'
    <3>1. \A r \in Requests : stage'[r] # stage[r] => Sent(r)
      BY <1>1 DEF Backend, chatVars, vars, requestVars
    <3>2. QED BY <2>3, <3>1 DEF SettledInv
  <2>6. settled \subseteq Requests
    BY DEF ChatTypeOK
  <2>7. ASSUME NEW r \in settled
        PROVE  /\ Sent(r)'
               /\ \/ stage'[r] = "rejected"
                  \/ \E i \in 1..delivered : emitted'[i].req = r /\ ~Chunk(i)'
    BY <2>3, <2>4, <2>6 DEF SettledInv
  <2>8. \A i \in 1..delivered : ~Chunk(i)' => emitted'[i].req \in settled
    BY <2>3 DEF SettledInv
  <2>9. hook # FreshHook => \E q \in Requests : Pending(q)' /\ stage'[q] \in {"streaming", "ended"}
    BY <2>3, <2>4 DEF SettledInv
  <2>10. QED
    BY <2>2, <2>5, <2>7, <2>8, <2>9 DEF SettledInv, FreshHook
<1>2. ASSUME UNCHANGED vars, UNCHANGED <<delivered, sentFrom, settled>>,
             hook' = hook \/ hook' = FreshHook
      PROVE  SettledInv'
  <2>1. UNCHANGED <<stage, emitted>>
    BY <1>2 DEF vars, requestVars
  <2>2. QED
    BY <1>2, <2>1 DEF SettledInv, Sent, Pending, Chunk, FreshHook
<1>3. ASSUME NEW r \in Requests, Send(r) PROVE SettledInv'
  <2>1. UNCHANGED <<stage, emitted, delivered, settled, hook>>
    BY <1>3 DEF Send, vars, requestVars
  <2>2. \A q \in Requests : /\ Sent(q) => Sent(q)'
                            /\ Pending(q) => Pending(q)'
    BY <1>3, ChatAssumption DEF Send, Sent, Pending, ChatTypeOK
  <2>3. settled \subseteq Requests
    BY DEF ChatTypeOK
  <2>4. QED
    BY <2>1, <2>2, <2>3 DEF SettledInv, Chunk, FreshHook
<1>4. ASSUME NEW r \in Requests, HandleRejection(r) PROVE SettledInv'
  <2>1. /\ UNCHANGED <<stage, emitted, delivered, hook, sentFrom>>
        /\ settled' = settled \cup {r} /\ stage[r] = "rejected" /\ Sent(r)
    BY <1>4 DEF HandleRejection, Pending, vars, requestVars
  <2>2. \A q \in Requests : /\ Sent(q)' <=> Sent(q)
                            /\ Pending(q) /\ stage[q] # "rejected" => Pending(q)'
    BY <2>1 DEF Sent, Pending
  <2>3. settled \subseteq Requests
    BY DEF ChatTypeOK
  <2>4. QED
    BY <2>1, <2>2, <2>3 DEF SettledInv, Chunk, FreshHook
<1>5. CASE Clear
  BY <1>2, <1>5 DEF Clear
<1>6. ASSUME NEW t \in Tabs, SwitchTab(t) PROVE SettledInv'
  BY <1>2, <1>6 DEF SwitchTab
<1>7. CASE Deliver
  <2> DEFINE n == delivered + 1
             e == emitted[n]
  <2>1. /\ n \in 1..Len(emitted) /\ e.req \in Requests
        /\ \/ e.kind = "chunk" /\ HandleChunk(e)
           \/ e.kind = "done"  /\ HandleDone(e)
           \/ e.kind = "error" /\ HandleError(e)
    BY <1>7, NextEvent
  <2>2. delivered' = n /\ UNCHANGED <<stage, emitted, sentFrom>>
    BY <1>7 DEF Deliver, vars, requestVars
  <2>3. /\ delivered \in Nat /\ Len(emitted) \in Nat
        /\ n \in delivered + 1..Len(emitted) /\ n \in 1..n
        /\ \A i \in 1..n : i \in 1..delivered \/ i = n
        /\ \A i \in 1..delivered : i \in 1..n
    BY <2>1 DEF ChatTypeOK, TypeOK
  <2>4. Pending(e.req) /\ stage[e.req] \in {"streaming", "ended"} /\ Sent(e.req)
    BY <2>3, UndeliveredIsPending DEF Pending
  <2>5. (Chunk(n) <=> e.kind = "chunk") /\ \A i : Chunk(i)' <=> Chunk(i)
    BY <2>2 DEF Chunk
  <2>6. \A q \in Requests : Sent(q)' <=> Sent(q)
    BY <2>2 DEF Sent
  <2>7. settled \subseteq Requests
    BY DEF ChatTypeOK
  <2> HIDE DEF n, e
  <2>8. CASE e.kind = "chunk" /\ HandleChunk(e)
    <3>1. settled' = settled
      BY <2>8 DEF HandleChunk
    <3>2. PICK q \in Requests : q = e.req
      BY <2>1
    <3>3. Pending(q)' /\ stage'[q] \in {"streaming", "ended"}
      BY <2>2, <2>4, <3>1, <3>2 DEF Pending, Sent
    <3>4. \A i \in 1..n : ~Chunk(i) => emitted[i].req \in settled
      BY <2>3, <2>5, <2>8 DEF SettledInv
    <3>5. \A r \in settled : /\ Sent(r)
                             /\ \/ stage[r] = "rejected"
                                \/ \E i \in 1..n : emitted[i].req = r /\ ~Chunk(i)
      BY <2>3 DEF SettledInv
    <3>6. \A r \in Requests : stage[r] # "new" => Sent(r)
      BY DEF SettledInv
    <3>7. QED
      BY <2>2, <2>5, <2>6, <2>7, <3>1, <3>3, <3>4, <3>5, <3>6 DEF SettledInv
  <2>9. CASE e.kind # "chunk" /\ (HandleDone(e) \/ HandleError(e))
    <3>1. settled' = settled \cup {e.req} /\ hook' = FreshHook
      BY <2>9 DEF HandleDone, HandleError
    <3>2. \A i \in 1..n : ~Chunk(i) => emitted[i].req \in settled'
      BY <2>3, <3>1 DEF SettledInv, e
    <3>3. \A r \in settled' : /\ Sent(r)
                              /\ \/ stage[r] = "rejected"
                                 \/ \E i \in 1..n : emitted[i].req = r /\ ~Chunk(i)
      <4>1. \A r \in settled : /\ Sent(r)
                               /\ \/ stage[r] = "rejected"
                                  \/ \E i \in 1..n : emitted[i].req = r /\ ~Chunk(i)
        BY <2>3 DEF SettledInv
      <4>2. Sent(e.req) /\ \E i \in 1..n : emitted[i].req = e.req /\ ~Chunk(i)
        BY <2>3, <2>4, <2>5, <2>9 DEF e
      <4>3. QED BY <3>1, <4>1, <4>2
    <3>4. hook' = FreshHook'
      BY <3>1 DEF FreshHook
    <3>5. \A r \in Requests : stage[r] # "new" => Sent(r)
      BY DEF SettledInv
    <3>6. settled' \subseteq Requests
      BY <2>1, <2>7, <3>1
    <3>7. QED
      BY <2>2, <2>5, <2>6, <3>2, <3>3, <3>4, <3>5, <3>6 DEF SettledInv
  <2>10. QED BY <2>1, <2>8, <2>9
<1>8. QED
  BY <1>1, <1>3, <1>4, <1>5, <1>6, <1>7 DEF ChatNext

LEMMA SettledHolds == ChatSpec => []SettledInv
<1>1. ChatInit => SettledInv
  <2> SUFFICES ASSUME ChatInit PROVE SettledInv
    OBVIOUS
  <2>1. /\ \A r \in Requests : stage[r] = "new"
        /\ delivered = 0 /\ 1..0 = {} /\ settled = {} /\ hook = FreshHook
    BY DEF ChatInit, Init
  <2>2. QED BY <2>1 DEF SettledInv
<1>2. QED
  BY <1>1, SettledStep, MessagesHold, OrderHolds, TerminalInvHolds, TypeCorrect,
     ChatRunsTheService, PTL DEF ChatSpec

\* Two requests in flight have met, and one that was sent while an abandoned one
\* was still pending is marked.
CompanyInv ==
  /\ IndicatorOnWhileAlone
  /\ \A r \in InFlight, q \in InFlight : r # q => r \in company
  /\ \A r \in InFlight, q \in Requests :
       r # q /\ Pending(q) => r \in company \cup afterTimeout

\* The outcome of a request in flight may clear the indicator: any other in
\* flight is in company.
LEMMA CompanySettles ==
  ASSUME CompanyInv, SettledInv, ChatTypeOK, UNCHANGED vars,
         NEW r \in InFlight, settled' = settled \cup {r},
         UNCHANGED <<sentFrom, company, afterTimeout>>
  PROVE  CompanyInv'
<1>1. \A q \in Requests : Pending(q)' <=> Pending(q) /\ q # r
  BY DEF Pending, Sent
<1>2. InFlight' \subseteq InFlight \ {r}
  BY <1>1, FrontendKeeps DEF InFlight
<1>3. \A q \in InFlight' : q \in company
  BY <1>2 DEF CompanyInv
<1>4. QED
  BY <1>1, <1>2, <1>3 DEF CompanyInv, IndicatorOnWhileAlone

LEMMA CompanyStep ==
  TypeOK /\ TypeOK' /\ TerminalInv /\ OrderInv /\ ChatTypeOK /\ SettledInv /\ CompanyInv
    /\ [ChatNext]_chatVars => CompanyInv'
<1> SUFFICES ASSUME TypeOK, TypeOK', TerminalInv, OrderInv, ChatTypeOK, SettledInv,
                    CompanyInv, [ChatNext]_chatVars
    PROVE  CompanyInv'
  OBVIOUS
<1>1. ASSUME InFlight' \subseteq InFlight, UNCHANGED <<llmRequest, company, afterTimeout>>,
             \A q \in Requests : Pending(q)' <=> Pending(q)
      PROVE  CompanyInv'
  BY <1>1 DEF CompanyInv, IndicatorOnWhileAlone
<1>2. CASE Backend \/ UNCHANGED chatVars
  <2>1. [Next]_vars /\ UNCHANGED uiVars
    BY <1>2 DEF Backend, chatVars
  <2>2. QED
    BY <1>1, <2>1, BackendKeeps DEF uiVars, ghostVars
<1>3. ASSUME UNCHANGED vars,
             UNCHANGED <<llmRequest, sentFrom, settled, company, afterTimeout>>
      PROVE  CompanyInv'
  <2>1. \A q \in Requests : Pending(q)' <=> Pending(q)
    BY <1>3 DEF Pending, Sent
  <2>2. InFlight' \subseteq InFlight
    BY <1>3, <2>1, FrontendKeeps DEF InFlight
  <2>3. QED BY <1>1, <1>3, <2>1, <2>2
<1>4. ASSUME NEW r \in Requests, Send(r) PROVE CompanyInv'
  <2>1. /\ llmRequest' = TRUE /\ UNCHANGED vars /\ UNCHANGED settled
        /\ sentFrom' = [sentFrom EXCEPT ![r] = activeTab]
        /\ company' = IF InFlight = {} THEN company ELSE company \cup InFlight \cup {r}
        /\ afterTimeout' = IF \E q \in Requests : Pending(q) /\ Abandoned(q)
                           THEN afterTimeout \cup {r} ELSE afterTimeout
    BY <1>4 DEF Send
  <2>2. \A q \in Requests \ {r} : Pending(q)' <=> Pending(q)
    BY <2>1 DEF Pending, Sent, ChatTypeOK
  <2>3. InFlight' \subseteq InFlight \cup {r}
    BY <2>2, <2>1, FrontendKeeps DEF InFlight
  <2>4. company \subseteq company' /\ afterTimeout \subseteq afterTimeout'
    BY <2>1
  <2>5. ASSUME NEW a \in InFlight', NEW q \in Requests, a # q, Pending(q)'
        PROVE  a \in company' \cup afterTimeout'
    <3>1. CASE InFlight # {}
      BY <2>1, <2>3, <3>1
    <3>2. CASE InFlight = {}
      <4>1. a = r /\ Pending(q)
        BY <2>2, <2>3, <2>5, <3>2
      <4>2. Abandoned(q)
        BY <3>2, <4>1 DEF InFlight
      <4>3. QED BY <2>1, <4>1, <4>2
    <3>3. QED BY <3>1, <3>2
  <2>6. ASSUME NEW a \in InFlight', NEW q \in InFlight', a # q PROVE a \in company'
    <3>1. InFlight # {}
      BY <2>3, <2>6
    <3>2. QED BY <2>1, <2>3, <3>1
  <2>7. QED
    BY <2>1, <2>5, <2>6 DEF CompanyInv, IndicatorOnWhileAlone
<1>5. ASSUME NEW r \in Requests, HandleRejection(r) PROVE CompanyInv'
  <2>1. r \in InFlight
    BY <1>5 DEF HandleRejection, InFlight, Abandoned
  <2>2. QED
    BY <1>5, <2>1, CompanySettles DEF HandleRejection
<1>6. CASE Clear
  BY <1>3, <1>6 DEF Clear
<1>7. ASSUME NEW t \in Tabs, SwitchTab(t) PROVE CompanyInv'
  BY <1>3, <1>7 DEF SwitchTab
<1>8. CASE Deliver
  <2> DEFINE e == emitted[delivered + 1]
  <2>1. /\ delivered + 1 \in 1..Len(emitted) /\ e.req \in Requests
        /\ \/ e.kind = "chunk" /\ HandleChunk(e)
           \/ e.kind = "done"  /\ HandleDone(e)
           \/ e.kind = "error" /\ HandleError(e)
    BY <1>8, NextEvent
  <2>2. UNCHANGED vars /\ UNCHANGED <<sentFrom, company, afterTimeout>>
    BY <1>8 DEF Deliver
  <2>3. delivered + 1 \in delivered + 1..Len(emitted)
    BY <2>1 DEF ChatTypeOK, TypeOK
  <2>4. Pending(e.req) /\ (e.kind # "chunk" => ~Abandoned(e.req))
    BY <2>3, UndeliveredIsPending DEF Chunk
  <2>5. CASE e.kind = "chunk" /\ HandleChunk(e)
    BY <1>3, <2>2, <2>5 DEF HandleChunk
  <2>6. CASE e.kind # "chunk" /\ (HandleDone(e) \/ HandleError(e))
    <3>1. e.req \in InFlight
      BY <2>1, <2>4, <2>6 DEF InFlight
    <3>2. settled' = settled \cup {e.req}
      BY <2>6 DEF HandleDone, HandleError
    <3> HIDE DEF e
    <3>3. QED BY <2>2, <3>1, <3>2, CompanySettles
  <2>7. QED BY <2>1, <2>5, <2>6
<1>9. QED
  BY <1>2, <1>4, <1>5, <1>6, <1>7, <1>8 DEF ChatNext

LEMMA CompanyHolds == ChatSpec => []CompanyInv
<1>1. ChatInit => CompanyInv
  <2> SUFFICES ASSUME ChatInit PROVE CompanyInv
    OBVIOUS
  <2>1. \A r \in Requests : ~Sent(r)
    BY DEF ChatInit, Sent
  <2>2. InFlight = {}
    BY <2>1 DEF InFlight, Pending
  <2>3. QED BY <2>2 DEF CompanyInv, IndicatorOnWhileAlone
<1>2. QED
  BY <1>1, CompanyStep, SettledHolds, MessagesHold, OrderHolds, TerminalInvHolds,
     TypeCorrect, ChatRunsTheService, PTL DEF ChatSpec

\* A request that is alone keeps the activity indicator on until its outcome is
\* handled, whatever was sent, settled or abandoned before (ChatPane.tsx:194-199).
THEOREM IndicatorStaysOn == ChatSpec => []IndicatorOnWhileAlone
<1>1. CompanyInv => IndicatorOnWhileAlone
  BY DEF CompanyInv
<1>2. QED
  BY <1>1, CompanyHolds, PTL

-----------------------------------------------------------------------------
(* A quiet request is shown.                                               *)

\* Message m holds the n chunks of request r that end at piece t of its text.
Holds(m, r, n, t) ==
  /\ n # 0 /\ Len(m.pieces) = n /\ m.pieces[n].last = t
  /\ \A k \in DOMAIN m.pieces :
       /\ m.pieces[k].req = r
       /\ m.pieces[k].first = IF k = 1 THEN 1 ELSE m.pieces[k - 1].last + 1

\* What has been delivered of request r is what the hook has written to the
\* active tab, and nothing else is pending there.
Written(r) ==
  /\ activeTab = sentFrom[r]
  /\ hook.pending = {}
  /\ \E t \in TextCount :
       /\ At(emitted, delivered, r, hook.next, t)
       /\ hook.msg # NoMessage =>
            \E i \in DOMAIN messages[activeTab] :
              /\ messages[activeTab][i].id = hook.msg
              /\ Holds(messages[activeTab][i], r, hook.next, t)

\* The finished message of request r is no longer the hook's.
Kept(r) ==
  \E i \in DOMAIN messages[sentFrom[r]] :
    LET m == messages[sentFrom[r]][i] IN
      /\ m.id # hook.msg /\ m.status = "final" /\ m.pieces # << >> /\ Covers(m, r)

QuietInv ==
  /\ \A r \in InFlight : Quiet(r) => Written(r)
  /\ \A r \in Requests : Quiet(r) /\ Answered(r) => Kept(r)

\* The text before a chunk is empty exactly when it is the first.
LEMMA AtZero ==
  ASSUME TypeOK, NEW p \in 0..Len(emitted), NEW r, NEW n, NEW t, At(emitted, p, r, n, t)
  PROVE  n = 0 => t = 0
<1>1. ASSUME NEW j \in 1..p PROVE emitted[j].seq \in Nat
  <2>1. j \in 1..Len(emitted)
    BY DEF TypeOK
  <2>2. emitted[j] \in EventType
    BY <2>1 DEF TypeOK
  <2>3. QED BY <2>2 DEF EventType, TextCount
<1>2. ASSUME NEW j \in 1..p, emitted[j].seq + 1 = n PROVE n # 0
  BY <1>1, <1>2
<1>3. QED BY <1>2 DEF At

\* With nothing pending, a chunk with the next number is appended at once.
LEMMA ChunkInTurn ==
  ASSUME ChatTypeOK, NEW e \in Piece, HandleChunk(e), hook.pending = {}, e.seq = hook.next
  PROVE  /\ hook'.pending = {} /\ hook'.next = hook.next + 1
         /\ << e >> \in Seq(Piece)
         /\ \/ /\ hook.msg = NoMessage /\ hook'.msg = created
               /\ messages' = AddMessage(messages, activeTab, "streaming", << e >>)
            \/ /\ hook.msg # NoMessage /\ hook'.msg = hook.msg
               /\ messages' = AppendPieces(messages, activeTab, hook.msg, << e >>)
<1> DEFINE waiting == {p \in hook.pending : p.seq # e.seq} \cup {e}
           run == Run(waiting, hook.next)
           isNew == hook.msg = NoMessage /\ run # << >>
           left == {p \in waiting : \A i \in DOMAIN run : run[i] # p}
<1>1. /\ hook' = [msg |-> IF isNew THEN created ELSE hook.msg,
                  next |-> hook.next + Len(run), pending |-> left]
      /\ messages' = IF isNew THEN AddMessage(messages, activeTab, "streaming", run)
                     ELSE AppendPieces(messages, activeTab, hook.msg, run)
  BY DEF HandleChunk
<1>2. waiting = {e}
  OBVIOUS
<1> HIDE DEF waiting
<1>3. run = << e >>
  BY <1>2, RunOfOne
<1> HIDE DEF run
<1>4. run # << >> /\ Len(run) = 1 /\ DOMAIN run = {1} /\ run[1] = e
  BY <1>3
<1>5. left = {}
  BY <1>2, <1>4
<1> HIDE DEF left
<1>6. QED BY <1>1, <1>3, <1>4, <1>5

\* A message that is not the hook's stays as it is, and never becomes the hook's,
\* until its tab is cleared.
LEMMA MessageKept ==
  ASSUME TypeOK, ChatTypeOK, MessagesInv, [ChatNext]_chatVars,
         NEW t \in Tabs, NEW i \in DOMAIN messages[t], messages[t][i].id # hook.msg,
         Clear => t # activeTab
  PROVE  /\ i \in DOMAIN messages'[t] /\ messages'[t][i] = messages[t][i]
         /\ messages[t][i].id # hook'.msg
<1> DEFINE m == messages[t][i]
<1>0. /\ created \in Nat /\ messages \in Messages /\ activeTab \in Tabs
      /\ << >> \in Seq(Piece)
  BY DEF ChatTypeOK
<1>1. m.id \in Nat /\ m.id # NoMessage
  BY MessageIds
<1>2. m.id < created
  BY DEF MessagesInv
<1>3. m.id # created
  BY <1>0, <1>1, <1>2
<1>4. m.id # FreshHook.msg
  BY <1>1, FreshFacts
<1>5. ASSUME NEW u \in Tabs, NEW status \in {"streaming", "final", "error"},
             NEW pieces \in Seq(Piece),
             messages' = AddMessage(messages, u, status, pieces)
      PROVE  i \in DOMAIN messages'[t] /\ messages'[t][i] = m
  <2>1. Added(messages', messages, u, status, pieces)
    BY <1>0, <1>5, AddMessageFacts
  <2>2. QED BY <2>1 DEF Added
<1>6. ASSUME NEW run \in Seq(Piece),
             messages' = AppendPieces(messages, activeTab, hook.msg, run)
      PROVE  i \in DOMAIN messages'[t] /\ messages'[t][i] = m
  <2>1. Continued(messages', messages, activeTab, hook.msg, run)
    BY <1>0, <1>6, AppendFacts
  <2>2. QED BY <2>1 DEF Continued
<1>7. ASSUME NEW status \in {"streaming", "final", "error"},
             messages' = SetStatus(messages, activeTab, hook.msg, status)
      PROVE  i \in DOMAIN messages'[t] /\ messages'[t][i] = m
  <2>1. Marked(messages', messages, activeTab, hook.msg, status)
    BY <1>0, <1>7, SetStatusFacts
  <2>2. QED BY <2>1 DEF Marked
<1>8. CASE Backend \/ UNCHANGED chatVars
  BY <1>8 DEF Backend, chatVars, uiVars
<1>9. ASSUME NEW r \in Requests, Send(r) PROVE UNCHANGED <<messages, hook>>
  BY <1>9 DEF Send
<1>10. ASSUME NEW r \in Requests, HandleRejection(r)
       PROVE  i \in DOMAIN messages'[t] /\ messages'[t][i] = m /\ hook' = hook
  <2>1. sentFrom[r] \in Tabs
    BY <1>10 DEF HandleRejection, Pending, Sent, ChatTypeOK
  <2>2. messages' = AddMessage(messages, sentFrom[r], "error", << >>) /\ hook' = hook
    BY <1>10 DEF HandleRejection
  <2>3. QED BY <1>0, <1>5, <2>1, <2>2
<1>11. CASE Clear
  <2>1. hook' = hook /\ messages' = [messages EXCEPT ![activeTab] = << >>]
    BY <1>11 DEF Clear
  <2>2. messages'[t] = messages[t]
    BY <1>0, <1>11, <2>1 DEF Messages
  <2>3. QED BY <2>1, <2>2
<1>12. ASSUME NEW u \in Tabs, SwitchTab(u) PROVE messages' = messages /\ hook' = FreshHook
  BY <1>12 DEF SwitchTab
<1>13. CASE Deliver
  <2> DEFINE e == emitted[delivered + 1]
  <2>1. /\ e.kind = "chunk" => e \in Piece
        /\ \/ e.kind = "chunk" /\ HandleChunk(e)
           \/ e.kind = "done"  /\ HandleDone(e)
           \/ e.kind = "error" /\ HandleError(e)
    BY <1>13, NextEvent
  <2> HIDE DEF e
  <2>2. CASE e \in Piece /\ HandleChunk(e)
    <3>1. PICK run \in Seq(Piece) :
           \/ /\ hook'.msg = created
              /\ messages' = AddMessage(messages, activeTab, "streaming", run)
           \/ /\ hook'.msg = hook.msg
              /\ messages' = AppendPieces(messages, activeTab, hook.msg, run)
      BY <2>2, ChunkFacts
    <3>2. CASE /\ hook'.msg = created
               /\ messages' = AddMessage(messages, activeTab, "streaming", run)
      BY <1>0, <1>3, <1>5, <3>2
    <3>3. CASE /\ hook'.msg = hook.msg
               /\ messages' = AppendPieces(messages, activeTab, hook.msg, run)
      BY <1>6, <3>3
    <3>4. QED BY <3>1, <3>2, <3>3
  <2>3. CASE HandleDone(e)
    <3>1. hook' = FreshHook
          /\ messages' = SetStatus(messages, activeTab, hook.msg, "final")
      BY <2>3 DEF HandleDone
    <3>2. QED BY <1>4, <1>7, <3>1
  <2>4. CASE HandleError(e)
    <3>1. /\ hook' = FreshHook
          /\ \/ messages' = AddMessage(messages, activeTab, "error", << >>)
             \/ messages' = SetStatus(messages, activeTab, hook.msg, "error")
      BY <2>4 DEF HandleError
    <3>2. CASE messages' = AddMessage(messages, activeTab, "error", << >>)
      BY <1>0, <1>4, <1>5, <3>1, <3>2
    <3>3. CASE messages' = SetStatus(messages, activeTab, hook.msg, "error")
      BY <1>4, <1>7, <3>1, <3>3
    <3>4. QED BY <3>1, <3>2, <3>3
  <2>5. QED BY <2>1, <2>2, <2>3, <2>4
<1>14. QED
  BY <1>4, <1>8, <1>9, <1>10, <1>11, <1>12, <1>13 DEF ChatNext

\* A quiet request is the only one that waits for anything.
LEMMA QuietIsAlone ==
  ASSUME CompanyInv, NEW r \in InFlight, Quiet(r), NEW q \in Requests, Pending(q)
  PROVE  q = r
BY DEF CompanyInv, Quiet

\* Quiet requests were quiet before, and stay where they were sent from.
LEMMA GhostsGrow ==
  ASSUME ChatTypeOK, SettledInv, [ChatNext]_chatVars, NEW r \in Requests
  PROVE  /\ Quiet(r)' => Quiet(r)
         /\ Sent(r) => sentFrom'[r] = sentFrom[r]
<1>1. ASSUME NEW q \in Requests, Send(q)
      PROVE  /\ Quiet(r)' => Quiet(r)
             /\ Sent(r) => sentFrom'[r] = sentFrom[r]
  <2>1. company \subseteq company' /\ afterTimeout \subseteq afterTimeout' /\ moved' = moved
    BY <1>1 DEF Send
  <2>2. Sent(r) => r # q /\ sentFrom'[r] = sentFrom[r]
    BY <1>1 DEF Send, ChatTypeOK, Sent
  <2>3. QED BY <2>1, <2>2 DEF Quiet
<1>2. QED
  BY <1>1 DEF ChatNext, Backend, HandleRejection, Clear, SwitchTab, Deliver, chatVars,
              uiVars, ghostVars, Quiet

\* Sending a request that is quiet: nothing is on the wire, so the hook is fresh.
LEMMA WrittenAtSend ==
  ASSUME TypeOK, OrderInv, ChatTypeOK, SettledInv, NEW r \in Requests, Send(r), Quiet(r)'
  PROVE  Written(r)'
<1>1. /\ UNCHANGED vars /\ UNCHANGED <<delivered, activeTab, hook, messages>>
      /\ sentFrom' = [sentFrom EXCEPT ![r] = activeTab] /\ ~Sent(r)
      /\ company' = IF InFlight = {} THEN company ELSE company \cup InFlight \cup {r}
      /\ afterTimeout' = IF \E q \in Requests : Pending(q) /\ Abandoned(q)
                         THEN afterTimeout \cup {r} ELSE afterTimeout
  BY DEF Send
<1>2. InFlight = {}
  BY <1>1 DEF Quiet
<1>3. ~\E q \in Requests : Pending(q) /\ Abandoned(q)
  BY <1>1 DEF Quiet
<1>4. \A q \in Requests : ~Pending(q)
  BY <1>2, <1>3 DEF InFlight
<1>5. hook = FreshHook
  BY <1>4 DEF SettledInv
<1>6. sentFrom'[r] = activeTab
  BY <1>1 DEF ChatTypeOK
<1>7. At(emitted, delivered, r, 0, 0)
  <2>1. stage[r] = "new"
    BY <1>1 DEF SettledInv
  <2>2. \A j \in 1..delivered : j \in 1..Len(emitted)
    BY DEF ChatTypeOK, TypeOK
  <2>3. \A j \in 1..delivered : emitted[j].req # r
    BY <2>1, <2>2 DEF OrderInv
  <2>4. QED BY <2>3 DEF At
<1>8. 0 \in TextCount
  BY LLMAssumption DEF TextCount
<1>9. emitted' = emitted
  BY <1>1 DEF vars
<1>10. QED
  BY <1>1, <1>5, <1>6, <1>7, <1>8, <1>9, FreshFacts DEF Written

\* A chunk of the quiet request: it is the next one, and the hook writes it.
LEMMA WrittenAtChunk ==
  ASSUME TypeOK, OrderInv, ChatTypeOK, MessagesInv, NEW r \in Requests, Written(r),
         UNCHANGED <<emitted, activeTab, sentFrom>>, delivered' = delivered + 1,
         delivered + 1 \in 1..Len(emitted),
         NEW e \in Piece, e = emitted[delivered + 1], e.req = r, HandleChunk(e)
  PROVE  Written(r)'
<1> DEFINE t == activeTab
           n == hook.next
<1>0. /\ messages \in Messages /\ t \in Tabs /\ created \in Nat /\ n \in Nat
      /\ delivered \in Nat /\ delivered \in 0..Len(emitted)
  BY DEF ChatTypeOK, TypeOK
<1>1. e.kind = "chunk" /\ e.last \in TextCount /\ e.first \in Nat /\ e.seq \in Nat
  BY DEF Piece, EventType, TextCount
<1>2. PICK u \in TextCount :
        /\ At(emitted, delivered, r, n, u)
        /\ hook.msg # NoMessage =>
             \E i \in DOMAIN messages[t] :
               /\ messages[t][i].id = hook.msg
               /\ Holds(messages[t][i], r, n, u)
  BY DEF Written
<1>3. At(emitted, delivered, r, e.seq, e.first - 1)
  <2>1. PICK k \in 1..Len(emitted) : k = delivered + 1
    OBVIOUS
  <2>2. Chunk(k) => At(emitted, k - 1, emitted[k].req, emitted[k].seq, emitted[k].first - 1)
    BY DEF OrderInv
  <2>3. k - 1 = delivered /\ emitted[k] = e
    BY <1>0, <2>1
  <2>4. Chunk(k)
    BY <1>1, <2>3 DEF Chunk
  <2>5. QED BY <2>2, <2>3, <2>4
<1>4. e.seq = n /\ u = e.first - 1
  BY <1>0, <1>2, <1>3, AtOnce
<1>5. /\ hook'.pending = {} /\ hook'.next = n + 1
      /\ << e >> \in Seq(Piece)
      /\ \/ /\ hook.msg = NoMessage /\ hook'.msg = created
            /\ messages' = AddMessage(messages, t, "streaming", << e >>)
         \/ /\ hook.msg # NoMessage /\ hook'.msg = hook.msg
            /\ messages' = AppendPieces(messages, t, hook.msg, << e >>)
  BY <1>4, ChunkInTurn DEF Written
<1>6. At(emitted, delivered + 1, r, n + 1, e.last)
  BY <1>0, <1>1, <1>4, AtChunk
<1>7. ASSUME NEW i \in DOMAIN messages'[t], messages'[t][i].id = hook'.msg,
             Holds(messages'[t][i], r, n + 1, e.last)
      PROVE  Written(r)'
  <2>1. /\ activeTab' = t /\ sentFrom'[r] = t
    BY DEF Written
  <2>2. At(emitted', delivered', r, hook'.next, e.last)
    BY <1>5, <1>6
  <2>3. \E j \in DOMAIN messages'[activeTab'] :
           /\ messages'[activeTab'][j].id = hook'.msg
           /\ Holds(messages'[activeTab'][j], r, hook'.next, e.last)
    BY <1>5, <1>7, <2>1
  <2>4. QED
    BY <1>1, <1>5, <2>1, <2>2, <2>3 DEF Written, Holds
<1>8. CASE /\ hook.msg = NoMessage /\ hook'.msg = created
           /\ messages' = AddMessage(messages, t, "streaming", << e >>)
  <2> DEFINE m == [id |-> created, status |-> "streaming", pieces |-> << e >>]
             k == Len(messages[t]) + 1
  <2>1. Added(messages', messages, t, "streaming", << e >>)
    BY <1>0, <1>5, <1>8, AddMessageFacts
  <2>2. /\ messages' \in Messages /\ Len(messages'[t]) = k /\ Len(messages[t]) \in Nat
        /\ messages'[t][k] = m
    BY <2>1 DEF Added
  <2>3. k \in DOMAIN messages'[t]
    <3>1. messages'[t] \in Seq(Message)
      BY <1>0, <2>2 DEF Messages
    <3>2. QED BY <2>2, <3>1
  <2>4. n = 0 /\ e.first = 1
    <3>1. n = 0
      BY <1>8 DEF MessagesInv
    <3>2. u = 0
      BY <1>0, <1>2, <3>1, AtZero
    <3>3. QED BY <1>1, <1>4, <3>1, <3>2
  <2>5. /\ Len(m.pieces) = 1 /\ DOMAIN m.pieces = {1} /\ m.pieces[1] = e /\ m.id = created
    OBVIOUS
  <2> HIDE DEF m, k
  <2>6. Holds(m, r, n + 1, e.last)
    BY <2>4, <2>5 DEF Holds
  <2>7. QED BY <1>7, <1>8, <2>2, <2>3, <2>5, <2>6
<1>9. CASE /\ hook.msg # NoMessage /\ hook'.msg = hook.msg
           /\ messages' = AppendPieces(messages, t, hook.msg, << e >>)
  <2>1. Continued(messages', messages, t, hook.msg, << e >>)
    BY <1>0, <1>5, <1>9, AppendFacts
  <2>2. PICK i \in DOMAIN messages[t] : messages[t][i].id = hook.msg
                                        /\ Holds(messages[t][i], r, n, u)
    BY <1>2, <1>9
  <2> DEFINE p == messages[t][i].pieces
             m == messages'[t][i]
  <2>3. /\ i \in DOMAIN messages'[t] /\ m.id = hook.msg
        /\ m.pieces = p \o << e >>
    BY <2>1, <2>2 DEF Continued
  <2>4. p \in Seq(Piece)
    BY <1>0, MessageIds
  <2>5. /\ n # 0 /\ Len(p) = n /\ p[n].last = u
        /\ \A k \in DOMAIN p : /\ p[k].req = r
                               /\ p[k].first = IF k = 1 THEN 1 ELSE p[k - 1].last + 1
    BY <2>2 DEF Holds
  <2> HIDE DEF p, m
  <2>6. /\ Len(p \o << e >>) = n + 1 /\ DOMAIN (p \o << e >>) = 1..n + 1 /\ DOMAIN p = 1..n
        /\ \A k \in 1..n : (p \o << e >>)[k] = p[k]
        /\ (p \o << e >>)[n + 1] = e
    BY <1>0, <2>4, <2>5
  <2>7. ASSUME NEW k \in 1..n + 1
        PROVE  /\ m.pieces[k].req = r
               /\ m.pieces[k].first = IF k = 1 THEN 1 ELSE m.pieces[k - 1].last + 1
    <3>1. CASE k \in 1..n
      <4>1. m.pieces[k] = p[k] /\ k \in DOMAIN p
        BY <2>3, <2>6, <3>1
      <4>2. ASSUME k # 1 PROVE m.pieces[k - 1] = p[k - 1]
        <5>1. k - 1 \in 1..n
          BY <1>0, <3>1, <4>2
        <5>2. QED BY <2>3, <2>6, <5>1
      <4>3. p[k].req = r /\ p[k].first = IF k = 1 THEN 1 ELSE p[k - 1].last + 1
        BY <2>5, <4>1
      <4>4. CASE k = 1
        BY <4>1, <4>3, <4>4
      <4>5. CASE k # 1
        BY <4>1, <4>2, <4>3, <4>5
      <4>6. QED BY <4>4, <4>5
    <3>2. CASE k = n + 1
      <4>1. k - 1 = n /\ n \in 1..n /\ k # 1
        BY <1>0, <2>5, <3>2
      <4>2. m.pieces[k] = e /\ m.pieces[k - 1].last = u
        BY <2>3, <2>5, <2>6, <3>2, <4>1
      <4>3. e.first = u + 1
        BY <1>1, <1>4
      <4>4. QED BY <4>1, <4>2, <4>3
    <3>3. QED BY <1>0, <3>1, <3>2
  <2>8. Holds(m, r, n + 1, e.last)
    <3>1. n + 1 # 0
      BY <1>0
    <3>2. QED BY <2>3, <2>6, <2>7, <3>1 DEF Holds
  <2>9. QED BY <1>7, <1>9, <2>3, <2>8 DEF m
<1>10. QED BY <1>5, <1>8, <1>9

\* The event that ends a quiet request: the hook holds its whole text.
LEMMA KeptAtDone ==
  ASSUME TypeOK, OrderInv, ChatTypeOK, MessagesInv, NEW r \in Requests, Written(r),
         UNCHANGED <<vars, activeTab, sentFrom>>,
         delivered + 1 \in 1..Len(emitted), Received(r) > 0,
         NEW e, e = emitted[delivered + 1], e.req = r, e.kind = "done", HandleDone(e)
  PROVE  Kept(r)'
<1> DEFINE t == activeTab
           n == hook.next
<1>0. /\ messages \in Messages /\ t \in Tabs /\ created \in Nat /\ n \in Nat
      /\ delivered \in Nat /\ delivered \in 0..Len(emitted) /\ Received(r) \in Nat
  BY DEF ChatTypeOK, TypeOK, Received, TextCount
<1>1. PICK c : At(emitted, delivered, r, c, Received(r))
  <2>1. PICK k \in 1..Len(emitted) : k = delivered + 1
    OBVIOUS
  <2>2. emitted[k].kind = "done" =>
          \E m \in TextCount : At(emitted, k - 1, emitted[k].req, m, Received(emitted[k].req))
    BY DEF OrderInv
  <2>3. k - 1 = delivered /\ emitted[k] = e
    BY <1>0, <2>1
  <2>4. QED BY <2>2, <2>3
<1>2. PICK u \in TextCount :
        /\ At(emitted, delivered, r, n, u)
        /\ hook.msg # NoMessage =>
             \E i \in DOMAIN messages[t] :
               /\ messages[t][i].id = hook.msg
               /\ Holds(messages[t][i], r, n, u)
  BY DEF Written
<1>3. u = Received(r)
  BY <1>0, <1>1, <1>2, AtOnce
<1>4. n # 0
  BY <1>0, <1>2, <1>3, AtZero
<1>5. hook.msg # NoMessage
  BY <1>4 DEF MessagesInv
<1>6. PICK i \in DOMAIN messages[t] : messages[t][i].id = hook.msg
                                      /\ Holds(messages[t][i], r, n, u)
  BY <1>2, <1>5
<1>7. /\ messages' = SetStatus(messages, t, hook.msg, "final")
      /\ hook' = FreshHook
  BY DEF HandleDone
<1>8. Marked(messages', messages, t, hook.msg, "final")
  BY <1>0, <1>7, SetStatusFacts
<1> DEFINE m == messages'[t][i]
<1>9. /\ i \in DOMAIN messages'[t] /\ m.id = hook.msg /\ m.status = "final"
      /\ m.pieces = messages[t][i].pieces
  BY <1>6, <1>8 DEF Marked
<1>10. hook'.msg = NoMessage
  BY <1>7, FreshFacts
<1>11. sentFrom'[r] = t /\ Received(r)' = Received(r)
  BY DEF Written, vars, requestVars, Received
<1> HIDE DEF m
<1>12. Holds(m, r, n, Received(r))
  BY <1>3, <1>6, <1>9 DEF Holds
<1>13. m.pieces # << >>
  BY <1>4, <1>12 DEF Holds
<1>14. /\ \A k \in DOMAIN m.pieces : m.pieces[k].req = r
       /\ \A k \in DOMAIN m.pieces :
            m.pieces[k].first = IF k = 1 THEN 1 ELSE m.pieces[k - 1].last + 1
       /\ m.pieces[Len(m.pieces)].last = Received(r)
  BY <1>12 DEF Holds
<1>15. /\ i \in DOMAIN messages'[sentFrom'[r]] /\ messages'[sentFrom'[r]][i] = m
       /\ m.id # hook'.msg /\ m.status = "final"
  BY <1>5, <1>9, <1>10, <1>11 DEF m
<1>16. PICK p : p = m
  OBVIOUS
<1>17. Covers(p, r)'
  BY <1>11, <1>14, <1>16 DEF Covers
<1>18. QED
  BY <1>13, <1>15, <1>16, <1>17 DEF Kept

\* A request that was answered: no step takes its message from it, or makes it
\* the hook's again, unless the tab is cleared.
LEMMA KeptStays ==
  ASSUME TypeOK, TypeOK', TerminalInv, ChatTypeOK, MessagesInv, SettledInv,
         [ChatNext]_chatVars, NEW r \in Requests, Kept(r), Answered(r), Quiet(r)'
  PROVE  Kept(r)'
<1>1. PICK j \in 1..delivered : emitted[j].req = r /\ emitted[j].kind = "done"
  BY DEF Answered
<1>2. j \in 1..Len(emitted)
  BY DEF ChatTypeOK, TypeOK
<1>3. stage[r] = "ended"
  BY <1>1, <1>2 DEF TerminalInv
<1>4. r \in settled /\ Sent(r)
  BY <1>1 DEF SettledInv, Chunk
<1>5. sentFrom[r] \in Tabs /\ sentFrom'[r] = sentFrom[r]
  BY <1>4, GhostsGrow DEF Sent, ChatTypeOK
<1>6. [Next]_vars
  BY DEF ChatNext, Backend, Send, HandleRejection, Clear, SwitchTab, Deliver, chatVars
<1>7. Received(r)' = Received(r)
  BY <1>3, <1>6, ServiceGrows DEF Received
<1>8. Clear => sentFrom[r] # activeTab
  BY <1>4 DEF Clear, Quiet
<1> DEFINE t == sentFrom[r]
<1>9. PICK i \in DOMAIN messages[t] :
        /\ messages[t][i].id # hook.msg /\ messages[t][i].status = "final"
        /\ messages[t][i].pieces # << >> /\ Covers(messages[t][i], r)
  BY DEF Kept
<1>10. /\ i \in DOMAIN messages'[t] /\ messages'[t][i] = messages[t][i]
       /\ messages[t][i].id # hook'.msg
  BY <1>5, <1>8, <1>9, MessageKept
<1> DEFINE m == messages[t][i]
<1>11. m.id # hook'.msg /\ m.status = "final" /\ m.pieces # << >> /\ Covers(m, r)
  BY <1>9, <1>10
<1>12. /\ i \in DOMAIN messages'[sentFrom'[r]] /\ messages'[sentFrom'[r]][i] = m
  BY <1>5, <1>10
<1> HIDE DEF m, t
<1>13. PICK p : p = m
  OBVIOUS
<1>14. Covers(p, r)'
  BY <1>7, <1>11, <1>13 DEF Covers
<1>15. QED
  BY <1>11, <1>12, <1>13, <1>14 DEF Kept

\* The first conjunct of QuietInv.
LEMMA WrittenStep ==
  ASSUME TypeOK, TypeOK', TerminalInv, OrderInv, ChatTypeOK, MessagesInv, SettledInv,
         CompanyInv, QuietInv, [ChatNext]_chatVars, NEW r \in Requests, r \in InFlight',
         Quiet(r)'
  PROVE  Written(r)'
<1>1. Quiet(r)
  BY GhostsGrow
<1>2. \/ r \in InFlight /\ Written(r)
      \/ r \notin InFlight
  BY <1>1 DEF QuietInv
<1>3. CASE Backend \/ UNCHANGED chatVars
  <2>1. [Next]_vars /\ UNCHANGED uiVars
    BY <1>3 DEF Backend, chatVars
  <2>2. /\ \A i \in 1..delivered : emitted'[i] = emitted[i]
        /\ InFlight' \subseteq InFlight
    BY <2>1, BackendKeeps
  <2>3. Written(r)
    BY <1>2, <2>2
  <2>4. UNCHANGED <<delivered, activeTab, sentFrom, hook, messages>> /\ delivered \in Nat
    BY <2>1 DEF uiVars, ChatTypeOK, TypeOK
  <2>5. ASSUME NEW n, NEW t, At(emitted, delivered, r, n, t)
        PROVE  At(emitted', delivered, r, n, t)
    BY <2>2, <2>4, <2>5, AtPrefix
  <2>6. PICK t \in TextCount :
          /\ At(emitted, delivered, r, hook.next, t)
          /\ hook.msg # NoMessage =>
               \E i \in DOMAIN messages[activeTab] :
                 /\ messages[activeTab][i].id = hook.msg
                 /\ Holds(messages[activeTab][i], r, hook.next, t)
    BY <2>3 DEF Written
  <2>7. PICK m \in {messages}, h \in {hook}, d \in {delivered}, a \in {activeTab} : TRUE
    OBVIOUS
  <2>8. /\ At(emitted', d, r, h.next, t)
        /\ h.msg # NoMessage =>
             \E i \in DOMAIN m[a] : m[a][i].id = h.msg /\ Holds(m[a][i], r, h.next, t)
    BY <2>5, <2>6, <2>7
  <2>9. messages' = m /\ hook' = h /\ delivered' = d /\ activeTab' = a
        /\ sentFrom'[r] = a /\ h.pending = {}
    BY <2>3, <2>4, <2>7 DEF Written
  <2>10. QED BY <2>8, <2>9 DEF Written, Holds
<1>4. ASSUME NEW q \in Requests, Send(q) PROVE Written(r)'
  <2>1. CASE q = r
    BY <1>4, <2>1, WrittenAtSend
  <2>2. CASE q # r
    <3>1. Pending(r)' <=> Pending(r)
      BY <1>4, <2>2 DEF Send, Pending, Sent, ChatTypeOK
    <3>2. UNCHANGED vars
      BY <1>4 DEF Send
    <3>3. r \in InFlight
      BY <3>1, <3>2, FrontendKeeps DEF InFlight
    <3>4. r \in company'
      BY <1>4, <3>3 DEF Send
    <3>5. QED BY <3>4 DEF Quiet
  <2>3. QED BY <2>1, <2>2
<1>5. ASSUME UNCHANGED <<vars, sentFrom>>, settled \subseteq settled' PROVE r \in InFlight
  BY <1>5, FrontendKeeps DEF InFlight, Pending, Sent
<1>6. ASSUME NEW q \in Requests, HandleRejection(q) PROVE Written(r)'
  <2>1. r \in InFlight /\ Pending(q) /\ q \in settled'
    BY <1>5, <1>6 DEF HandleRejection
  <2>2. q = r
    BY <1>1, <2>1, QuietIsAlone
  <2>3. QED BY <2>1, <2>2 DEF InFlight, Pending
<1>7. CASE Clear
  <2>1. r \in InFlight
    BY <1>5, <1>7 DEF Clear
  <2>2. QED BY <1>7, <2>1 DEF Clear, Quiet
<1>8. ASSUME NEW t \in Tabs, SwitchTab(t) PROVE Written(r)'
  <2>1. r \in InFlight
    BY <1>5, <1>8 DEF SwitchTab
  <2>2. QED BY <1>8, <2>1 DEF SwitchTab, Quiet
<1>9. CASE Deliver
  <2>1. PICK k \in 1..Len(emitted) : k = delivered + 1
    BY <1>9, NextEvent
  <2>2. PICK e \in EventType : e = emitted[k]
    BY <1>9, <2>1, NextEvent
  <2>3. /\ e.kind = "chunk" => e \in Piece
        /\ \/ e.kind = "chunk" /\ HandleChunk(e)
           \/ e.kind = "done"  /\ HandleDone(e)
           \/ e.kind = "error" /\ HandleError(e)
    BY <1>9, <2>1, <2>2, NextEvent
  <2>4. /\ UNCHANGED <<vars, activeTab, sentFrom>> /\ delivered' = delivered + 1
        /\ settled \subseteq settled' /\ (e.kind # "chunk" => e.req \in settled')
    BY <1>9, <2>3 DEF Deliver, HandleChunk, HandleDone, HandleError
  <2>5. r \in InFlight /\ Written(r)
    BY <1>2, <1>5, <2>4
  <2>6. k \in delivered + 1..Len(emitted)
    BY <2>1 DEF ChatTypeOK, TypeOK
  <2>7. e.req \in Requests /\ Pending(e.req)
    BY <2>2, <2>6, UndeliveredIsPending
  <2>8. e.req = r
    BY <1>1, <2>5, <2>7, QuietIsAlone
  <2>9. CASE e.kind = "chunk"
    <3>1. e \in Piece /\ HandleChunk(e)
      BY <2>3, <2>9
    <3>2. emitted' = emitted
      BY <2>4 DEF vars
    <3>3. QED
      BY <2>1, <2>2, <2>4, <2>5, <2>8, <3>1, <3>2, WrittenAtChunk
  <2>10. CASE e.kind # "chunk"
    BY <2>4, <2>8, <2>10 DEF InFlight, Pending
  <2>11. QED BY <2>9, <2>10
<1>10. QED
  BY <1>3, <1>4, <1>6, <1>7, <1>8, <1>9 DEF ChatNext

\* The second.
LEMMA KeptStep ==
  ASSUME TypeOK, TypeOK', TerminalInv, OrderInv, ChatTypeOK, MessagesInv, SettledInv,
         CompanyInv, QuietInv, [ChatNext]_chatVars, NEW r \in Requests,
         Quiet(r)', Answered(r)'
  PROVE  Kept(r)'
<1>1. Quiet(r)
  BY GhostsGrow
<1>2. CASE Answered(r)
  BY <1>1, <1>2, KeptStays DEF QuietInv
<1>3. CASE ~Answered(r)
  <2>1. PICK j \in 1..delivered' : emitted'[j].req = r /\ emitted'[j].kind = "done"
    BY DEF Answered
  <2>2. ASSUME j \in 1..delivered, emitted[j] = emitted'[j] PROVE FALSE
    <3>1. j \in 1..Len(emitted)
      BY <2>2 DEF ChatTypeOK, TypeOK
    <3>2. stage[r] = "ended"
      BY <2>1, <2>2, <3>1 DEF TerminalInv
    <3>3. [Next]_vars
      BY DEF ChatNext, Backend, Send, HandleRejection, Clear, SwitchTab, Deliver, chatVars
    <3>4. Received(r)' = Received(r)
      BY <3>2, <3>3, ServiceGrows DEF Received
    <3>5. QED BY <1>3, <2>1, <2>2, <3>4 DEF Answered
  <2>3. CASE Backend \/ UNCHANGED chatVars
    <3>1. [Next]_vars /\ UNCHANGED uiVars
      BY <2>3 DEF Backend, chatVars
    <3>2. \A i \in 1..delivered : emitted'[i] = emitted[i]
      BY <3>1, BackendKeeps
    <3>3. delivered' = delivered
      BY <3>1 DEF uiVars
    <3>4. QED BY <2>1, <2>2, <3>2, <3>3
  <2>4. CASE (\E q \in Requests : Send(q) \/ HandleRejection(q)) \/ Clear
             \/ (\E t \in Tabs : SwitchTab(t))
    <3>1. UNCHANGED <<vars, delivered>>
      BY <2>4 DEF Send, HandleRejection, Clear, SwitchTab
    <3>2. emitted' = emitted
      BY <3>1 DEF vars
    <3>3. QED BY <2>1, <2>2, <3>1, <3>2
  <2>5. CASE Deliver
    <3>1. PICK k \in 1..Len(emitted) : k = delivered + 1
      BY <2>5, NextEvent
    <3>2. UNCHANGED <<vars, activeTab, sentFrom>> /\ delivered' = delivered + 1
      BY <2>5 DEF Deliver
    <3>3. emitted' = emitted /\ Received(r)' = Received(r) /\ delivered \in Nat
      BY <3>2 DEF vars, requestVars, Received, ChatTypeOK, TypeOK
    <3>4. j = k
      BY <2>1, <2>2, <3>1, <3>2, <3>3
    <3>5. PICK e : e = emitted[k]
      OBVIOUS
    <3>6. e.req = r /\ e.kind = "done"
      BY <2>1, <3>3, <3>4, <3>5
    <3>7. HandleDone(e)
      BY <2>5, <3>1, <3>5, <3>6, NextEvent
    <3>8. k \in delivered + 1..Len(emitted)
      BY <3>1 DEF ChatTypeOK, TypeOK
    <3>9. Pending(r) /\ ~Abandoned(r)
      BY <3>5, <3>6, <3>8, UndeliveredIsPending DEF Chunk
    <3>10. Written(r)
      BY <1>1, <3>9 DEF QuietInv, InFlight
    <3>11. Received(r) > 0
      BY <3>3 DEF Answered
    <3>12. QED
      BY <3>1, <3>2, <3>5, <3>6, <3>7, <3>10, <3>11, KeptAtDone
  <2>6. QED
    BY <2>3, <2>4, <2>5 DEF ChatNext
<1>4. QED BY <1>2, <1>3

LEMMA QuietHolds == ChatSpec => []QuietInv
<1>1. ChatInit => QuietInv
  <2> SUFFICES ASSUME ChatInit PROVE QuietInv
    OBVIOUS
  <2>1. \A r \in Requests : ~Sent(r)
    BY DEF ChatInit, Sent
  <2>2. InFlight = {}
    BY <2>1 DEF InFlight, Pending
  <2>3. \A r \in Requests : ~Answered(r)
    <3>1. delivered = 0 /\ 1..0 = {}
      BY DEF ChatInit
    <3>2. QED BY <3>1 DEF Answered
  <2>4. QED BY <2>2, <2>3 DEF QuietInv
<1>2. TypeOK /\ TypeOK' /\ TerminalInv /\ OrderInv /\ ChatTypeOK /\ MessagesInv
        /\ SettledInv /\ CompanyInv /\ QuietInv /\ [ChatNext]_chatVars => QuietInv'
  <2> SUFFICES ASSUME TypeOK, TypeOK', TerminalInv, OrderInv, ChatTypeOK, MessagesInv,
                      SettledInv, CompanyInv, QuietInv, [ChatNext]_chatVars
      PROVE  QuietInv'
    OBVIOUS
  <2>1. \A r \in Requests : r \in InFlight' /\ Quiet(r)' => Written(r)'
    BY WrittenStep
  <2>2. \A r \in Requests : Quiet(r)' /\ Answered(r)' => Kept(r)'
    BY KeptStep
  <2>3. InFlight' \subseteq Requests
    BY DEF InFlight
  <2>4. QED BY <2>1, <2>2, <2>3 DEF QuietInv
<1>3. QED
  BY <1>1, <1>2, CompanyHolds, SettledHolds, MessagesHold, OrderHolds, TerminalInvHolds,
     TypeCorrect, ChatRunsTheService, PTL DEF ChatSpec

\* A response the user waited for, alone and in its tab, is a finished message
\* of that tab with exactly the text of that response (useLLMStream.ts:40-45).
THEOREM QuietResponsesShown == ChatSpec => []QuietResponseShown
<1>1. QuietInv => QuietResponseShown
  BY DEF QuietInv, QuietResponseShown, Kept, Shown
<1>2. QED
  BY <1>1, QuietHolds, PTL
=============================================================================
