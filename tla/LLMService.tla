----------------------------- MODULE LLMService -----------------------------
(***************************************************************************)
(* The request path of services/llm_service.go: SendMessage, the goroutine *)
(* it starts, the provider's stream goroutine that feeds it, and the       *)
(* callers of RebuildProvider (SaveSettings and SetModel) that run beside  *)
(* it.  LLMService has no lock: a request reads s.activeProvider, s.cfg    *)
(* and the config file at three different moments, and s.activeProvider    *)
(* once more inside the goroutine.                                         *)
(*                                                                         *)
(* A provider and its model are one value of Providers.  Text is counted,  *)
(* not spelled: the n-th chunk of a response is the number n.              *)
(***************************************************************************)
EXTENDS Naturals, Sequences

CONSTANTS
  Requests,     \* calls of SendMessage
  Savers,       \* calls of SaveSettings or SetModel, each made once
  Providers,    \* provider/model choices the catalog can build
  Disabled,     \* the "disabled" opt-out
  NoProvider,   \* an empty provider setting, and a nil s.activeProvider
  EnvProvider,  \* the provider the environment names when the file names none
  MaxText,      \* bound: text chunks a provider sends in one response
  ChanCap,      \* capacity of the chunk channel (32 in the code)
  MaxEdits      \* bound: hand edits of disabled_providers

ProviderSetting == Providers \cup {Disabled, NoProvider}

ASSUME LLMAssumption ==
  /\ Disabled \notin Providers /\ NoProvider \notin Providers
  /\ Disabled # NoProvider
  /\ EnvProvider \in ProviderSetting
  /\ MaxText \in Nat /\ ChanCap \in Nat \ {0} /\ MaxEdits \in Nat

VARIABLES
  disk,      \* config.yaml: provider and disabled_providers
  torn,      \* savers between truncating config.yaml and writing it
  saver,     \* per saver: its stage and the config it holds
  edits,     \* hand edits made so far
  cfg,       \* s.cfg.Provider
  active,    \* s.activeProvider
  stage,     \* per request: where SendMessage or its goroutine is
  target,    \* per request: the provider whose Stream was called (history)
  chan,      \* per request: what its provider has put in the channel
  expired,   \* per request: whether the five-minute context is done
  loop,      \* per request: the goroutine's received, flushed and seq
  audit,     \* entries of the audit log
  emitted,   \* events emitted to the frontend, in order
  crashed    \* an unrecovered panic has ended the process

configVars  == <<disk, torn, saver, edits, cfg, active>>
requestVars == <<stage, target, chan, expired, loop>>
vars == <<configVars, requestVars, audit, emitted, crashed>>

Stages == {"new", "seen", "allowed", "launched", "streaming", "ended",
           "rejected"}
SaverStages == {"idle", "loaded", "writing", "written", "reloaded",
                "assigned", "saved"}
Terms == {"open", "done", "error", "closed"}
NoResult == [sent |-> 0, term |-> "open", failed |-> FALSE]

AppConfig == [provider : ProviderSetting, denied : SUBSET Providers]

\* Config.LoadAppConfig: a file that cannot be read is an empty config.
Readable == IF torn = {} THEN disk
            ELSE [provider |-> NoProvider, denied |-> {}]

\* LoadConfigWithViper: the environment fills in an unset provider.
Effective(p) == IF p = NoProvider THEN EnvProvider ELSE p

\* buildProvider and ResolveProvider: nil for "", "disabled" and the unknown.
Build(p) == IF p \in Providers THEN p ELSE NoProvider

UserMessage(r)    == [event |-> "user_message", req |-> r, size |-> 0]
PolicyDenied(r)   == [event |-> "llm_policy_denied", req |-> r, size |-> 0]
AIResponse(r, n)  == [event |-> "ai_response", req |-> r, size |-> n]

Event(k, r, s, lo, hi) ==
  [kind |-> k, req |-> r, seq |-> s, first |-> lo, last |-> hi]

-----------------------------------------------------------------------------
(* SaveSettings / SetModel / RebuildProvider, one step per shared access.  *)

\* The caller reads the whole config and sets the provider on its copy.
LoadForSave(w, p) ==
  /\ saver[w].stage = "idle"
  /\ saver' = [saver EXCEPT ![w] = [stage |-> "loaded",
                 held |-> [provider |-> p, denied |-> Readable.denied]]]
  /\ UNCHANGED <<disk, torn, edits, cfg, active>>

\* WriteConfigAs opens the file with O_TRUNC ...
Truncate(w) ==
  /\ saver[w].stage = "loaded"
  /\ torn' = torn \cup {w}
  /\ saver' = [saver EXCEPT ![w].stage = "writing"]
  /\ UNCHANGED <<disk, edits, cfg, active>>

\* ... and then writes the copy.
Write(w) ==
  /\ saver[w].stage = "writing"
  /\ disk' = saver[w].held
  /\ torn' = torn \ {w}
  /\ saver' = [saver EXCEPT ![w].stage = "written"]
  /\ UNCHANGED <<edits, cfg, active>>

\* Mutant: the provider is rebuilt from the config in memory, not the file.
ReloadFromMemory(w) ==
  /\ saver[w].stage = "written"
  /\ saver' = [saver EXCEPT ![w].stage = "reloaded", ![w].held.provider = cfg]
  /\ UNCHANGED <<disk, torn, edits, cfg, active>>

\* RebuildProvider: LoadConfigWithViper, then s.cfg, then s.activeProvider.
Reload(w) ==
  /\ saver[w].stage = "written"
  /\ saver' = [saver EXCEPT ![w].stage = "reloaded",
                            ![w].held.provider = Effective(Readable.provider)]
  /\ UNCHANGED <<disk, torn, edits, cfg, active>>

AssignCfg(w) ==
  /\ saver[w].stage = "reloaded"
  /\ cfg' = saver[w].held.provider
  /\ saver' = [saver EXCEPT ![w].stage = "assigned"]
  /\ UNCHANGED <<disk, torn, edits, active>>

AssignProvider(w) ==
  /\ saver[w].stage = "assigned"
  /\ active' = Build(saver[w].held.provider)
  /\ saver' = [saver EXCEPT ![w].stage = "saved"]
  /\ UNCHANGED <<disk, torn, edits, cfg>>

\* The user edits disabled_providers in config.yaml by hand.
EditPolicy(d) ==
  /\ edits < MaxEdits
  /\ torn = {}
  /\ disk' = [disk EXCEPT !.denied = d]
  /\ edits' = edits + 1
  /\ UNCHANGED <<torn, saver, cfg, active>>

ConfigStep ==
  /\ \/ \E w \in Savers :
          \/ \E p \in Providers \cup {Disabled} : LoadForSave(w, p)
          \/ Truncate(w) \/ Write(w)
          \/ Reload(w) \/ AssignCfg(w) \/ AssignProvider(w)
     \/ \E d \in SUBSET Providers : EditPolicy(d)
  /\ UNCHANGED <<requestVars, audit, emitted>>

-----------------------------------------------------------------------------
(* SendMessage, up to the start of its goroutine.                          *)

\* A nil provider is a synchronous error: no event, no audit entry.
SeeProvider(r) ==
  /\ stage[r] = "new"
  /\ stage' = [stage EXCEPT ![r] =
                 IF active = NoProvider THEN "rejected" ELSE "seen"]
  /\ UNCHANGED <<target, chan, expired, loop, audit>>

\* Mutant: a refusal is recorded and the request goes on.
CheckRequestGoesOn(r) ==
  /\ stage[r] = "seen"
  /\ stage' = [stage EXCEPT ![r] = "allowed"]
  /\ audit' = audit \cup (IF cfg \in Readable.denied THEN {PolicyDenied(r)} ELSE {})
  /\ UNCHANGED <<target, chan, expired, loop>>

\* CheckRequest on s.cfg against the policy read now from the file; the
\* opt-out settings are not a policy decision and pass.  The filters made next never
\* fail (NewCredentialFilter returns no error).
CheckRequest(r) ==
  /\ stage[r] = "seen"
  /\ IF cfg \in Providers /\ cfg \in Readable.denied
     THEN /\ stage' = [stage EXCEPT ![r] = "rejected"]
          /\ audit' = audit \cup {PolicyDenied(r)}
     ELSE /\ stage' = [stage EXCEPT ![r] = "allowed"]
          /\ UNCHANGED audit
  /\ UNCHANGED <<target, chan, expired, loop>>

AuditUserMessage(r) ==
  /\ stage[r] = "allowed"
  /\ audit' = audit \cup {UserMessage(r)}
  /\ stage' = [stage EXCEPT ![r] = "launched"]
  /\ UNCHANGED <<target, chan, expired, loop>>

SendStep(r) ==
  /\ SeeProvider(r) \/ CheckRequest(r) \/ AuditUserMessage(r)
  /\ UNCHANGED <<configVars, emitted, crashed>>

-----------------------------------------------------------------------------
(* The goroutine of SendMessage.                                           *)

Received(r) == loop[r].received
Occupied(r) ==
  chan[r].sent - Received(r) + (IF chan[r].term \in {"done", "error"} THEN 1 ELSE 0)

\* The events of one select case: the flushed batch, if any, and a last event.
Flushed(r) ==
  IF loop[r].flushed = Received(r) THEN << >>
  ELSE << Event("chunk", r, loop[r].seq, loop[r].flushed + 1, Received(r)) >>
NextSeq(r) == loop[r].seq + Len(Flushed(r))
\* Mutant: the pending text is not reset.
FlushKeepsText(r) == loop' = [loop EXCEPT ![r].seq = NextSeq(r)]
Flush(r) == loop' = [loop EXCEPT ![r].flushed = Received(r),
                                 ![r].seq = NextSeq(r)]

\* s.activeProvider is read again: a rebuild since the check is seen here,
\* and a nil one is dereferenced outside any recover.
StartStream(r) ==
  /\ stage[r] = "launched"
  /\ active # NoProvider
  /\ target' = [target EXCEPT ![r] = active]
  /\ \/ /\ stage' = [stage EXCEPT ![r] = "streaming"]
        /\ UNCHANGED emitted
     \/ /\ stage' = [stage EXCEPT ![r] = "ended"]   \* Stream returned an error
        /\ emitted' = Append(emitted, Event("error", r, 0, 0, 0))
  /\ UNCHANGED <<chan, expired, loop, audit, crashed>>

StreamOnNil(r) ==
  /\ stage[r] = "launched"
  /\ active = NoProvider
  /\ crashed' = TRUE
  /\ UNCHANGED <<requestVars, audit, emitted>>

ReceiveText(r) ==
  /\ stage[r] = "streaming"
  /\ Received(r) < chan[r].sent
  /\ loop' = [loop EXCEPT ![r].received = @ + 1]
  /\ UNCHANGED <<stage, target, chan, expired, audit, emitted, crashed>>

\* Mutant: the pending text is not flushed before llm:done.
ReceiveDoneUnflushed(r) ==
  /\ stage[r] = "streaming"
  /\ Received(r) = chan[r].sent
  /\ chan[r].term \in {"done", "closed"}
  /\ audit' = audit \cup {AIResponse(r, Received(r))}
  /\ emitted' = Append(emitted, Event("done", r, loop[r].seq, 0, 0))
  /\ stage' = [stage EXCEPT ![r] = "ended"]
  /\ UNCHANGED <<target, chan, expired, loop, crashed>>

\* The Done chunk, or the channel closed with nothing left in it.
ReceiveDone(r) ==
  /\ stage[r] = "streaming"
  /\ Received(r) = chan[r].sent
  /\ chan[r].term \in {"done", "closed"}
  /\ Flush(r)
  /\ audit' = audit \cup {AIResponse(r, Received(r))}
  /\ emitted' = emitted \o Flushed(r) \o << Event("done", r, NextSeq(r), 0, 0) >>
  /\ stage' = [stage EXCEPT ![r] = "ended"]
  /\ UNCHANGED <<target, chan, expired, crashed>>

\* Mutant: the loop goes on after llm:error.
ReceiveErrorGoesOn(r) ==
  /\ stage[r] = "streaming"
  /\ Received(r) = chan[r].sent
  /\ chan[r].term = "error"
  /\ Flush(r)
  /\ emitted' = emitted \o Flushed(r) \o << Event("error", r, NextSeq(r), 0, 0) >>
  /\ UNCHANGED <<stage, target, chan, expired, audit, crashed>>

\* The Error chunk.
ReceiveError(r) ==
  /\ stage[r] = "streaming"
  /\ Received(r) = chan[r].sent
  /\ chan[r].term = "error"
  /\ Flush(r)
  /\ emitted' = emitted \o Flushed(r) \o << Event("error", r, NextSeq(r), 0, 0) >>
  /\ stage' = [stage EXCEPT ![r] = "ended"]
  /\ UNCHANGED <<target, chan, expired, audit, crashed>>

\* The 50 ms ticker.
Tick(r) ==
  /\ stage[r] = "streaming"
  /\ loop[r].flushed < Received(r)
  /\ Flush(r)
  /\ emitted' = emitted \o Flushed(r)
  /\ UNCHANGED <<stage, target, chan, expired, audit, crashed>>

\* ctx.Done: return, with no flush, no audit entry and no event.
Abandon(r) ==
  /\ stage[r] = "streaming"
  /\ expired[r]
  /\ stage' = [stage EXCEPT ![r] = "ended"]
  /\ UNCHANGED <<target, chan, expired, loop, audit, emitted, crashed>>

LoopStep(r) ==
  /\ \/ StartStream(r) \/ StreamOnNil(r)
     \/ ReceiveText(r) \/ ReceiveDone(r) \/ ReceiveError(r)
     \/ Tick(r) \/ Abandon(r)
  /\ UNCHANGED configVars

-----------------------------------------------------------------------------
(* The provider's goroutine, and the context's timer.                      *)

\* What it still does once the loop has returned is seen by nobody.
Producing(r) == stage[r] = "streaming" /\ chan[r].term = "open"

SendText(r) ==
  /\ Producing(r)
  /\ chan[r].sent < MaxText /\ Occupied(r) < ChanCap
  /\ chan' = [chan EXCEPT ![r].sent = @ + 1]

\* Done is a blocking send: it waits for room.
SendDone(r) ==
  /\ Producing(r)
  /\ Occupied(r) < ChanCap
  /\ chan' = [chan EXCEPT ![r].term = "done"]

\* A failure is sent with select/default (openai, anthropic, gemini): with the
\* channel full it is dropped and only the close of the channel remains.  The
\* ollama adapter waits for room instead.
SendError(r) ==
  /\ Producing(r)
  /\ chan' = [chan EXCEPT ![r].failed = TRUE,
               ![r].term = IF Occupied(r) < ChanCap THEN "error" ELSE "closed"]

\* A cancelled context ends the adapter silently: the channel is closed.
CloseOnCancel(r) ==
  /\ Producing(r)
  /\ expired[r]
  /\ chan' = [chan EXCEPT ![r].term = "closed"]

ProviderStep(r) ==
  /\ SendText(r) \/ SendDone(r) \/ SendError(r) \/ CloseOnCancel(r)
  /\ UNCHANGED <<configVars, stage, target, expired, loop, audit,
                 emitted, crashed>>

\* Mutant: a context without a timeout, cancelled only when the loop returns.
ExpireAtReturn(r) ==
  /\ stage[r] = "ended"
  /\ ~expired[r]
  /\ expired' = [expired EXCEPT ![r] = TRUE]
  /\ UNCHANGED <<configVars, stage, target, chan, loop, audit,
                 emitted, crashed>>

\* context.WithTimeout(s.ctx, 5*time.Minute), cancelled when the loop returns.
Expire(r) ==
  /\ stage[r] = "streaming"
  /\ ~expired[r]
  /\ expired' = [expired EXCEPT ![r] = TRUE]
  /\ UNCHANGED <<configVars, stage, target, chan, loop, audit,
                 emitted, crashed>>

-----------------------------------------------------------------------------
Init ==
  /\ disk \in AppConfig
  /\ torn = {} /\ edits = 0
  /\ saver = [w \in Savers |-> [stage |-> "idle", held |-> disk]]
  /\ cfg = Effective(disk.provider)
  /\ active = Build(cfg)
  /\ stage = [r \in Requests |-> "new"]
  /\ target = [r \in Requests |-> NoProvider]
  /\ chan = [r \in Requests |-> NoResult]
  /\ expired = [r \in Requests |-> FALSE]
  /\ loop = [r \in Requests |-> [received |-> 0, flushed |-> 0, seq |-> 0]]
  /\ audit = {} /\ emitted = << >>
  /\ crashed = FALSE

Next ==
  /\ ~crashed
  /\ \/ ConfigStep /\ UNCHANGED crashed
     \/ \E r \in Requests :
          SendStep(r) \/ LoopStep(r) \/ ProviderStep(r) \/ Expire(r)

\* The Go scheduler runs every goroutine that can run, and the timer fires.
\* Nothing is assumed of the provider, the user or the savers.
Fairness ==
  \A r \in Requests : WF_vars(~crashed /\ LoopStep(r)) /\ WF_vars(~crashed /\ Expire(r))

Spec == Init /\ [][Next]_vars
FairSpec == Spec /\ Fairness

-----------------------------------------------------------------------------
(* Properties                                                              *)

TextCount == 0..MaxText
EventType == [kind : {"chunk", "done", "error"}, req : Requests,
              seq : TextCount, first : TextCount, last : TextCount]
AuditType == [event : {"user_message", "llm_policy_denied", "ai_response"},
              req : Requests, size : TextCount]

\* Every variable has its type, and the goroutine never counts past the text
\* its provider has sent.
TypeOK ==
  /\ disk \in AppConfig /\ torn \subseteq Savers /\ edits \in 0..MaxEdits
  /\ saver \in [Savers -> [stage : SaverStages, held : AppConfig]]
  /\ cfg \in ProviderSetting /\ active \in Providers \cup {NoProvider}
  /\ stage \in [Requests -> Stages]
  /\ target \in [Requests -> Providers \cup {NoProvider}]
  /\ chan \in [Requests -> [sent : TextCount, term : Terms, failed : BOOLEAN]]
  /\ expired \in [Requests -> BOOLEAN]
  /\ loop \in [Requests -> [received : TextCount, flushed : TextCount, seq : TextCount]]
  /\ \A r \in Requests : /\ loop[r].seq <= loop[r].flushed
                          /\ loop[r].flushed <= loop[r].received
                          /\ loop[r].received <= chan[r].sent
  /\ audit \subseteq AuditType
  /\ emitted \in Seq(EventType)
  /\ crashed \in BOOLEAN

\* llm_service.go:183-185 and 233: a refused request leaves no user text in the
\* audit log and reaches no provider, and one that reaches a provider was
\* written to the log first, whatever is rebuilt or edited meanwhile.
OnlyAuditedRequestsStream ==
  \A r \in Requests :
    /\ target[r] # NoProvider => UserMessage(r) \in audit
    /\ stage[r] = "rejected" => UserMessage(r) \notin audit
    /\ PolicyDenied(r) \in audit => stage[r] = "rejected"

\* llm_service.go:282-312: llm:done or llm:error is the last event of its
\* request, so the frontend can end the message on the first one it sees.
NothingAfterTerminalEvent ==
  \A i, j \in 1..Len(emitted) :
    i < j /\ emitted[i].req = emitted[j].req => emitted[i].kind = "chunk"

\* llm_service.go:285-303: when llm:done is emitted, the chunks emitted before
\* it carry every piece of text received, each once, and the ai_response entry
\* of the audit log is that same text.
DoneIsWholeAndAudited ==
  \A i \in 1..Len(emitted) :
    LET r == emitted[i].req
        mine == {j \in 1..i-1 : emitted[j].req = r}
    IN emitted[i].kind = "done" =>
         /\ AIResponse(r, Received(r)) \in audit
         /\ \A n \in 1..Received(r) : \E j \in mine :
              /\ emitted[j].first <= n /\ n <= emitted[j].last
              /\ \A k \in mine \ {j} : n < emitted[k].first \/ emitted[k].last < n

Alone(w) == \A v \in Savers \ {w} : saver[v].stage = "idle"

\* settings_service.go:156-157: once a save that met no other has returned, the
\* provider in memory is the one the file (or the environment) names.
SaveTakesEffect ==
  \A w \in Savers :
    saver[w].stage = "saved" /\ Alone(w) =>
      /\ cfg = Effective(disk.provider)
      /\ active = Build(Effective(disk.provider))

\* llm_service.go:252-254 and 309: a provider that hangs cannot hold the
\* goroutine of a request for ever.
RequestEnds ==
  \A r \in Requests : stage[r] = "launched" ~> (stage[r] = "ended" \/ crashed)

\* llm_service.go:447 and openai.go:58-59: a provider that becomes nil is an
\* error of one request, never a panic that ends the application.
NilProviderNeverUsed == ~crashed

\* gemini.go:97-98: a stream that failed is never reported as llm:done.
FailureIsReported ==
  \A i \in 1..Len(emitted) : emitted[i].kind = "done" => ~chan[emitted[i].req].failed
=============================================================================
