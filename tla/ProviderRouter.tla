--------------------------- MODULE ProviderRouter ---------------------------
(***************************************************************************)
(* LLMRouter (agent/llm.py): the one router of the process, shared by all   *)
(* model requests.  A request chooses a provider from flags and deadlines   *)
(* that other requests change at its every await, retries it, and falls     *)
(* back to the other one.                                                   *)
(*                                                                         *)
(* The deadlines, absolute in the code, are the ticks left until them.  The *)
(* third call of _aexecute, to a DeepSeek not yet attempted, is left out:   *)
(* once Ollama has failed the router never chooses it again, so the         *)
(* fallback of a request that began with Ollama is DeepSeek or an error.    *)
(***************************************************************************)
EXTENDS Naturals

CONSTANTS
  Requests,    \* requests that may be under way together
  MaxRetries,  \* LLM_PROVIDER_MAX_RETRIES
  Cooldowns,   \* values tried for LLM_PROVIDER_COOLDOWN, in ticks
  RetryAfters  \* values tried for LLM_PROVIDER_RETRY_AFTER, in ticks

ASSUME RouterAssumption ==
  MaxRetries \in Nat /\ Cooldowns \subseteq Nat /\ RetryAfters \subseteq Nat

Providers == {"deepseek", "ollama"}
Modes == Providers \cup {"auto"}
Outcomes == {"answered", "provider_error", "unavailable", "interrupted"}

VARIABLES
  settings,   \* the environment of the process: mode, cooldown, retryAfter
  available,  \* _deepseek_available and _ollama_available
  cooldown,   \* ticks until _providers_unavailable_until
  retry,      \* ticks until _deepseek_retry_at
  request,    \* the locals of _aexecute, of every request
  up,         \* the providers that answer
  last        \* how the last finished visit of each provider ended

vars == <<settings, available, cooldown, retry, request, up, last>>
routerVars == <<available, cooldown, retry>>

RouterTypeOK ==
  /\ settings \in [mode: Modes, cooldown: Cooldowns, retryAfter: RetryAfters]
  /\ available \subseteq Providers
  /\ cooldown \in 0..settings.cooldown /\ retry \in 0..settings.retryAfter
  /\ request \in [Requests ->
       [pc: {"calling", "backoff"} \cup Outcomes, provider: Providers,
        fallback: BOOLEAN,       \* whether this is the fallback provider
        attempt: 0..MaxRetries,
        calls: [Providers -> 0..MaxRetries + 2]]]
  /\ up \subseteq Providers
  /\ last \in [Providers -> {"none", "ok", "failed"}]

----------------------------------------------------------------------------
(* _get_active_provider over the flags and deadlines of one moment.         *)
Refuses(avail, cool) == settings.mode = "auto" /\ avail = {} /\ cool > 0

ActiveWithoutProbe(avail, cool, wait) ==
  IF settings.mode # "auto" THEN settings.mode
  ELSE IF "deepseek" \notin avail /\ "ollama" \in avail THEN "ollama"
  ELSE "deepseek"
Active(avail, cool, wait) ==
  IF settings.mode # "auto" THEN settings.mode
  ELSE IF "deepseek" \notin avail /\ wait > 0 /\ "ollama" \in avail THEN "ollama"
  ELSE "deepseek"

(* Its side effect: with nothing left it takes DeepSeek for available.      *)
Revived(avail, wait) ==
  IF settings.mode = "auto" /\ avail = {} /\ wait > 0 THEN {"deepseek"} ELSE avail

(* _on_success and _on_failure.                                             *)
AfterSuccessOfCall(p) == available
AfterSuccess(p) == IF p = "deepseek" THEN available \cup {p} ELSE available
OnSuccess(p) ==
  /\ available' = AfterSuccess(p)
  /\ cooldown' = 0
  /\ retry' = IF p = "deepseek" /\ p \notin available THEN 0 ELSE retry
  /\ last' = [last EXCEPT ![p] = "ok"]

CooldownAfter(avail) == IF avail = {} THEN settings.cooldown ELSE cooldown
RetryAfterFailure(p) == IF p = "deepseek" THEN settings.retryAfter ELSE retry

----------------------------------------------------------------------------
Ended(r) == request[r].pc \in Outcomes
End(r, outcome) == request' = [request EXCEPT ![r].pc = outcome]

(* The calls of a request are counted to one more than it may make.         *)
More(n) == IF n > MaxRetries + 1 THEN n ELSE n + 1
NoCalls == [p \in Providers |-> 0]
Visit(r, p, fallback, calls) ==
  request' = [request EXCEPT ![r] =
    [pc |-> "calling", provider |-> p, fallback |-> fallback, attempt |-> 0,
     calls |-> [calls EXCEPT ![p] = More(@)]]]

(* ainvoke or achat: the next request of a caller that has ended its last.  *)
Begin(r) ==
  /\ Ended(r)
  /\ IF Refuses(available, cooldown)
     THEN /\ request' = [request EXCEPT ![r].pc = "unavailable", ![r].calls = NoCalls]
          /\ UNCHANGED available
     ELSE /\ Visit(r, Active(available, cooldown, retry), FALSE, NoCalls)
          /\ available' = Revived(available, retry)
  /\ UNCHANGED <<settings, cooldown, retry, up, last>>

(* The choice alone, as the memory learner makes it: no call is reported.   *)
Resolve ==
  /\ ~Refuses(available, cooldown)
  /\ available' = Revived(available, retry)
  /\ UNCHANGED <<settings, cooldown, retry, request, up, last>>

Succeed(r) ==
  /\ request[r].pc = "calling"
  /\ request[r].provider \in up
  /\ End(r, "answered")
  /\ OnSuccess(request[r].provider)
  /\ UNCHANGED <<settings, up>>

(* A transient failure of the provider with attempts left.                  *)
FailedForNow(r) ==
  /\ request[r].pc = "calling"
  /\ request[r].provider \notin up
  /\ request[r].attempt < MaxRetries
  /\ request' = [request EXCEPT ![r].pc = "backoff"]
  /\ UNCHANGED <<settings, routerVars, up, last>>

Retry(r) ==
  /\ request[r].pc = "backoff"
  /\ request' = [request EXCEPT ![r].pc = "calling", ![r].attempt = @ + 1,
                                ![r].calls[request[r].provider] = More(@)]
  /\ UNCHANGED <<settings, routerVars, up, last>>

(* The provider failed for good, on its last attempt or with an error that  *)
(* is not retried: the router is told, and without an await in between the  *)
(* fallback is chosen from what it knows now.                               *)
FallsBackAnywhere(fallback, p) == TRUE
FallsBack(fallback, p) == fallback # p
FailedForGood(r) ==
  LET p == request[r].provider
      avail == available \ {p}
      cool == CooldownAfter(avail)
      wait == RetryAfterFailure(p)
      next == Active(avail, cool, wait)
      asksAgain == settings.mode = "auto" /\ ~request[r].fallback
  IN  /\ request[r].pc = "calling"
      /\ p \notin up
      /\ cooldown' = cool
      /\ retry' = wait
      /\ last' = [last EXCEPT ![p] = "failed"]
      /\ available' =
           IF asksAgain /\ ~Refuses(avail, cool) THEN Revived(avail, wait) ELSE avail
      /\ IF ~asksAgain THEN End(r, "provider_error")
         ELSE IF Refuses(avail, cool) THEN End(r, "unavailable")
         ELSE IF FallsBack(next, p) THEN Visit(r, next, TRUE, request[r].calls)
         ELSE End(r, "provider_error")
      /\ UNCHANGED <<settings, up>>

(* await_interruptibly sees a request to stop the Run; the router is not    *)
(* told.  The sleep before a retry does not look.                           *)
Interrupted(r) ==
  /\ request[r].pc = "calling"
  /\ End(r, "interrupted")
  /\ UNCHANGED <<settings, routerVars, up, last>>

Less(n) == IF n = 0 THEN 0 ELSE n - 1
Tick ==
  /\ cooldown + retry > 0
  /\ cooldown' = Less(cooldown)
  /\ retry' = Less(retry)
  /\ UNCHANGED <<settings, available, request, up, last>>

(* A provider goes down or comes back.                                      *)
Outage ==
  /\ \E p \in Providers : up' = IF p \in up THEN up \ {p} ELSE up \cup {p}
  /\ UNCHANGED <<settings, routerVars, request, last>>

Init ==
  /\ settings \in [mode: Modes, cooldown: Cooldowns, retryAfter: RetryAfters]
  /\ available = Providers
  /\ cooldown = 0 /\ retry = 0
  /\ request = [r \in Requests |-> [pc |-> "answered", provider |-> "deepseek",
                                    fallback |-> FALSE, attempt |-> 0, calls |-> NoCalls]]
  /\ up \in SUBSET Providers
  /\ last = [p \in Providers |-> "none"]

Step(r) == \/ Begin(r) \/ Succeed(r) \/ FailedForNow(r) \/ Retry(r)
           \/ FailedForGood(r) \/ Interrupted(r)
Next == (\E r \in Requests : Step(r)) \/ Resolve \/ Tick \/ Outage

(* Time passes; a call ends, its timeout sees to it, and a provider that    *)
(* answers is not interrupted for ever; callers go on asking.               *)
Fairness ==
  /\ WF_vars(Tick)
  /\ \A r \in Requests :
       /\ WF_vars(Begin(r)) /\ WF_vars(Retry(r))
       /\ WF_vars(Succeed(r) \/ FailedForNow(r) \/ FailedForGood(r) \/ Interrupted(r))
       /\ SF_vars(Succeed(r))

Spec == Init /\ [][Next]_vars /\ Fairness

----------------------------------------------------------------------------
(* Properties *)

(* Both providers are taken for down, and the window is running.            *)
CoolingDown == settings.mode = "auto" /\ available = {} /\ cooldown > 0

(* A request pays for each provider at most its attempts, whatever other    *)
(* requests do to the flags and however the windows are set: the fallback   *)
(* is never the provider that has just failed (llm.py: a provider already   *)
(* attempted in this request is not retried).                               *)
EachProviderOnce ==
  \A r \in Requests : \A p \in Providers : request[r].calls[p] <= MaxRetries + 1

(* Requests are turned away only if DeepSeek's last finished visit, of any  *)
(* request, failed and Ollama has been tried too.                           *)
RefusalIsEarned ==
  CoolingDown => last["deepseek"] = "failed" /\ last["ollama"] # "none"

(* A DeepSeek that is back for good serves requests again, unless the mode  *)
(* is Ollama alone: it is probed after the retry window and, when nothing   *)
(* else is left, after the cooldown.                                        *)
ServedBy(p) == \E r \in Requests : request[r].pc = "answered" /\ request[r].provider = p
DeepSeekReturns ==
  settings.mode # "ollama" /\ <>[]("deepseek" \in up) => []<>ServedBy("deepseek")
=============================================================================
