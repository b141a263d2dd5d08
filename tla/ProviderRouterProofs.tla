------------------------ MODULE ProviderRouterProofs ------------------------
(***************************************************************************)
(* Proofs about ProviderRouter, for every number of requests, retries and   *)
(* length of the windows: its types, EachProviderOnce and RefusalIsEarned.  *)
(***************************************************************************)
EXTENDS ProviderRouter, TLAPS

(* The calls of a request, counted.  One under way has made attempt + 1     *)
(* calls to its provider and, unless it is the fallback, none to the other. *)
CallsCounted ==
  \A r \in Requests :
    LET q == request[r]
    IN  /\ \A p \in Providers : q.calls[p] <= MaxRetries + 1
        /\ q.pc \in {"calling", "backoff"} =>
             /\ q.calls[q.provider] = q.attempt + 1
             /\ ~q.fallback => \A p \in Providers \ {q.provider} : q.calls[p] = 0
        /\ q.pc = "backoff" => q.attempt < MaxRetries

(* What an unset flag says about the last visits.                           *)
FlagsEarned ==
  /\ "deepseek" \notin available => last["deepseek"] = "failed"
  /\ "ollama" \notin available => last["ollama"] # "none"

RouterInv == RouterTypeOK /\ CallsCounted /\ FlagsEarned

(* The two assumptions the arithmetic below needs.                          *)
LEMMA NumbersAreNat ==
  ASSUME settings \in [mode: Modes, cooldown: Cooldowns, retryAfter: RetryAfters]
  PROVE  /\ MaxRetries \in Nat
         /\ settings.cooldown \in Nat /\ settings.retryAfter \in Nat
         /\ settings.mode \in Modes
BY RouterAssumption

(* The router always names a provider.                                      *)
LEMMA ActiveIsProvider ==
  ASSUME settings.mode \in Modes, NEW avail, NEW cool, NEW wait
  PROVE  Active(avail, cool, wait) \in Providers
BY DEF Active, Modes, Providers

(* Taking DeepSeek for available only adds it.                              *)
LEMMA RevivedGrows ==
  ASSUME NEW avail \in SUBSET Providers, NEW wait
  PROVE  Revived(avail, wait) \in SUBSET Providers /\ avail \subseteq Revived(avail, wait)
BY DEF Revived, Providers

(* A visit of a provider not called before in the request begins with its   *)
(* first call, and with the other's count as it was.                        *)
LEMMA VisitCounts ==
  ASSUME RouterTypeOK, CallsCounted,
         NEW r \in Requests, NEW p \in Providers, NEW fallback \in BOOLEAN,
         NEW calls \in [Providers -> 0..MaxRetries + 2],
         \A o \in Providers : calls[o] <= MaxRetries + 1,
         calls[p] = 0, ~fallback => calls = NoCalls,
         Visit(r, p, fallback, calls)
  PROVE  /\ request' \in [Requests ->
              [pc: {"calling", "backoff"} \cup Outcomes, provider: Providers,
               fallback: BOOLEAN, attempt: 0..MaxRetries,
               calls: [Providers -> 0..MaxRetries + 2]]]
         /\ CallsCounted'
<1>1. MaxRetries \in Nat
  BY NumbersAreNat DEF RouterTypeOK
<1> DEFINE new == [pc |-> "calling", provider |-> p, fallback |-> fallback, attempt |-> 0,
                   calls |-> [calls EXCEPT ![p] = More(@)]]
<1>2. /\ new.calls \in [Providers -> 0..MaxRetries + 2]
      /\ new.calls[p] = 1
      /\ \A o \in Providers : new.calls[o] <= MaxRetries + 1
      /\ \A o \in Providers \ {p} : new.calls[o] = calls[o]
  BY <1>1 DEF More
<1>3. ~fallback => \A o \in Providers \ {p} : new.calls[o] = 0
  BY <1>2 DEF NoCalls
<1>4. request' = [request EXCEPT ![r] = new]
  BY DEF Visit
<1>5. request' \in [Requests ->
              [pc: {"calling", "backoff"} \cup Outcomes, provider: Providers,
               fallback: BOOLEAN, attempt: 0..MaxRetries,
               calls: [Providers -> 0..MaxRetries + 2]]]
  BY <1>1, <1>2, <1>4 DEF RouterTypeOK
<1>6. CallsCounted'
  <2> SUFFICES ASSUME NEW s \in Requests
               PROVE LET q == request'[s]
                     IN  /\ \A o \in Providers : q.calls[o] <= MaxRetries + 1
                         /\ q.pc \in {"calling", "backoff"} =>
                              /\ q.calls[q.provider] = q.attempt + 1
                              /\ ~q.fallback => \A o \in Providers \ {q.provider} : q.calls[o] = 0
                         /\ q.pc = "backoff" => q.attempt < MaxRetries
    BY DEF CallsCounted
  <2>1. CASE s = r
    <3>1. request'[s] = new
      BY <2>1, <1>4 DEF RouterTypeOK
    <3> HIDE DEF new
    <3>2. new.pc = "calling" /\ new.provider = p /\ new.fallback = fallback /\ new.attempt = 0
      BY DEF new
    <3> QED BY <3>1, <3>2, <1>2, <1>3
  <2>2. CASE s # r
    <3>1. request'[s] = request[s]
      BY <2>2, <1>4 DEF RouterTypeOK
    <3> QED BY <3>1 DEF CallsCounted
  <2> QED BY <2>1, <2>2
<1> QED BY <1>5, <1>6

(* A request that ends keeps its counts.                                    *)
LEMMA EndCounts ==
  ASSUME RouterTypeOK, CallsCounted, NEW r \in Requests, NEW outcome \in Outcomes,
         End(r, outcome)
  PROVE  /\ request' \in [Requests ->
              [pc: {"calling", "backoff"} \cup Outcomes, provider: Providers,
               fallback: BOOLEAN, attempt: 0..MaxRetries,
               calls: [Providers -> 0..MaxRetries + 2]]]
         /\ CallsCounted'
<1>1. request' = [request EXCEPT ![r].pc = outcome]
  BY DEF End
<1>2. outcome \notin {"calling", "backoff"}
  BY DEF Outcomes
<1>3. request' \in [Requests ->
              [pc: {"calling", "backoff"} \cup Outcomes, provider: Providers,
               fallback: BOOLEAN, attempt: 0..MaxRetries,
               calls: [Providers -> 0..MaxRetries + 2]]]
  BY <1>1 DEF RouterTypeOK
<1>4. ASSUME NEW s \in Requests
      PROVE  /\ request'[s].calls = request[s].calls
             /\ request'[s].attempt = request[s].attempt
             /\ request'[s].provider = request[s].provider
             /\ request'[s].fallback = request[s].fallback
             /\ request'[s].pc = IF s = r THEN outcome ELSE request[s].pc
  BY <1>1 DEF RouterTypeOK
<1>5. CallsCounted'
  BY <1>2, <1>4 DEF CallsCounted
<1> QED BY <1>3, <1>5

(* Every behaviour starts with the invariant.                               *)
LEMMA InitRouter == Init => RouterInv
<1> SUFFICES ASSUME Init PROVE RouterInv
  OBVIOUS
<1>1. MaxRetries \in Nat /\ settings.cooldown \in Nat /\ settings.retryAfter \in Nat
  BY NumbersAreNat DEF Init
<1>2. RouterTypeOK
  BY <1>1 DEF Init, RouterTypeOK, NoCalls, Providers, Outcomes
<1>3. CallsCounted
  <2>1. \A r \in Requests : request[r].pc = "answered" /\ request[r].calls = NoCalls
    BY DEF Init
  <2>2. \A p \in Providers : NoCalls[p] = 0
    BY DEF NoCalls
  <2>3. \A r \in Requests : /\ request[r].pc \notin {"calling", "backoff"}
                           /\ \A p \in Providers : request[r].calls[p] = 0
    BY <2>1, <2>2
  <2>4. 0 <= MaxRetries + 1
    BY <1>1
  <2> QED BY <2>3, <2>4 DEF CallsCounted
<1>4. FlagsEarned
  BY DEF Init, FlagsEarned, Providers
<1> QED BY <1>2, <1>3, <1>4 DEF RouterInv

(* Every step keeps it.                                                     *)
LEMMA NextRouter == RouterInv /\ [Next]_vars => RouterInv'
<1> SUFFICES ASSUME RouterInv, [Next]_vars PROVE RouterInv'
  OBVIOUS
<1> USE DEF RouterInv
<1>0. /\ MaxRetries \in Nat
      /\ settings.cooldown \in Nat /\ settings.retryAfter \in Nat
      /\ settings.mode \in Modes
  BY NumbersAreNat DEF RouterTypeOK
<1>1. ASSUME NEW r \in Requests, Begin(r) PROVE RouterInv'
  <2>1. CASE Refuses(available, cooldown)
    <3>1. /\ request' = [request EXCEPT ![r].pc = "unavailable", ![r].calls = NoCalls]
          /\ UNCHANGED <<settings, available, cooldown, retry, up, last>>
      BY <1>1, <2>1 DEF Begin
    <3>2. NoCalls \in [Providers -> 0..MaxRetries + 2] /\ \A p \in Providers : NoCalls[p] = 0
      BY <1>0 DEF NoCalls
    <3>3. RouterTypeOK'
      <4> DEFINE new == [request[r] EXCEPT !.pc = "unavailable", !.calls = NoCalls]
      <4>1. request[r] \in [pc: {"calling", "backoff"} \cup Outcomes, provider: Providers,
                            fallback: BOOLEAN, attempt: 0..MaxRetries,
                            calls: [Providers -> 0..MaxRetries + 2]]
        BY DEF RouterTypeOK
      <4>2. new \in [pc: {"calling", "backoff"} \cup Outcomes, provider: Providers,
                     fallback: BOOLEAN, attempt: 0..MaxRetries,
                     calls: [Providers -> 0..MaxRetries + 2]]
        BY <3>2, <4>1 DEF Outcomes
      <4>3. request' = [request EXCEPT ![r] = new]
        BY <3>1 DEF RouterTypeOK
      <4> QED BY <3>1, <4>2, <4>3 DEF RouterTypeOK
    <3>4. ASSUME NEW s \in Requests
          PROVE  \/ s # r /\ request'[s] = request[s]
                 \/ s = r /\ request'[s].pc = "unavailable" /\ request'[s].calls = NoCalls
      BY <3>1 DEF RouterTypeOK
    <3>5. CallsCounted'
      BY <3>2, <3>4, <1>0 DEF CallsCounted
    <3>6. FlagsEarned'
      BY <3>1 DEF FlagsEarned
    <3> QED BY <3>3, <3>5, <3>6
  <2>2. CASE ~Refuses(available, cooldown)
    <3>1. /\ Visit(r, Active(available, cooldown, retry), FALSE, NoCalls)
          /\ available' = Revived(available, retry)
          /\ UNCHANGED <<settings, cooldown, retry, up, last>>
      BY <1>1, <2>2 DEF Begin
    <3>2. Active(available, cooldown, retry) \in Providers
      BY <1>0, ActiveIsProvider
    <3>3. /\ NoCalls \in [Providers -> 0..MaxRetries + 2]
          /\ \A p \in Providers : NoCalls[p] = 0 /\ NoCalls[p] <= MaxRetries + 1
      BY <1>0 DEF NoCalls
    <3>4. /\ request' \in [Requests ->
                [pc: {"calling", "backoff"} \cup Outcomes, provider: Providers,
                 fallback: BOOLEAN, attempt: 0..MaxRetries,
                 calls: [Providers -> 0..MaxRetries + 2]]]
          /\ CallsCounted'
      <4>1. PICK fallback \in BOOLEAN :
              Visit(r, Active(available, cooldown, retry), fallback, NoCalls)
        BY <3>1
      <4> QED BY <3>2, <3>3, <4>1, VisitCounts
    <3>5. available' \in SUBSET Providers /\ available \subseteq available'
      BY <3>1, RevivedGrows DEF RouterTypeOK
    <3> QED BY <3>1, <3>4, <3>5 DEF RouterTypeOK, FlagsEarned
  <2> QED BY <2>1, <2>2
<1>2. ASSUME NEW r \in Requests, Succeed(r) PROVE RouterInv'
  <2> DEFINE p == request[r].provider
  <2>1. p \in Providers /\ "answered" \in Outcomes
    BY DEF RouterTypeOK, Outcomes
  <2>2. /\ End(r, "answered") /\ UNCHANGED <<settings, up>>
        /\ available' = IF p = "deepseek" THEN available \cup {p} ELSE available
        /\ cooldown' = 0 /\ retry' \in {0, retry}
        /\ last' = [last EXCEPT ![p] = "ok"]
    BY <1>2 DEF Succeed, OnSuccess, AfterSuccess
  <2>3. /\ request' \in [Requests ->
              [pc: {"calling", "backoff"} \cup Outcomes, provider: Providers,
               fallback: BOOLEAN, attempt: 0..MaxRetries,
               calls: [Providers -> 0..MaxRetries + 2]]]
        /\ CallsCounted'
    BY <2>1, <2>2, EndCounts
  <2>4. RouterTypeOK'
    BY <1>0, <2>1, <2>2, <2>3 DEF RouterTypeOK
  <2>5. FlagsEarned'
    BY <2>1, <2>2 DEF FlagsEarned, RouterTypeOK, Providers
  <2> QED BY <2>3, <2>4, <2>5
<1>3. ASSUME NEW r \in Requests, FailedForNow(r) PROVE RouterInv'
  <2>1. /\ request[r].pc = "calling" /\ request[r].attempt < MaxRetries
        /\ request' = [request EXCEPT ![r].pc = "backoff"]
        /\ UNCHANGED <<settings, available, cooldown, retry, up, last>>
    BY <1>3 DEF FailedForNow, routerVars
  <2>2. RouterTypeOK'
    BY <2>1 DEF RouterTypeOK
  <2>3. ASSUME NEW s \in Requests
        PROVE  \/ s # r /\ request'[s] = request[s]
               \/ /\ s = r /\ request'[s].calls = request[s].calls
                  /\ request'[s].provider = request[s].provider
                  /\ request'[s].attempt = request[s].attempt
                  /\ request'[s].fallback = request[s].fallback
    BY <2>1 DEF RouterTypeOK
  <2>4. CallsCounted'
    BY <2>1, <2>3 DEF CallsCounted
  <2> QED BY <2>1, <2>2, <2>4 DEF FlagsEarned
<1>4. ASSUME NEW r \in Requests, Retry(r) PROVE RouterInv'
  <2> DEFINE p == request[r].provider
             n == request[r].calls[p]
  <2>1. /\ request[r].pc = "backoff"
        /\ request' = [request EXCEPT ![r].pc = "calling", ![r].attempt = @ + 1,
                                      ![r].calls[p] = More(@)]
        /\ UNCHANGED <<settings, available, cooldown, retry, up, last>>
    BY <1>4 DEF Retry, routerVars
  <2>2. /\ p \in Providers /\ request[r].attempt \in 0..MaxRetries
        /\ request[r].calls \in [Providers -> 0..MaxRetries + 2]
        /\ request[r].fallback \in BOOLEAN
    BY DEF RouterTypeOK
  <2>3. n = request[r].attempt + 1 /\ request[r].attempt < MaxRetries
    BY <2>1 DEF CallsCounted
  <2>4. More(n) = n + 1 /\ n + 1 \in 0..MaxRetries + 2 /\ n + 1 <= MaxRetries + 1
    BY <1>0, <2>2, <2>3 DEF More
  <2>5. /\ request'[r].pc = "calling" /\ request'[r].provider = p
        /\ request'[r].attempt = request[r].attempt + 1
        /\ request'[r].fallback = request[r].fallback
        /\ request'[r].calls = [request[r].calls EXCEPT ![p] = n + 1]
    BY <2>1, <2>4 DEF RouterTypeOK
  <2>6. \A s \in Requests \ {r} : request'[s] = request[s]
    BY <2>1 DEF RouterTypeOK
  <2>7. RouterTypeOK'
    <3>1. request' = [request EXCEPT ![r] =
            [pc |-> "calling", provider |-> p, fallback |-> request[r].fallback,
             attempt |-> request[r].attempt + 1,
             calls |-> [request[r].calls EXCEPT ![p] = n + 1]]]
      BY <2>1, <2>4 DEF RouterTypeOK
    <3>2. [request[r].calls EXCEPT ![p] = n + 1] \in [Providers -> 0..MaxRetries + 2]
      BY <2>2, <2>4
    <3>3. request[r].attempt + 1 \in 0..MaxRetries
      BY <1>0, <2>2, <2>3
    <3> QED BY <2>1, <2>2, <3>1, <3>2, <3>3 DEF RouterTypeOK
  <2>8. CallsCounted'
    <3> SUFFICES ASSUME NEW s \in Requests
                 PROVE LET q == request'[s]
                       IN  /\ \A o \in Providers : q.calls[o] <= MaxRetries + 1
                           /\ q.pc \in {"calling", "backoff"} =>
                                /\ q.calls[q.provider] = q.attempt + 1
                                /\ ~q.fallback => \A o \in Providers \ {q.provider} : q.calls[o] = 0
                           /\ q.pc = "backoff" => q.attempt < MaxRetries
      BY DEF CallsCounted
    <3>1. CASE s # r
      BY <3>1, <2>6 DEF CallsCounted
    <3>2. CASE s = r
      <4>1. request'[r].calls[p] = n + 1 /\
            \A o \in Providers \ {p} : request'[r].calls[o] = request[r].calls[o]
        BY <2>2, <2>5
      <4>2. /\ \A o \in Providers : request[r].calls[o] <= MaxRetries + 1
            /\ ~request[r].fallback => \A o \in Providers \ {p} : request[r].calls[o] = 0
        BY <2>1 DEF CallsCounted
      <4>3. \A o \in Providers : request'[r].calls[o] <= MaxRetries + 1
        BY <4>1, <4>2, <2>4
      <4> QED BY <3>2, <4>1, <4>2, <4>3, <2>3, <2>5
    <3> QED BY <3>1, <3>2
  <2> QED BY <2>1, <2>7, <2>8 DEF FlagsEarned
<1>5. ASSUME NEW r \in Requests, FailedForGood(r) PROVE RouterInv'
  <2> DEFINE p == request[r].provider
             avail == available \ {p}
             cool == CooldownAfter(avail)
             wait == RetryAfterFailure(p)
             next == Active(avail, cool, wait)
  <2>1. /\ request[r].pc = "calling"
        /\ cooldown' = cool /\ retry' = wait
        /\ last' = [last EXCEPT ![p] = "failed"]
        /\ available' \in {avail, Revived(avail, wait)}
        /\ \/ \E outcome \in {"provider_error", "unavailable"} : End(r, outcome)
           \/ next # p /\ ~request[r].fallback /\ Visit(r, next, TRUE, request[r].calls)
        /\ UNCHANGED <<settings, up>>
    BY <1>5 DEF FailedForGood, FallsBack
  <2>2. /\ p \in Providers /\ request[r].calls \in [Providers -> 0..MaxRetries + 2]
        /\ request[r].fallback \in BOOLEAN /\ next \in Providers
    BY <1>0, ActiveIsProvider DEF RouterTypeOK
  <2>3. cool \in 0..settings.cooldown /\ wait \in 0..settings.retryAfter
    BY <1>0 DEF CooldownAfter, RetryAfterFailure, RouterTypeOK
  <2>4. available' \in SUBSET Providers /\ avail \subseteq available'
    BY <2>1, RevivedGrows DEF RouterTypeOK
  <2>5. /\ request' \in [Requests ->
              [pc: {"calling", "backoff"} \cup Outcomes, provider: Providers,
               fallback: BOOLEAN, attempt: 0..MaxRetries,
               calls: [Providers -> 0..MaxRetries + 2]]]
        /\ CallsCounted'
    <3>1. CASE \E outcome \in {"provider_error", "unavailable"} : End(r, outcome)
      BY <3>1, EndCounts DEF Outcomes
    <3>2. CASE next # p /\ ~request[r].fallback /\ Visit(r, next, TRUE, request[r].calls)
      <4>1. /\ \A o \in Providers : request[r].calls[o] <= MaxRetries + 1
            /\ request[r].calls[next] = 0
        BY <2>1, <2>2, <3>2 DEF CallsCounted
      <4> HIDE DEF next
      <4> QED BY <2>2, <3>2, <4>1, VisitCounts
    <3> QED BY <2>1, <3>1, <3>2
  <2>6. RouterTypeOK'
    BY <2>1, <2>2, <2>3, <2>4, <2>5 DEF RouterTypeOK
  <2>7. FlagsEarned'
    BY <2>1, <2>2, <2>4 DEF FlagsEarned, RouterTypeOK, Providers
  <2> QED BY <2>5, <2>6, <2>7
<1>6. ASSUME NEW r \in Requests, Interrupted(r) PROVE RouterInv'
  <2>1. End(r, "interrupted") /\ UNCHANGED <<settings, available, cooldown, retry, up, last>>
    BY <1>6 DEF Interrupted, routerVars
  <2>2. "interrupted" \in Outcomes
    BY DEF Outcomes
  <2> QED BY <2>1, <2>2, EndCounts DEF RouterTypeOK, FlagsEarned
<1>7. CASE Resolve
  <2>1. available' \in SUBSET Providers /\ available \subseteq available'
    BY <1>7, RevivedGrows DEF Resolve, RouterTypeOK
  <2> QED BY <1>7, <2>1 DEF Resolve, RouterTypeOK, CallsCounted, FlagsEarned
<1>8. CASE Tick
  <2>1. cooldown' \in 0..settings.cooldown /\ retry' \in 0..settings.retryAfter
    BY <1>0, <1>8 DEF Tick, Less, RouterTypeOK
  <2> QED BY <1>8, <2>1 DEF Tick, RouterTypeOK, CallsCounted, FlagsEarned
<1>9. CASE Outage
  BY <1>9 DEF Outage, routerVars, RouterTypeOK, CallsCounted, FlagsEarned
<1>10. CASE UNCHANGED vars
  BY <1>10 DEF vars, RouterTypeOK, CallsCounted, FlagsEarned
<1> QED BY <1>1, <1>2, <1>3, <1>4, <1>5, <1>6, <1>7, <1>8, <1>9, <1>10 DEF Next, Step

(* The invariant holds of every behaviour of the router.                    *)
LEMMA RouterInvariant == Spec => []RouterInv
BY InitRouter, NextRouter, PTL DEF Spec

(* Flags, deadlines and the locals of every request keep their types        *)
(* (llm.py 589-862).                                                        *)
THEOREM RouterTypeCorrect == Spec => []RouterTypeOK
<1>1. RouterInv => RouterTypeOK
  BY DEF RouterInv
<1> QED BY <1>1, RouterInvariant, PTL

(* No request calls a provider more than MaxRetries + 1 times, whatever the *)
(* other requests do to the flags (_aexecute, llm.py 811-862).              *)
THEOREM EachProviderOnceProved == Spec => []EachProviderOnce
<1>1. RouterInv => EachProviderOnce
  BY DEF RouterInv, CallsCounted, EachProviderOnce
<1> QED BY <1>1, RouterInvariant, PTL

(* Requests are refused only after both providers have been tried and       *)
(* DeepSeek's last visit failed (_get_active_provider, llm.py 677-697).     *)
THEOREM RefusalIsEarnedProved == Spec => []RefusalIsEarned
<1>1. RouterInv => RefusalIsEarned
  BY DEF RouterInv, FlagsEarned, RefusalIsEarned, CoolingDown
<1> QED BY <1>1, RouterInvariant, PTL
=============================================================================
