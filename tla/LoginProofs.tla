----------------------------- MODULE LoginProofs ----------------------------
(***************************************************************************)
(* Proofs about Login, for any number of concurrent logins, all periods,   *)
(* lifetimes and delays that TimesAssumption and ProviderAssumption allow, *)
(* and without a bound on time.                                            *)
(***************************************************************************)
EXTENDS Login, SequenceTheorems, TLAPS

-----------------------------------------------------------------------------
(***************************************************************************)
(* The inductive invariant.                                                *)
(***************************************************************************)
\* The timers: the one that runs fires within a period.
TimerSoon ==
  /\ OneTimer
  /\ refreshRunning => timers[1] \in now .. now + Period

\* Only credentials that are refreshed have a timer.
TimerRefreshable == refreshToken \/ refreshRunning => creds.refreshable

\* No answer is later than assumed.
Prompt ==
  /\ \A l \in Logins :
       issuedAt[l] # NotYet => /\ pc[l] = "post"
                               /\ now \in issuedAt[l] .. issuedAt[l] + AnswerDelay
  /\ \A r \in background :
       /\ now \in r.sentAt .. r.sentAt + RoundTrip
       /\ r.issuedAt # NotYet => now \in r.issuedAt .. r.issuedAt + AnswerDelay

\* The client never takes a token for valid longer than the provider does.
Cautious == expiresAt <= accessToken

\* The token held outlives the refresh that replaces it: the one the timer
\* will ask for, or one already under way.
Outlives ==
  refreshRunning /\ ~failed =>
    \/ accessToken > timers[1] + RoundTrip
    \/ \E r \in background : accessToken > r.sentAt + RoundTrip

IInv == TypeOK /\ TimerSoon /\ TimerRefreshable /\ Prompt /\ Cautious /\ Outlives

-----------------------------------------------------------------------------
LEMMA InitIInv == Init => IInv
<1> SUFFICES ASSUME Init PROVE IInv
  OBVIOUS
<1> USE TimesAssumption, ProviderAssumption
<1>1. TypeOK
  <2>1. /\ now = 1 /\ creds \in Credentials
        /\ refreshRunning \in BOOLEAN /\ timers = <<>>
        /\ background \subseteq Refresh /\ failed \in BOOLEAN
    BY DEF Init
  <2>5. creds.refreshable \in BOOLEAN
    BY <2>1 DEF Credentials
  <2>6. timers \in Seq(Nat)
    BY <2>1
  <2>2. pc \in [Logins -> Resting \cup {"config", "provider", "post"}]
    BY DEF Init, Resting
  <2>3. issuedAt \in [Logins -> Nat]
    BY DEF Init, NotYet
  <2>7. refreshToken \in BOOLEAN
    BY <2>5 DEF Init
  <2>4. accessToken \in Nat /\ expiresAt \in 0 .. now + Lifetime - Lag
    <3>1. CASE creds.grant = "token"
      BY <2>1, <2>5, <3>1 DEF Init, GivenToken, ExpirationEpoch
    <3>2. CASE creds.grant # "token"
      BY <2>1, <3>2 DEF Init, NoToken
    <3> QED BY <3>1, <3>2
  <2> QED BY <2>1, <2>2, <2>3, <2>4, <2>6, <2>7 DEF TypeOK
<1>2. TimerSoon /\ Prompt /\ Outlives
  BY DEF Init, TimerSoon, OneTimer, Prompt, Outlives
<1>3. TimerRefreshable
  BY DEF Init, TimerRefreshable, Credentials
<1>4. Cautious
  BY DEF Init, Cautious, GivenToken, NoToken, ExpirationEpoch
<1> QED BY <1>1, <1>2, <1>3, <1>4 DEF IInv

\* Sequences of timers.
LEMMA TimersType ==
  ASSUME timers \in Seq(Nat), OneTimer, refreshRunning \in BOOLEAN
  PROVE  /\ refreshRunning => Len(timers) = 1 /\ DOMAIN timers = {1} /\ timers[1] \in Nat
         /\ ~refreshRunning => timers = <<>> /\ DOMAIN timers = {}
<1>1. DOMAIN timers = 1 .. Len(timers) /\ \A i \in DOMAIN timers : timers[i] \in Nat
  OBVIOUS
<1>2. CASE refreshRunning
  BY <1>1, <1>2 DEF OneTimer
<1>3. CASE ~refreshRunning
  <2>1. Len(timers) = 0
    BY <1>3 DEF OneTimer
  <2> QED BY <1>1, <1>3, <2>1, EmptySeq
<1> QED BY <1>2, <1>3

\* What storing a token issued at t, no longer ago than an answer travels,
\* and starting the timer or not do to the invariant.
LEMMA StoreIInv ==
  ASSUME IInv, NEW t \in Nat, now \in t .. t + AnswerDelay, Store(t),
         UNCHANGED <<now, creds>>,
         StartTokenRefresh \/ UNCHANGED timerVars
  PROVE  /\ accessToken' \in Nat /\ expiresAt' \in 0 .. now' + Lifetime - Lag
         /\ refreshToken' \in BOOLEAN /\ refreshRunning' \in BOOLEAN
         /\ timers' \in Seq(Nat) /\ failed' \in BOOLEAN
         /\ TimerSoon' /\ TimerRefreshable' /\ Cautious'
         /\ refreshRunning' => accessToken' > timers'[1] + RoundTrip
         /\ accessToken' > now
<1> USE TimesAssumption, ProviderAssumption
<1>1. /\ now \in Nat /\ creds \in Credentials /\ refreshRunning \in BOOLEAN
      /\ timers \in Seq(Nat)
  BY DEF IInv, TypeOK
<1>2. creds.refreshable \in BOOLEAN
  BY <1>1 DEF Credentials
<1>3. /\ accessToken' = t + Lifetime /\ expiresAt' = now + Lifetime - Lag
      /\ refreshToken' = creds.refreshable /\ failed' = FALSE
  BY DEF Store, ExpirationEpoch
<1>4. /\ accessToken' \in Nat /\ expiresAt' \in 0 .. now' + Lifetime - Lag
      /\ Cautious' /\ accessToken' > now
      /\ accessToken' > now + Period + RoundTrip
  BY <1>1, <1>3 DEF Cautious
<1>5. /\ refreshRunning' \in BOOLEAN /\ timers' \in Seq(Nat)
      /\ TimerSoon' /\ TimerRefreshable'
  <2>1. CASE StartTokenRefresh /\ MayStart
    <3>1. timers = <<>> /\ ~refreshRunning
      BY <2>1, <1>1, TimersType DEF IInv, TimerSoon, MayStart
    <3>2. refreshRunning' = TRUE /\ timers' = <<now + Period>>
      BY <2>1, <3>1, <1>1 DEF StartTokenRefresh
    <3>3. creds'.refreshable
      BY <2>1, <1>3 DEF MayStart
    <3> QED BY <3>2, <3>3, <1>1 DEF TimerSoon, OneTimer, TimerRefreshable
  <2>2. CASE UNCHANGED timerVars
    BY <2>2, <1>1, <1>3 DEF timerVars, IInv, TimerSoon, OneTimer, TimerRefreshable
  <2> QED BY <2>1, <2>2 DEF StartTokenRefresh
<1>6. refreshRunning' => accessToken' > timers'[1] + RoundTrip
  <2>1. refreshRunning' => timers'[1] \in now .. now + Period
    BY <1>5 DEF TimerSoon
  <2> QED BY <2>1, <1>1, <1>4
<1> QED BY <1>2, <1>3, <1>4, <1>5, <1>6

\* A step of a login preserves the invariant.
LEMMA LoginIInv ==
  ASSUME IInv, NEW l \in Logins, LoginStep(l)
  PROVE  IInv'
<1> USE TimesAssumption, ProviderAssumption
<1>1. CASE Login(l) \/ Anonymous(l) \/ UseToken(l) \/ NeedToken(l) \/ Ask(l)
  <2>1. /\ UNCHANGED <<now, creds, fieldVars, timerVars, issuedAt, background, failed>>
        /\ pc[l] # "post"
        /\ \E p \in Resting \cup {"config", "provider", "post"} : pc' = [pc EXCEPT ![l] = p]
    BY <1>1 DEF Login, Anonymous, UseToken, NeedToken, Ask, Resting
  <2>2. TypeOK'
    BY <2>1 DEF IInv, TypeOK, fieldVars, timerVars
  <2>3. Prompt'
    BY <2>1 DEF IInv, TypeOK, Prompt
  <2> QED BY <2>1, <2>2, <2>3 DEF IInv, TimerSoon, OneTimer, TimerRefreshable, Cautious,
                                 Outlives, fieldVars, timerVars
<1>2. CASE KeepToken(l)
  <2>1. /\ UNCHANGED <<now, creds, timerVars, issuedAt, background, failed>>
        /\ pc[l] # "post" /\ ~creds.refreshable
        /\ pc' = [pc EXCEPT ![l] = "returned"]
        /\ accessToken' = 1 + Lifetime /\ expiresAt' = 1 + Lifetime - Lag
        /\ refreshToken' = FALSE
    BY <1>2 DEF KeepToken, GivenToken, ExpirationEpoch
  <2>2. TypeOK'
    <3>1. accessToken' \in Nat /\ expiresAt' \in 0 .. now + Lifetime - Lag
      BY <2>1 DEF IInv, TypeOK
    <3>3. refreshToken' \in BOOLEAN
      BY <2>1
    <3>2. pc' \in [Logins -> Resting \cup {"config", "provider", "post"}]
      BY <2>1 DEF IInv, TypeOK, Resting
    <3> QED BY <2>1, <3>1, <3>2, <3>3 DEF IInv, TypeOK, timerVars
  <2>3. Prompt'
    BY <2>1 DEF IInv, TypeOK, Prompt
  <2>4. TimerRefreshable' /\ ~refreshRunning'
    BY <2>1 DEF IInv, TimerRefreshable, timerVars
  <2> QED BY <2>1, <2>2, <2>3, <2>4 DEF IInv, TimerSoon, OneTimer, Cautious, Outlives, timerVars
<1>3. CASE Issue(l)
  <2>1. TypeOK'
    BY <1>3 DEF Issue, IInv, TypeOK, fieldVars, timerVars
  <2>2. Prompt'
    BY <1>3 DEF Issue, IInv, TypeOK, Prompt
  <2> QED BY <1>3, <2>1, <2>2 DEF Issue, IInv, TimerSoon, OneTimer, TimerRefreshable,
                                 Cautious, Outlives, fieldVars, timerVars
<1>4. CASE Granted(l)
  <2>1. issuedAt[l] \in Nat /\ now \in issuedAt[l] .. issuedAt[l] + AnswerDelay
    BY <1>4 DEF Granted, IInv, TypeOK, Prompt
  <2>2. TypeOK' /\ TimerSoon' /\ TimerRefreshable' /\ Cautious'
    BY <1>4, <2>1, StoreIInv DEF Granted, IInv, TypeOK, Resting, NotYet
  <2>3. Prompt'
    BY <1>4 DEF Granted, IInv, TypeOK, Prompt, NotYet
  <2>4. Outlives'
    BY <1>4, <2>1, StoreIInv DEF Granted, Outlives
  <2> QED BY <2>2, <2>3, <2>4 DEF IInv
<1>5. CASE Reject(l)
  <2>1. TypeOK'
    BY <1>5 DEF Reject, IInv, TypeOK, fieldVars, timerVars, Resting, NotYet
  <2>2. Prompt'
    BY <1>5 DEF Reject, IInv, TypeOK, Prompt, NotYet
  <2> QED BY <1>5, <2>1, <2>2 DEF Reject, IInv, TimerSoon, OneTimer, TimerRefreshable,
                                 Cautious, Outlives, fieldVars, timerVars
<1> QED BY <1>1, <1>2, <1>3, <1>4, <1>5 DEF LoginStep

\* A step of the background refresh preserves the invariant.
LEMMA BackgroundIInv == IInv /\ BackgroundStep => IInv'
<1> SUFFICES ASSUME IInv, BackgroundStep PROVE IInv'
  OBVIOUS
<1> USE TimesAssumption, ProviderAssumption
<1>1. ASSUME NEW i \in DOMAIN timers, Fire(i) PROVE IInv'
  <2>1. /\ refreshRunning /\ i = 1 /\ DOMAIN timers = {1} /\ Len(timers) = 1
        /\ timers[1] = now /\ now \in Nat
    BY <1>1, TimersType DEF IInv, TypeOK, TimerSoon, Fire
  <2>2. timers' \in Seq(Nat) /\ Len(timers') = 1 /\ timers'[1] = now + Period
    <3>1. timers \in Seq(Nat) /\ now + Period \in Nat
      BY <2>1 DEF IInv, TypeOK
    <3>2. timers' = [timers EXCEPT ![1] = now + Period]
      BY <1>1, <2>1 DEF Fire
    <3> QED BY <2>1, <3>1, <3>2, ExceptSeq
  <2>3. UNCHANGED <<now, creds, fieldVars, refreshRunning, loginVars, failed>>
    BY <1>1 DEF Fire
  <2> DEFINE q == [sentAt |-> now, issuedAt |-> NotYet]
  <2>4. q \in Refresh /\ background \subseteq background' /\ background' \subseteq background \cup {q}
    BY <1>1, <2>1 DEF Fire, Refresh, NotYet
  <2>5. TypeOK'
    BY <2>2, <2>3, <2>4 DEF IInv, TypeOK, fieldVars, loginVars
  <2>6. TimerSoon' /\ TimerRefreshable' /\ Cautious'
    BY <2>1, <2>2, <2>3 DEF IInv, TimerSoon, OneTimer, TimerRefreshable, Cautious, fieldVars
  <2>7. Prompt'
    BY <2>1, <2>3, <2>4 DEF IInv, Prompt, loginVars
  <2>8. Outlives'
    <3> SUFFICES ASSUME ~failed
                 PROVE  \/ accessToken > now + Period + RoundTrip
                        \/ \E r \in background' : accessToken > r.sentAt + RoundTrip
      BY <2>1, <2>2, <2>3 DEF Outlives, fieldVars
    <3>1. CASE ~Due
      BY <2>1, <3>1 DEF Due, IInv, TypeOK, Cautious
    <3>2. CASE Due
      <4>1. q \in background' /\ q.sentAt = now
        BY <1>1, <3>2 DEF Fire
      <4>2. \/ accessToken > now + RoundTrip
            \/ \E r \in background : accessToken > r.sentAt + RoundTrip
        BY <2>1 DEF IInv, Outlives
      <4> QED BY <4>1, <4>2, <2>4
    <3> QED BY <3>1, <3>2
  <2> QED BY <2>5, <2>6, <2>7, <2>8 DEF IInv
<1>2. ASSUME NEW r \in background, BackgroundIssue(r) PROVE IInv'
  <2> DEFINE q == [r EXCEPT !.issuedAt = now]
  <2>1. r \in Refresh /\ q \in Refresh /\ q.sentAt = r.sentAt /\ q.issuedAt = now
    BY DEF IInv, TypeOK, Refresh
  <2>2. /\ background' = (background \ {r}) \cup {q}
        /\ UNCHANGED <<now, creds, fieldVars, timerVars, loginVars, failed>>
    BY <1>2 DEF BackgroundIssue
  <2>3. TypeOK'
    BY <2>1, <2>2 DEF IInv, TypeOK, fieldVars, timerVars, loginVars
  <2>4. Prompt'
    <3>1. now \in q.issuedAt .. q.issuedAt + AnswerDelay /\ now \in q.sentAt .. q.sentAt + RoundTrip
      BY <2>1 DEF IInv, TypeOK, Prompt
    <3> QED BY <2>2, <3>1 DEF IInv, Prompt, loginVars
  <2>5. Outlives'
    BY <2>1, <2>2 DEF IInv, Outlives, fieldVars, timerVars
  <2> QED BY <2>2, <2>3, <2>4, <2>5 DEF IInv, TimerSoon, OneTimer, TimerRefreshable, Cautious,
                                       fieldVars, timerVars
<1>3. ASSUME NEW r \in background, BackgroundGranted(r) PROVE IInv'
  <2>1. r.issuedAt \in Nat /\ now \in r.issuedAt .. r.issuedAt + AnswerDelay
    BY <1>3 DEF BackgroundGranted, IInv, TypeOK, Refresh, Prompt
  <2>2. TypeOK' /\ TimerSoon' /\ TimerRefreshable' /\ Cautious'
    BY <1>3, <2>1, StoreIInv DEF BackgroundGranted, IInv, TypeOK, loginVars
  <2>3. Prompt'
    BY <1>3 DEF BackgroundGranted, IInv, Prompt, loginVars
  <2>4. Outlives'
    BY <1>3, <2>1, StoreIInv DEF BackgroundGranted, Outlives
  <2> QED BY <2>2, <2>3, <2>4 DEF IInv
<1>4. ASSUME NEW r \in background, BackgroundFails(r) PROVE IInv'
  <2>1. TypeOK'
    BY <1>4 DEF BackgroundFails, IInv, TypeOK, fieldVars, timerVars, loginVars
  <2>2. Prompt'
    BY <1>4 DEF BackgroundFails, IInv, Prompt, loginVars
  <2> QED BY <1>4, <2>1, <2>2 DEF BackgroundFails, IInv, TimerSoon, OneTimer, TimerRefreshable,
                                 Cautious, Outlives, fieldVars, timerVars
<1> QED BY <1>1, <1>2, <1>3, <1>4 DEF BackgroundStep

\* The application's calls and the clock preserve the invariant.
LEMMA OtherIInv == IInv /\ (StopTokenRefresh \/ ResetExpiresAt \/ Tick) => IInv'
<1> SUFFICES ASSUME IInv, StopTokenRefresh \/ ResetExpiresAt \/ Tick PROVE IInv'
  OBVIOUS
<1> USE TimesAssumption, ProviderAssumption
<1>0. /\ refreshRunning \in BOOLEAN /\ timers \in Seq(Nat) /\ OneTimer /\ now \in Nat
  BY DEF IInv, TypeOK, TimerSoon
<1>1. CASE StopTokenRefresh
  <2>1. timers' = <<>> /\ refreshRunning' = FALSE
    <3>1. CASE refreshRunning
      <4>1. timers' = Front(timers) /\ Len(timers) = 1
        BY <1>0, <1>1, <3>1, TimersType DEF StopTokenRefresh
      <4>2. Front(timers) = <<>>
        BY <1>0, <4>1 DEF Front
      <4> QED BY <1>1, <4>1, <4>2 DEF StopTokenRefresh
    <3>2. CASE ~refreshRunning
      BY <1>0, <1>1, <3>2, TimersType DEF StopTokenRefresh
    <3> QED BY <3>1, <3>2
  <2>2. TypeOK'
    <3>1. timers' \in Seq(Nat)
      BY <2>1
    <3>2. refreshRunning' \in BOOLEAN
      BY <2>1
    <3> QED BY <1>1, <3>1, <3>2 DEF StopTokenRefresh, IInv, TypeOK, fieldVars, loginVars
  <2> QED BY <1>1, <2>1, <2>2 DEF StopTokenRefresh, IInv, TimerSoon, OneTimer, TimerRefreshable,
                                 Prompt, Cautious, Outlives, fieldVars, loginVars
<1>2. CASE ResetExpiresAt
  BY <1>2 DEF ResetExpiresAt, IInv, TypeOK, TimerSoon, OneTimer, TimerRefreshable, Prompt,
              Cautious, Outlives, timerVars, loginVars
<1>3. CASE Tick
  <2>1. /\ now' = now + 1
        /\ UNCHANGED <<creds, fieldVars, timerVars, loginVars, background, failed>>
    BY <1>3 DEF Tick
  <2>2. TypeOK'
    BY <2>1, <1>0 DEF IInv, TypeOK, fieldVars, timerVars, loginVars
  <2>3. TimerSoon'
    <3>1. refreshRunning => timers[1] \in Nat /\ timers[1] > now
      BY <1>0, <1>3, TimersType DEF Tick
    <3> QED BY <2>1, <3>1, <1>0 DEF IInv, TimerSoon, OneTimer, timerVars
  <2>4. Prompt'
    <3>1. ASSUME NEW l \in Logins, issuedAt[l] # NotYet
          PROVE  pc[l] = "post" /\ now + 1 \in issuedAt[l] .. issuedAt[l] + AnswerDelay
      BY <3>1, <1>0, <1>3 DEF Tick, IInv, TypeOK, Prompt
    <3>2. ASSUME NEW r \in background
          PROVE  /\ now + 1 \in r.sentAt .. r.sentAt + RoundTrip
                 /\ r.issuedAt # NotYet => now + 1 \in r.issuedAt .. r.issuedAt + AnswerDelay
      <4>1. /\ r.sentAt \in Nat /\ r.issuedAt \in Nat
            /\ r.sentAt + RoundTrip \in Nat /\ r.issuedAt + AnswerDelay \in Nat
        BY DEF IInv, TypeOK, Refresh
      <4>2. now < r.sentAt + RoundTrip /\ r.sentAt <= now
        BY <4>1, <1>0, <1>3 DEF Tick, IInv, Prompt
      <4>3. r.issuedAt # NotYet => now < r.issuedAt + AnswerDelay /\ r.issuedAt <= now
        BY <4>1, <1>0, <1>3 DEF Tick, IInv, Prompt
      <4> QED BY <4>1, <4>2, <4>3, <1>0
    <3> QED BY <2>1, <3>1, <3>2 DEF Prompt, loginVars
  <2> QED BY <2>1, <2>2, <2>3, <2>4 DEF IInv, TimerRefreshable, Cautious, Outlives, fieldVars,
                                       timerVars
<1> QED BY <1>1, <1>2, <1>3

\* Every reachable state satisfies the inductive invariant.
LEMMA Invariance == Spec => []IInv
<1>1. IInv /\ [Next]_vars => IInv'
  <2> SUFFICES ASSUME IInv, [Next]_vars PROVE IInv'
    OBVIOUS
  <2>1. CASE UNCHANGED vars
    BY <2>1 DEF vars, fieldVars, timerVars, loginVars, IInv, TypeOK, TimerSoon, OneTimer,
                TimerRefreshable, Prompt, Cautious, Outlives
  <2> QED BY <2>1, LoginIInv, BackgroundIInv, OtherIInv DEF Next
<1> QED BY <1>1, InitIInv, PTL DEF Spec

-----------------------------------------------------------------------------
(***************************************************************************)
(* The theorems.                                                           *)
(***************************************************************************)
\* The types of the state, the expiry's bound included.
THEOREM TypeCorrect == Spec => []TypeOK
BY Invariance, PTL DEF IInv

\* One timer is set while the background refresh runs, none otherwise
\* (startTokenRefresh and stopTokenRefresh).
THEOREM TimerIsUnique == Spec => []OneTimer
BY Invariance, PTL DEF IInv, TimerSoon

\* The background refresh replaces the token before it expires.
THEOREM TokenNeverExpires == Spec => []RefreshedInTime
<1>1. IInv => RefreshedInTime
  <2> SUFFICES ASSUME IInv, refreshRunning, ~failed PROVE accessToken > now
    BY DEF RefreshedInTime
  <2>1. accessToken \in Nat /\ now \in Nat /\ RoundTrip \in Nat
    BY TimesAssumption DEF IInv, TypeOK
  <2>2. timers[1] \in Nat /\ timers[1] >= now
    BY <2>1, TimesAssumption DEF IInv, TimerSoon
  <2>3. ASSUME NEW r \in background PROVE r.sentAt \in Nat /\ r.sentAt + RoundTrip >= now
    BY <2>1 DEF IInv, TypeOK, Refresh, Prompt
  <2> QED BY <2>1, <2>2, <2>3 DEF IInv, Outlives
<1> QED BY <1>1, Invariance, PTL

\* login returns a token that the provider still accepts.
THEOREM ReturnedTokenIsValid == Spec => TokenReturnedIsValid
<1> DEFINE P == \A l \in Logins :
                  pc[l] # "returned" /\ pc'[l] = "returned"
                    => accessToken' > now \/ (creds.grant = "token" /\ ~creds.refreshable)
<1>1. IInv /\ [Next]_vars => [P]_vars
  <2> SUFFICES ASSUME IInv, Next, NEW l \in Logins,
                      pc[l] # "returned", pc'[l] = "returned",
                      ~(creds.grant = "token" /\ ~creds.refreshable)
               PROVE  accessToken' > now
    BY DEF P
  <2>1. /\ now \in Nat /\ accessToken \in Nat /\ expiresAt \in Int
        /\ pc \in [Logins -> Resting \cup {"config", "provider", "post"}]
    BY TimesAssumption DEF IInv, TypeOK
  <2>2. PICK m \in Logins : LoginStep(m)
    BY DEF Next, BackgroundStep, Fire, BackgroundIssue, BackgroundGranted, BackgroundFails,
           StopTokenRefresh, ResetExpiresAt, Tick, loginVars
  <2>3. CASE UseToken(m)
    BY <2>1, <2>3 DEF UseToken, IInv, Cautious, fieldVars
  <2>4. CASE Granted(m)
    <3>1. issuedAt[m] \in Nat /\ now \in issuedAt[m] .. issuedAt[m] + AnswerDelay
      BY <2>4 DEF Granted, IInv, TypeOK, Prompt
    <3> QED BY <2>4, <3>1, StoreIInv DEF Granted
  <2>5. ~(Login(m) \/ Anonymous(m) \/ NeedToken(m) \/ KeepToken(m) \/ Ask(m) \/ Issue(m)
          \/ Reject(m))
    BY <2>1 DEF Login, Anonymous, NeedToken, KeepToken, Ask, Issue, Reject
  <2> QED BY <2>2, <2>3, <2>4, <2>5 DEF LoginStep
<1> QED BY <1>1, Invariance, PTL DEF Spec, TokenReturnedIsValid
=============================================================================
