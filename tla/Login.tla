-------------------------------- MODULE Login -------------------------------
(***************************************************************************)
(* How a request gets its bearer token: ConnectionREST.login of            *)
(* src/src/connection/http.ts and the OidcAuthenticator of                 *)
(* src/src/connection/auth.ts with its three grants and its background     *)
(* refresh.  Every REST, GraphQL and gRPC call of a client with OIDC       *)
(* credentials starts with a login of its own, so any number of them run   *)
(* at once, beside the interval timer, on the fields of one authenticator. *)
(*                                                                         *)
(* Time is a discrete clock.  A token is represented by the time at which  *)
(* the provider stops accepting it.  The provider is external: it issues a *)
(* token some time after it is asked, and the answer arrives later still.  *)
(* Its requests have no time-out in the code, so their delays are          *)
(* constants here, and the theorems say what they have to be.              *)
(***************************************************************************)
EXTENDS Integers, Sequences, SequencesExt

CONSTANTS
  Logins,        \* the calls of login that may run at once
  Lag,           \* what calcExpirationEpoch takes off a token's lifetime
  Period,        \* how often the interval timer fires
  Ahead,         \* how long before its expiry it refreshes a token
  Lifetime,      \* expires_in of the tokens the provider issues
  AnswerDelay,   \* how long an answer travels from the provider, at most
  RoundTrip,     \* how long a background refresh takes, at most
  Horizon        \* bound: the last time of the clock

ASSUME TimesAssumption ==
  /\ Lag \in Nat /\ Period \in Nat \ {0} /\ Ahead \in Nat /\ Lifetime \in Nat
  /\ AnswerDelay \in Nat /\ RoundTrip \in Nat /\ Horizon \in Nat
\* What the provider's tokens and answers must be for a token to be valid
\* when it is used, and for the timer to replace it in time.
ASSUME ProviderAssumption ==
  /\ AnswerDelay <= Lag /\ Lag < Lifetime
  /\ Period + RoundTrip <= Ahead
  /\ Period + RoundTrip + AnswerDelay < Lifetime

NotYet == 0     \* the clock starts at 1
NoToken == 0    \* accessToken = ''

VARIABLES
  now,
  creds,           \* the credentials of the client, chosen once
  accessToken, expiresAt, refreshToken,
  refreshRunning,
  timers,          \* when each interval timer that was set fires next
  pc,              \* pc[l]: where the latest call of login by l is
  issuedAt,        \* issuedAt[l]: when the provider issued what l asked for
  background,      \* background refreshes under way
  failed           \* history: one has failed since the last token was stored

fieldVars == <<accessToken, expiresAt, refreshToken>>
timerVars == <<refreshRunning, timers>>
loginVars == <<pc, issuedAt>>
vars == <<now, creds, fieldVars, timerVars, loginVars, background, failed>>

\* refreshable: a refresh token comes with the credentials (token) or with
\* the provider's answers.
Credentials ==
  [grant : {"password", "client", "token"}, silentRefresh : BOOLEAN,
   refreshable : BOOLEAN]

Resting == {"idle", "returned", "rejected", "anonymous"}
Refresh == [sentAt : Nat, issuedAt : Nat]

\* Mutant: nothing is taken off the lifetime.
ExpirationEpochNoLag(t) == t + Lifetime

\* When the client takes a token received at t for expired.
ExpirationEpoch(t) == t + Lifetime - Lag

GivenToken == 1 + Lifetime

\* The credentials and the authenticator are created at time 1.
Init ==
  /\ now = 1
  /\ creds \in Credentials
  /\ IF creds.grant = "token"
     THEN /\ accessToken = GivenToken
          /\ expiresAt = ExpirationEpoch(1)
          /\ refreshToken = creds.refreshable
     ELSE accessToken = NoToken /\ expiresAt = 0 /\ refreshToken = FALSE
  /\ refreshRunning = FALSE /\ timers = <<>>
  /\ pc = [l \in Logins |-> "idle"]
  /\ issuedAt = [l \in Logins |-> NotYet]
  /\ background = {}
  /\ failed = FALSE

-----------------------------------------------------------------------------
\* A token issued at t is stored with its expiry as the client reckons it.
Store(t) ==
  /\ accessToken' = t + Lifetime
  /\ expiresAt' = ExpirationEpoch(now)
  /\ refreshToken' = creds.refreshable
  /\ failed' = FALSE

\* Mutant: a timer is set whether or not one is running.
MayStartAgain == creds.silentRefresh /\ refreshToken'

\* Whether startTokenRefresh sets a timer.
MayStart == creds.silentRefresh /\ ~refreshRunning /\ refreshToken'

StartTokenRefresh ==
  IF MayStart
  THEN refreshRunning' = TRUE /\ timers' = Append(timers, now + Period)
  ELSE UNCHANGED timerVars

\* login asks Weaviate for its OIDC configuration.
Login(l) ==
  /\ pc[l] \in Resting
  /\ pc' = [pc EXCEPT ![l] = "config"]
  /\ UNCHANGED <<now, creds, fieldVars, timerVars, issuedAt, background, failed>>

\* ... which has none: the token is ''.
Anonymous(l) ==
  /\ pc[l] = "config"
  /\ pc' = [pc EXCEPT ![l] = "anonymous"]
  /\ UNCHANGED <<now, creds, fieldVars, timerVars, issuedAt, background, failed>>

\* ... the token held will do.
UseToken(l) ==
  /\ pc[l] = "config" /\ now < expiresAt
  /\ pc' = [pc EXCEPT ![l] = "returned"]
  /\ UNCHANGED <<now, creds, fieldVars, timerVars, issuedAt, background, failed>>

\* ... the token held has expired: refresh asks the provider for its
\* configuration.
NeedToken(l) ==
  /\ pc[l] = "config" /\ now >= expiresAt
  /\ pc' = [pc EXCEPT ![l] = "provider"]
  /\ UNCHANGED <<now, creds, fieldVars, timerVars, issuedAt, background, failed>>

\* An access token that came without a refresh token is returned as it is.
KeepToken(l) ==
  /\ pc[l] = "provider" /\ creds.grant = "token" /\ ~creds.refreshable
  /\ accessToken' = GivenToken
  /\ expiresAt' = ExpirationEpoch(1)
  /\ refreshToken' = FALSE
  /\ pc' = [pc EXCEPT ![l] = "returned"]
  /\ UNCHANGED <<now, creds, timerVars, issuedAt, background, failed>>

\* The authenticator of the grant asks for a token.
Ask(l) ==
  /\ pc[l] = "provider" /\ ~(creds.grant = "token" /\ ~creds.refreshable)
  /\ pc' = [pc EXCEPT ![l] = "post"]
  /\ UNCHANGED <<now, creds, fieldVars, timerVars, issuedAt, background, failed>>

\* The provider issues it.
Issue(l) ==
  /\ pc[l] = "post" /\ issuedAt[l] = NotYet
  /\ issuedAt' = [issuedAt EXCEPT ![l] = now]
  /\ UNCHANGED <<now, creds, fieldVars, timerVars, pc, background, failed>>

\* It arrives, is stored and returned, and the timer is started.
Granted(l) ==
  /\ pc[l] = "post" /\ issuedAt[l] # NotYet
  /\ Store(issuedAt[l])
  /\ StartTokenRefresh
  /\ pc' = [pc EXCEPT ![l] = "returned"]
  /\ issuedAt' = [issuedAt EXCEPT ![l] = NotYet]
  /\ UNCHANGED <<now, creds, background>>

\* One of its requests fails: login rejects.
Reject(l) ==
  /\ pc[l] \in {"config", "provider", "post"}
  /\ pc' = [pc EXCEPT ![l] = "rejected"]
  /\ issuedAt' = [issuedAt EXCEPT ![l] = NotYet]
  /\ UNCHANGED <<now, creds, fieldVars, timerVars, background, failed>>

-----------------------------------------------------------------------------
\* Mutant: the token is replaced one period before it expires.
DueLate == expiresAt - now <= Period

\* Whether the timer replaces the token.
Due == expiresAt - now <= Ahead

\* A timer fires.
Fire(i) ==
  /\ timers[i] = now
  /\ timers' = [timers EXCEPT ![i] = now + Period]
  /\ background' = IF Due
                   THEN background \cup {[sentAt |-> now, issuedAt |-> NotYet]}
                   ELSE background
  /\ UNCHANGED <<now, creds, fieldVars, refreshRunning, loginVars, failed>>

BackgroundIssue(r) ==
  /\ r.issuedAt = NotYet
  /\ background' = (background \ {r}) \cup {[r EXCEPT !.issuedAt = now]}
  /\ UNCHANGED <<now, creds, fieldVars, timerVars, loginVars, failed>>

BackgroundGranted(r) ==
  /\ r.issuedAt # NotYet
  /\ Store(r.issuedAt)
  /\ background' = background \ {r}
  /\ UNCHANGED <<now, creds, timerVars, loginVars>>

\* The callback's rejection is nobody's: the fields stay as they are.
BackgroundFails(r) ==
  /\ background' = background \ {r}
  /\ failed' = TRUE
  /\ UNCHANGED <<now, creds, fieldVars, timerVars, loginVars>>

\* The application stops the timer set last, or resets the expiry.
StopTokenRefresh ==
  /\ timers' = IF refreshRunning THEN Front(timers) ELSE timers
  /\ refreshRunning' = FALSE
  /\ UNCHANGED <<now, creds, fieldVars, loginVars, background, failed>>

ResetExpiresAt ==
  /\ expiresAt' = 0
  /\ UNCHANGED <<now, creds, accessToken, refreshToken, timerVars, loginVars,
                 background, failed>>

\* The clock advances once every timer that is due has fired, and no answer
\* is later than assumed.
Tick ==
  /\ now < Horizon
  /\ \A i \in DOMAIN timers : timers[i] > now
  /\ \A l \in Logins : issuedAt[l] # NotYet => now < issuedAt[l] + AnswerDelay
  /\ \A r \in background :
       /\ now < r.sentAt + RoundTrip
       /\ r.issuedAt # NotYet => now < r.issuedAt + AnswerDelay
  /\ now' = now + 1
  /\ UNCHANGED <<creds, fieldVars, timerVars, loginVars, background, failed>>

LoginStep(l) ==
  \/ Login(l) \/ Anonymous(l) \/ UseToken(l) \/ NeedToken(l) \/ KeepToken(l)
  \/ Ask(l) \/ Issue(l) \/ Granted(l) \/ Reject(l)

BackgroundStep ==
  \/ \E i \in DOMAIN timers : Fire(i)
  \/ \E r \in background :
       BackgroundIssue(r) \/ BackgroundGranted(r) \/ BackgroundFails(r)

Next ==
  \/ \E l \in Logins : LoginStep(l)
  \/ BackgroundStep
  \/ StopTokenRefresh
  \/ ResetExpiresAt
  \/ Tick

Spec == Init /\ [][Next]_vars

-----------------------------------------------------------------------------
(***************************************************************************)
(* Properties.                                                             *)
(***************************************************************************)
\* Types of the state.
TypeOK ==
  /\ now \in Nat \ {0}
  /\ creds \in Credentials
  /\ accessToken \in Nat /\ expiresAt \in 0 .. now + Lifetime - Lag
  /\ refreshToken \in BOOLEAN
  /\ refreshRunning \in BOOLEAN /\ timers \in Seq(Nat)
  /\ pc \in [Logins -> Resting \cup {"config", "provider", "post"}]
  /\ issuedAt \in [Logins -> Nat]
  /\ background \subseteq Refresh
  /\ failed \in BOOLEAN

\* login returns a token the provider still accepts, whatever other logins
\* and background refreshes stored meanwhile and in whatever order; only an
\* access token that came without a refresh token is returned expired (login).
TokenReturnedIsValid ==
  [][\A l \in Logins :
       pc[l] # "returned" /\ pc'[l] = "returned"
         => accessToken' > now \/ (creds.grant = "token" /\ ~creds.refreshable)]_vars

\* One timer is set while the background refresh runs and none otherwise,
\* however many logins start it and whenever it is stopped (startTokenRefresh,
\* stopTokenRefresh).
OneTimer == Len(timers) = IF refreshRunning THEN 1 ELSE 0

\* While the background refresh runs and does not fail, the token held never
\* expires (the interval of startTokenRefresh).
RefreshedInTime == refreshRunning /\ ~failed => accessToken > now
=============================================================================
