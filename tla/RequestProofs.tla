---------------------------- MODULE RequestProofs ---------------------------
(***************************************************************************)
(* Proofs about single requests and what is kept between them: the values  *)
(* of the operations of Rest, for any set of them and any number of        *)
(* requests; the version of the server (DbVersion), for any getters,       *)
(* releases and failures; the builders of the v2 client (Builder), for any *)
(* required parameters and any number of calls of do; its wait for a       *)
(* classification (Classification), for any number of polls; the           *)
(* operations on a role (Roles), for any number of admins; and the         *)
(* channels of a connection and the calls made over them (Connection),     *)
(* for any number of calls, streams and reconnections.                     *)
(***************************************************************************)
EXTENDS Rest, DbVersion, Builder, Classification, Roles, Connection, TLAPS

-----------------------------------------------------------------------------
(***************************************************************************)
(* Rest: what is known of a request once the server has served it.         *)
(***************************************************************************)
\* Nothing is known before, and the status says what the server found.
CodeIsFounded ==
  \A o \in Operations :
    /\ http[o] # "settled" => value[o] = "none"
    /\ http[o] \in {"served", "body"} =>
         /\ code[o] = 200 => foundAt[o] \in TrueOf(o)
         /\ code[o] = 404 => foundAt[o] = "absent"
         /\ code[o] = NotListed => OverGrpc(o) /\ foundAt[o] = "absent"
         /\ code[o] = 409 => o \in {"activate", "deactivate"} /\ foundAt[o] \in FalseOf(o)

RestIInv == RestTypeOK /\ CodeIsFounded /\ ValueIsFounded

LEMMA RestInitIInv == RestInit => RestIInv
BY MaxRestCallsAssumption DEF NotListed, RestInit, RestIInv, RestTypeOK, CodeIsFounded, ValueIsFounded

LEMMA ServedIInv ==
  ASSUME RestIInv, NEW o \in Operations, ServeRest(o)
  PROVE  RestIInv'
<1> USE DEF RestIInv, RestTypeOK, NotListed
<1>1. /\ http[o] = "sent" /\ http' = [http EXCEPT ![o] = "served"]
      /\ UNCHANGED <<value, restCalls>>
  BY DEF ServeRest
<1>2. CASE /\ code' = [code EXCEPT ![o] = CodeOf(o)]
           /\ thing' = ThingAfter(o)
           /\ foundAt' = [foundAt EXCEPT ![o] = thing]
  <2>1. /\ CodeOf(o) \in {200, NotListed, 404, 409}
        /\ CodeOf(o) = NotListed => OverGrpc(o) /\ thing = "absent"
        /\ CodeOf(o) = 200 => thing \in TrueOf(o)
        /\ CodeOf(o) = 404 => thing = "absent"
        /\ CodeOf(o) = 409 => o \in {"activate", "deactivate"} /\ thing \in FalseOf(o)
    BY DEF CodeOf, TrueOf, FalseOf
  <2>2. ThingAfter(o) \in {"absent", "active", "inactive"}
    BY DEF ThingAfter
  <2>3. RestTypeOK'
    BY <1>1, <1>2, <2>1, <2>2
  <2>4. CodeIsFounded' /\ ValueIsFounded'
    BY <1>1, <1>2, <2>1 DEF CodeIsFounded, ValueIsFounded, TrueOf, FalseOf
  <2> QED
    BY <2>3, <2>4
<1>3. CASE /\ \E refusal \in {403, 500} : code' = [code EXCEPT ![o] = refusal]
           /\ UNCHANGED <<thing, foundAt>>
  BY <1>1, <1>3 DEF CodeIsFounded, ValueIsFounded, TrueOf, FalseOf
<1> QED
  BY <1>2, <1>3 DEF ServeRest

\* An operation settles with a value that is founded.
LEMMA SettlesIInv ==
  ASSUME RestIInv, NEW o \in Operations, NEW v \in {"true", "denied", "threw"},
         SettlesWith(o, v), UNCHANGED <<thing, code, restCalls, foundAt>>,
         v = "true" => foundAt[o] \in TrueOf(o),
         v = "denied" /\ o \notin {"exists", "deleteUser"} => foundAt[o] \in FalseOf(o)
  PROVE  RestIInv'
<1>1. RestTypeOK'
  BY DEF RestIInv, RestTypeOK, SettlesWith
<1>2. CodeIsFounded' /\ ValueIsFounded'
  BY DEF RestIInv, RestTypeOK, SettlesWith, CodeIsFounded, ValueIsFounded, TrueOf, FalseOf
<1> QED
  BY <1>1, <1>2 DEF RestIInv

LEMMA FailureIInv ==
  ASSUME RestIInv, NEW o \in Operations, SettlesWith(o, Failure(o, NoStatus)),
         UNCHANGED <<thing, code, restCalls, foundAt>>
  PROVE  RestIInv'
<1>1. /\ Failure(o, NoStatus) \in {"denied", "threw"}
      /\ Failure(o, NoStatus) = "denied" => o \in {"exists", "deleteUser"}
  BY DEF Failure, Denies, NoStatus
<1> QED
  BY <1>1, SettlesIInv

LEMMA StatusIInv ==
  ASSUME RestIInv, NEW o \in Operations, http[o] \in {"served", "body"},
         SettlesWith(o, ByStatus(o)), UNCHANGED <<thing, code, restCalls, foundAt>>
  PROVE  RestIInv'
<1>1. ByStatus(o) \in {"true", "denied", "threw"}
  BY DEF ByStatus, Failure
<1>2. ByStatus(o) = "true" => foundAt[o] \in TrueOf(o)
  BY DEF ByStatus, Failure, RestIInv, CodeIsFounded
<1>3. ByStatus(o) = "denied" /\ o \notin {"exists", "deleteUser"}
        => foundAt[o] \in FalseOf(o)
  <2> SUFFICES ASSUME ByStatus(o) = "denied", o \notin {"exists", "deleteUser"}
               PROVE  foundAt[o] \in FalseOf(o)
    OBVIOUS
  <2>1. \/ code[o] = NotListed
        \/ o = "head" /\ code[o] = 404
        \/ o \in {"activate", "deactivate"} /\ code[o] = 409
        \/ o = "getByName" /\ code[o] = 404
    BY DEF ByStatus, ReadsBody, Failure, Denies, OverGrpc
  <2> QED
    BY <2>1 DEF RestIInv, CodeIsFounded, FalseOf, OverGrpc
<1> QED
  BY <1>1, <1>2, <1>3, SettlesIInv

LEMMA RestNextIInv == RestIInv /\ [RestNext]_restVars => RestIInv'
<1> SUFFICES ASSUME RestIInv, [RestNext]_restVars PROVE RestIInv'
  OBVIOUS
<1>1. ASSUME NEW o \in Operations, CallRest(o) PROVE RestIInv'
  BY <1>1, MaxRestCallsAssumption
  DEF CallRest, NotListed, RestIInv, RestTypeOK, CodeIsFounded, ValueIsFounded, TrueOf, FalseOf
<1>2. ASSUME NEW o \in Operations, HeadersArrive(o) PROVE RestIInv'
  <2>1. CASE ReadsBody(o) /\ http' = [http EXCEPT ![o] = "body"] /\ UNCHANGED value
    BY <1>2, <2>1
    DEF HeadersArrive, RestIInv, RestTypeOK, CodeIsFounded, ValueIsFounded, TrueOf, FalseOf
  <2>2. CASE SettlesWith(o, ByStatus(o))
    BY <1>2, <2>2, StatusIInv DEF HeadersArrive
  <2> QED
    BY <1>2, <2>1, <2>2 DEF HeadersArrive
<1>3. ASSUME NEW o \in Operations, BodyArrives(o) PROVE RestIInv'
  BY <1>3, StatusIInv DEF BodyArrives
<1>4. ASSUME NEW o \in Operations, RestTimesOut(o) \/ Breaks(o) PROVE RestIInv'
  BY <1>4, FailureIInv DEF RestTimesOut, Breaks
<1>5. CASE UNCHANGED restVars
  BY <1>5 DEF restVars, RestIInv, RestTypeOK, CodeIsFounded, ValueIsFounded, TrueOf, FalseOf
<1> QED
  BY <1>1, <1>2, <1>3, <1>4, <1>5, ServedIInv DEF RestNext

LEMMA RestInvariant == RestSpec => []RestIInv
BY RestInitIInv, RestNextIInv, PTL DEF RestSpec

\* An operation that returns true says what the server found when it served this
\* very request; one that returns false or null does too, except for exists and
\* the deletion of a user, of which nothing is said (checkStatus, expectCode,
\* getByName over REST and over gRPC).
THEOREM ValuesAreFounded == RestSpec => []ValueIsFounded
BY RestInvariant, PTL DEF RestIInv

-----------------------------------------------------------------------------
(***************************************************************************)
(* The version: releases only grow, an answer is no older than its call,   *)
(* and without crossed requests no forced refresh was called after the one *)
(* in flight.                                                              *)
(***************************************************************************)
CallsArePast == \A g \in Getters : calledAt[g] <= release

AnswersAreRecent ==
  \A g \in Getters :
    /\ getter[g] \in {"idle", "asked"} => answer[g] = None
    /\ answer[g] = Empty => failed > 0
    /\ answer[g] \notin {Empty, None} => answer[g] >= calledAt[g]
    /\ getter[g] = "answered" => answer[g] # None

ResultsAreAnswers ==
  \A g \in Getters : getter[g] = "resolved" =>
    /\ result[g] # None
    /\ result[g] = Empty => answer[g] = Empty
    /\ g \in Forced => result[g] = answer[g]

LastInFlight ==
  ~crossed =>
    /\ \A g, h \in Asking : g = h
    /\ \A g \in Forced, h \in Asking : calledAt[g] <= calledAt[h]

VersionIInv ==
  /\ VersionTypeOK /\ CallsArePast /\ AnswersAreRecent /\ ResultsAreAnswers
  /\ LastInFlight /\ CacheIsFresh

LEMMA ReleasesAreVersions ==
  /\ Len(Releases) \in Nat /\ Len(Releases) >= 1
  /\ None = Len(Releases) + 1 /\ Empty = 0
  /\ Forced \subseteq Getters
BY ReleasesAssumption DEF None, Empty

LEMMA VersionInitIInv == VersionInit => VersionIInv
<1> SUFFICES ASSUME VersionInit PROVE VersionIInv
  OBVIOUS
<1> USE ReleasesAreVersions DEF VersionInit
<1>1. VersionTypeOK
  <2>1. swallows \in BOOLEAN /\ crossed \in BOOLEAN
    BY Zenon
  <2>2. versionPromise \in 1..None /\ release \in 1..Len(Releases) /\ failed \in Nat
    OBVIOUS
  <2>3. getter \in [Getters -> {"idle", "asked", "answered", "resolved", "rejected"}]
    OBVIOUS
  <2>4. None \in 0..None /\ 0 \in 0..Len(Releases)
    OBVIOUS
  <2>5. answer \in [Getters -> 0..None] /\ result \in [Getters -> 0..None]
    BY <2>4, Zenon
  <2>6. calledAt \in [Getters -> 0..Len(Releases)]
    BY <2>4, Zenon
  <2> QED
    BY <2>1, <2>2, <2>3, <2>5, <2>6 DEF VersionTypeOK
<1>2. \A g \in Getters : /\ getter[g] = "idle" /\ answer[g] = None
                          /\ calledAt[g] = 0
  OBVIOUS
<1>3. CallsArePast /\ AnswersAreRecent
  BY <1>2 DEF CallsArePast, AnswersAreRecent
<1>4. ResultsAreAnswers /\ LastInFlight /\ CacheIsFresh
  BY <1>2 DEF ResultsAreAnswers, LastInFlight, CacheIsFresh, Asking
<1> QED
  BY <1>1, <1>3, <1>4 DEF VersionIInv

LEMMA GetVersionIInv ==
  ASSUME VersionIInv, NEW g \in Getters, GetVersion(g)
  PROVE  VersionIInv'
<1> USE ReleasesAreVersions DEF VersionIInv
<1>1. /\ getter[g] = "idle"
      /\ calledAt' = [calledAt EXCEPT ![g] = release]
      /\ UNCHANGED <<swallows, answer, release, failed>>
  BY DEF GetVersion
<1>2. CASE Asks(g)
  <2>1. /\ getter' = [getter EXCEPT ![g] = "asked"]
        /\ versionPromise' = None
        /\ crossed' = (crossed \/ Asking # {})
        /\ result' = result
    BY <1>2 DEF GetVersion
  <2>2. VersionTypeOK'
    <3>1. crossed' \in BOOLEAN
      BY <2>1, Zenon
    <3> QED
      BY <1>1, <2>1, <3>1 DEF VersionTypeOK
  <2>3. /\ \A h \in Getters : h # g => getter'[h] = getter[h] /\ calledAt'[h] = calledAt[h]
        /\ getter'[g] = "asked" /\ calledAt'[g] = release
    BY <1>1, <2>1 DEF VersionTypeOK
  <2>4. CallsArePast' /\ ResultsAreAnswers' /\ CacheIsFresh'
    BY <1>1, <2>1, <2>3
    DEF CallsArePast, ResultsAreAnswers, CacheIsFresh, VersionTypeOK
  <2>5. AnswersAreRecent'
    BY <1>1, <2>1, <2>3 DEF AnswersAreRecent, VersionTypeOK
  <2>6. LastInFlight'
    <3>1. Asking' = Asking \cup {g}
      BY <1>1, <2>3 DEF Asking
    <3>2. \A h \in Getters : calledAt'[h] <= release
      BY <1>1, <2>3 DEF CallsArePast, VersionTypeOK
    <3> QED
      BY <2>1, <2>3, <3>1, <3>2 DEF LastInFlight
  <2> QED
    BY <2>2, <2>4, <2>5, <2>6
<1>3. CASE ~Asks(g)
  <2>1. /\ getter' = [getter EXCEPT ![g] = "resolved"]
        /\ result' = [result EXCEPT ![g] = versionPromise]
        /\ UNCHANGED <<versionPromise, crossed>>
    BY <1>3 DEF GetVersion
  <2>2. g \notin Forced /\ versionPromise # None /\ versionPromise # Empty
    BY <1>3 DEF Asks, VersionTypeOK
  <2>3. VersionTypeOK'
    BY <1>1, <2>1 DEF VersionTypeOK
  <2>4. /\ \A h \in Getters : h # g => /\ getter'[h] = getter[h]
                                       /\ calledAt'[h] = calledAt[h]
                                       /\ result'[h] = result[h]
        /\ getter'[g] = "resolved" /\ calledAt'[g] = release /\ result'[g] = versionPromise
    BY <1>1, <2>1 DEF VersionTypeOK
  <2>5. CallsArePast' /\ ResultsAreAnswers' /\ CacheIsFresh'
    BY <1>1, <2>1, <2>2, <2>4
    DEF CallsArePast, ResultsAreAnswers, CacheIsFresh, VersionTypeOK
  <2>6. AnswersAreRecent'
    BY <1>1, <2>1, <2>4 DEF AnswersAreRecent, VersionTypeOK
  <2>7. LastInFlight'
    <3>1. Asking' = Asking
      BY <1>1, <2>4 DEF Asking
    <3>2. \A h \in Asking : h # g
      BY <1>1 DEF Asking
    <3> QED
      BY <2>1, <2>2, <2>4, <3>1, <3>2 DEF LastInFlight, Asking
  <2> QED
    BY <2>3, <2>5, <2>6, <2>7
<1> QED
  BY <1>2, <1>3

\* A request is answered, or fails: nothing is resolved.
LEMMA VersionAnswerIInv ==
  ASSUME VersionIInv, NEW g \in Getters, NEW to \in {"answered", "rejected"},
         NEW a \in 0..Len(Releases),
         getter[g] \in {"asked", "answered"},
         getter' = [getter EXCEPT ![g] = to],
         answer' = [answer EXCEPT ![g] = a],
         a # Empty => a >= calledAt[g],
         failed' \in Nat, failed' >= failed, a = Empty => failed' > 0,
         UNCHANGED <<swallows, versionPromise, result, release, calledAt, crossed>>
  PROVE  VersionIInv'
<1> USE ReleasesAreVersions DEF VersionIInv
<1>1. VersionTypeOK'
  BY DEF VersionTypeOK
<1>2. /\ \A h \in Getters : h # g => getter'[h] = getter[h] /\ answer'[h] = answer[h]
      /\ getter'[g] = to /\ answer'[g] = a
  BY DEF VersionTypeOK
<1>3. CallsArePast' /\ ResultsAreAnswers' /\ CacheIsFresh'
  BY <1>2 DEF CallsArePast, ResultsAreAnswers, CacheIsFresh
<1>4. AnswersAreRecent'
  BY <1>2 DEF AnswersAreRecent, VersionTypeOK
<1>5. LastInFlight'
  <2>1. Asking' \subseteq Asking
    BY <1>2 DEF Asking
  <2> QED
    BY <2>1 DEF LastInFlight
<1> QED
  BY <1>1, <1>3, <1>4, <1>5

LEMMA CachedIInv ==
  ASSUME VersionIInv, NEW g \in Getters, Cached(g)
  PROVE  VersionIInv'
<1> USE ReleasesAreVersions DEF VersionIInv
<1>1. /\ getter[g] = "answered"
      /\ getter' = [getter EXCEPT ![g] = "resolved"]
      /\ versionPromise' = IF answer[g] = Empty THEN versionPromise ELSE answer[g]
      /\ result' = [result EXCEPT ![g] = answer[g]]
      /\ UNCHANGED <<swallows, answer, release, failed, calledAt, crossed>>
  BY DEF Cached, Cache
<1>2. answer[g] \in 0..None /\ answer[g] # None
  BY <1>1 DEF AnswersAreRecent, VersionTypeOK
<1>3. VersionTypeOK'
  BY <1>1, <1>2 DEF VersionTypeOK
<1>4. /\ \A h \in Getters : h # g => getter'[h] = getter[h] /\ result'[h] = result[h]
      /\ getter'[g] = "resolved" /\ result'[g] = answer[g]
  BY <1>1 DEF VersionTypeOK
<1>5. CallsArePast' /\ AnswersAreRecent'
  BY <1>1, <1>4 DEF CallsArePast, AnswersAreRecent
<1>6. ResultsAreAnswers'
  BY <1>1, <1>2, <1>4 DEF ResultsAreAnswers
<1>7. LastInFlight'
  <2>1. Asking' \subseteq Asking
    BY <1>1, <1>4 DEF Asking
  <2> QED
    BY <1>1, <2>1 DEF LastInFlight
<1>8. CacheIsFresh'
  <2>1. CASE answer[g] = Empty
    BY <1>1, <1>4, <2>1 DEF CacheIsFresh
  <2>2. CASE answer[g] # Empty
    <3>1. g \in Asking /\ answer[g] >= calledAt[g]
      BY <1>1, <1>2, <2>2 DEF Asking, AnswersAreRecent
    <3>2. \A f \in Forced : answer[g] >= calledAt[f] \/ crossed
      BY <1>2, <3>1 DEF LastInFlight, VersionTypeOK
    <3> QED
      BY <1>1, <2>2, <3>2 DEF CacheIsFresh
  <2> QED
    BY <2>1, <2>2
<1> QED
  BY <1>3, <1>5, <1>6, <1>7, <1>8

LEMMA VersionNextIInv == VersionIInv /\ [VersionNext]_versionVars => VersionIInv'
<1> SUFFICES ASSUME VersionIInv, [VersionNext]_versionVars PROVE VersionIInv'
  OBVIOUS
<1> USE ReleasesAreVersions
<1>1. ASSUME NEW g \in Getters, AnswerMeta(g) PROVE VersionIInv'
  <2>1. release \in 0..Len(Releases) /\ release # Empty /\ release >= calledAt[g]
    BY DEF VersionIInv, VersionTypeOK, CallsArePast
  <2>2. /\ getter[g] = "asked" /\ getter' = [getter EXCEPT ![g] = "answered"]
        /\ answer' = [answer EXCEPT ![g] = release]
        /\ UNCHANGED <<swallows, versionPromise, result, release, failed, calledAt, crossed>>
    BY <1>1 DEF AnswerMeta
  <2>3. failed' \in Nat /\ failed' >= failed
    BY <2>2 DEF VersionIInv, VersionTypeOK
  <2> QED
    BY <2>1, <2>2, <2>3, VersionAnswerIInv
<1>2. ASSUME NEW g \in Getters, MetaFails(g) PROVE VersionIInv'
  <2>1. failed + 1 \in Nat /\ failed + 1 >= failed /\ failed + 1 > 0
        /\ Empty \in 0..Len(Releases)
    BY DEF VersionIInv, VersionTypeOK
  <2>2. PICK to \in {"answered", "rejected"} : getter' = [getter EXCEPT ![g] = to]
    BY <1>2 DEF MetaFails
  <2>3. /\ getter[g] \in {"asked", "answered"} /\ failed' = failed + 1
        /\ answer' = [answer EXCEPT ![g] = Empty]
        /\ UNCHANGED <<swallows, versionPromise, result, release, calledAt, crossed>>
    BY <1>2 DEF MetaFails
  <2> QED
    BY <2>1, <2>2, <2>3, VersionAnswerIInv
<1>3. ASSUME NEW g \in Getters, Unparsable(g) PROVE VersionIInv'
  <2>1. /\ getter[g] = "answered" /\ getter' = [getter EXCEPT ![g] = "rejected"]
        /\ answer' = answer /\ failed' = failed + 1
        /\ UNCHANGED <<swallows, versionPromise, result, release, calledAt, crossed>>
    BY <1>3 DEF Unparsable
  <2>2. /\ answer' = [answer EXCEPT ![g] = answer[g]]
        /\ answer[g] \in 0..Len(Releases)
        /\ answer[g] # Empty => answer[g] >= calledAt[g]
    BY <1>3, <2>1 DEF Unparsable, VersionIInv, VersionTypeOK, AnswersAreRecent
  <2>3. failed' \in Nat /\ failed' >= failed /\ failed' > 0
    BY <2>1 DEF VersionIInv, VersionTypeOK
  <2> QED
    BY <2>1, <2>2, <2>3, VersionAnswerIInv
<1>4. CASE Upgrade
  BY <1>4 DEF Upgrade, VersionIInv, VersionTypeOK, CallsArePast, AnswersAreRecent,
              ResultsAreAnswers, LastInFlight, CacheIsFresh, Asking
<1>5. CASE UNCHANGED versionVars
  BY <1>5 DEF versionVars, VersionIInv, VersionTypeOK, CallsArePast, AnswersAreRecent,
              ResultsAreAnswers, LastInFlight, CacheIsFresh, Asking
<1> QED
  BY <1>1, <1>2, <1>3, <1>4, <1>5, GetVersionIInv, CachedIInv DEF VersionNext

LEMMA VersionInvariant == VersionSpec => []VersionIInv
BY VersionInitIInv, VersionNextIInv, PTL DEF VersionSpec

-----------------------------------------------------------------------------
\* A forced refresh resolves with a release no older than its call
\* (DbVersionProvider.refresh).
THEOREM RefreshesAreFresh == VersionSpec => []ForcedIsFresh
<1>1. VersionIInv => ForcedIsFresh
  BY ReleasesAreVersions DEF VersionIInv, ResultsAreAnswers, AnswersAreRecent, ForcedIsFresh
<1> QED
  BY VersionInvariant, <1>1, PTL

\* The cache stays as fresh as the last forced refresh unless requests crossed
\* (DbVersionProvider.cache).
THEOREM OnlyCrossingMakesStale == VersionSpec => []CacheIsFresh
BY VersionInvariant, PTL DEF VersionIInv

\* Only a call whose own request failed takes the version for unknown
\* (DbVersionProvider.cache, and the getter of v2/index.ts).
THEOREM UnknownOnlyForItself == VersionSpec => []UnknownAfterOwnFailure
<1>1. VersionIInv => UnknownAfterOwnFailure
  <2> SUFFICES ASSUME VersionIInv, NEW g \in Getters, getter[g] = "resolved"
               PROVE  /\ result[g] = Empty => answer[g] = Empty /\ failed > 0
                      /\ result[g] # Empty /\ ~SupportsClassNames(VersionOf(result[g]))
                           => \E i \in DOMAIN Releases :
                                Releases[i][1] = 1 /\ Releases[i][2] < 14
    BY DEF UnknownAfterOwnFailure
  <2>1. result[g] = Empty => answer[g] = Empty /\ failed > 0
    BY DEF VersionIInv, ResultsAreAnswers, AnswersAreRecent
  <2>2. ASSUME result[g] # Empty, ~SupportsClassNames(VersionOf(result[g]))
        PROVE  \E i \in DOMAIN Releases : Releases[i][1] = 1 /\ Releases[i][2] < 14
    <3>1. result[g] \in DOMAIN Releases /\ VersionOf(result[g]) = Releases[result[g]]
      BY <2>2, ReleasesAreVersions, ReleasesAssumption
      DEF VersionIInv, VersionTypeOK, ResultsAreAnswers, VersionOf
    <3> DEFINE v == Releases[result[g]]
    <3>2. v \in Versions /\ v[1] >= 1
      BY <3>1, ReleasesAssumption
    <3>3. v[1] \in Nat /\ v[2] \in Nat
      BY <3>2 DEF Versions
    <3>4. ~(v[1] = 1 /\ v[2] >= 14) /\ ~(v[1] >= 2)
      BY <2>2, <3>1 DEF SupportsClassNames
    <3>5. v[1] = 1 /\ v[2] < 14
      BY <3>2, <3>3, <3>4
    <3> QED
      BY <3>1, <3>5
  <2> QED
    BY <2>1, <2>2
<1> QED
  BY VersionInvariant, <1>1, PTL

\* Versions are founded on answers, for any getters, releases and failures
\* (DbVersionProvider).
THEOREM GettersAreFounded == VersionSpec => []VersionsAreFounded
BY RefreshesAreFresh, OnlyCrossingMakesStale, UnknownOnlyForItself, PTL DEF VersionsAreFounded

-----------------------------------------------------------------------------
(***************************************************************************)
(* Builders.  A builder that validates late remembers what its one         *)
(* incomplete request lacked; every other one sends complete requests.     *)
(***************************************************************************)
OnceFound ==
  /\ ~validatesLate => incomplete = 0
  /\ validatesLate => incomplete = 0 \/ (incomplete = 1 /\ found # {})

BuilderIInv == BuilderTypeOK /\ OnceFound

LEMMA BuilderInitIInv == BuilderInit => BuilderIInv
BY MaxDosAssumption DEF BuilderInit, BuilderIInv, BuilderTypeOK, OnceFound

LEMMA BuilderNextIInv == BuilderIInv /\ [BuilderNext]_builderVars => BuilderIInv'
<1> SUFFICES ASSUME BuilderIInv, [BuilderNext]_builderVars PROVE BuilderIInv'
  OBVIOUS
<1> USE MaxDosAssumption DEF BuilderIInv, BuilderTypeOK, OnceFound
<1>1. CASE \E p \in Required : With(p)
  BY <1>1 DEF With
<1>2. CASE Refuse
  BY <1>2 DEF Refuse, ErrorsSeen, ErrorsAfter, Missing
<1>3. CASE SendRequest
  <2>1. /\ dos < MaxDos /\ dos' = dos + 1 /\ sent' = sent + 1
        /\ UNCHANGED <<validatesLate, set>>
        /\ found' = found \cup Missing
        /\ incomplete' = incomplete + (IF Missing # {} THEN 1 ELSE 0)
    BY <1>3 DEF SendRequest, ErrorsAfter
  <2>2. BuilderTypeOK'
    BY <2>1 DEF Missing
  <2>3. CASE validatesLate
    <3>1. found = {}
      BY <1>3, <2>3 DEF SendRequest, ErrorsSeen
    <3> QED
      BY <2>1, <2>2, <2>3, <3>1
  <2>4. CASE ~validatesLate
    <3>1. Missing = {}
      BY <1>3, <2>4 DEF SendRequest, ErrorsSeen, ErrorsAfter
    <3> QED
      BY <2>1, <2>2, <2>4, <3>1
  <2> QED
    BY <2>3, <2>4
<1>4. CASE UNCHANGED builderVars
  BY <1>4 DEF builderVars
<1> QED
  BY <1>1, <1>2, <1>3, <1>4 DEF BuilderNext

LEMMA BuilderInvariant == BuilderSpec => []BuilderIInv
BY BuilderInitIInv, BuilderNextIInv, PTL DEF BuilderSpec

\* A builder sends one incomplete request at most, and none unless it looks at
\* the errors before it validates (commandBase.ts, scheduler.ts, deleter.ts).
THEOREM OneIncompleteRequest == BuilderSpec => []IncompleteOnce
<1>1. BuilderIInv => IncompleteOnce
  BY DEF BuilderIInv, OnceFound, IncompleteOnce
<1> QED
  BY BuilderInvariant, <1>1, PTL

\* A builder with an error never sends again (addError is never undone).
THEOREM ErrorsAreForGood == BuilderSpec => NeverCorrected
<1>1. [BuilderNext]_builderVars => [found # {} => sent' = sent]_builderVars
  <2> SUFFICES ASSUME BuilderNext, found # {} PROVE sent' = sent
    OBVIOUS
  <2>1. CASE SendRequest
    BY <2>1 DEF SendRequest, ErrorsSeen, ErrorsAfter
  <2> QED
    BY <2>1 DEF BuilderNext, Refuse, With
<1> QED
  BY <1>1, PTL DEF BuilderSpec, NeverCorrected

-----------------------------------------------------------------------------
(***************************************************************************)
(* Classification.  Before the request is answered nothing is polled for,  *)
(* and an answer says completed only of a job that has completed; a job    *)
(* that ended never changes again.                                         *)
(***************************************************************************)
NothingBefore ==
  wait \in {"idle", "posting"} => job = "none" /\ \A i \in 1..MaxPolls : poll[i] = "none"

AnswersAreTrue == \A i \in 1..MaxPolls : poll[i] = "completed" => job = "completed"

ClassificationIInv ==
  /\ ClassificationTypeOK
  /\ NothingBefore /\ AnswersAreTrue
  /\ TimersWhileWaiting /\ ResolvedMeansCompleted
  /\ wait = "waiting" => waits

LEMMA ClassificationInitIInv == ClassificationInit => ClassificationIInv
<1> SUFFICES ASSUME ClassificationInit PROVE ClassificationIInv
  OBVIOUS
<1>1. /\ waits \in BOOLEAN /\ wait = "idle" /\ interval = FALSE /\ timeout = FALSE
      /\ polls = 0 /\ job = "none"
      /\ \A i \in 1..MaxPolls : poll[i] = "none"
  BY DEF ClassificationInit
<1>2. ClassificationTypeOK
  <2>1. polls \in 0..MaxPolls
    BY <1>1, MaxPollsAssumption
  <2>2. poll \in [1..MaxPolls -> {"none", "asked", "running", "completed", "failed", "lost"}]
    BY DEF ClassificationInit
  <2> QED
    BY <1>1, <2>1, <2>2, Zenon DEF ClassificationTypeOK
<1>3. TimersWhileWaiting /\ ResolvedMeansCompleted
  BY <1>1 DEF TimersWhileWaiting, ResolvedMeansCompleted
<1> QED
  BY <1>1, <1>2, <1>3 DEF ClassificationIInv, NothingBefore, AnswersAreTrue

LEMMA ClassificationNextIInv ==
  ClassificationIInv /\ [ClassificationNext]_classificationVars => ClassificationIInv'
<1> SUFFICES ASSUME ClassificationIInv, [ClassificationNext]_classificationVars
             PROVE  ClassificationIInv'
  OBVIOUS
<1> USE MaxPollsAssumption
    DEF ClassificationIInv, ClassificationTypeOK, NothingBefore, AnswersAreTrue,
        TimersWhileWaiting, ResolvedMeansCompleted
<1>1. CASE Schedule
  BY <1>1 DEF Schedule
<1>2. CASE Posted
  BY <1>2 DEF Posted
<1>3. CASE JobEnds
  BY <1>3 DEF JobEnds, Ended
<1>4. CASE IntervalFires
  BY <1>4 DEF IntervalFires
<1>5. CASE TimeoutFires
  BY <1>5 DEF TimeoutFires, IntervalAfterTimeout
<1>6. ASSUME NEW i \in 1..MaxPolls, PollAnswered(i) PROVE ClassificationIInv'
  BY <1>6 DEF PollAnswered
<1>7. ASSUME NEW i \in 1..MaxPolls, PollArrives(i) PROVE ClassificationIInv'
  BY <1>7 DEF PollArrives, Settles, TimeoutAfter
<1>8. CASE UNCHANGED classificationVars
  BY <1>8 DEF classificationVars
<1> QED
  BY <1>1, <1>2, <1>3, <1>4, <1>5, <1>6, <1>7, <1>8 DEF ClassificationNext

LEMMA ClassificationInvariant == ClassificationSpec => []ClassificationIInv
BY ClassificationInitIInv, ClassificationNextIInv, PTL DEF ClassificationSpec

\* A wait that resolves is for a classification that has completed, in whatever
\* order the answers to the polls arrive (pollForCompletion).
THEOREM WaitsResolveTruly == ClassificationSpec => []ResolvedMeansCompleted
BY ClassificationInvariant, PTL DEF ClassificationIInv

\* Both timers are set exactly while the promise is pending (pollForCompletion).
THEOREM TimersAreCleared == ClassificationSpec => []TimersWhileWaiting
BY ClassificationInvariant, PTL DEF ClassificationIInv

\* A wait reports what became of the classification and leaves no timer behind,
\* for any number of polls (ClassificationsScheduler.waitForCompletion).
THEOREM WaitsAreTrue == ClassificationSpec => []WaitIsTrue
BY WaitsResolveTruly, TimersAreCleared, PTL DEF WaitIsTrue

-----------------------------------------------------------------------------
(***************************************************************************)
(* Roles: what a Role shows of the grants it is collected from, and what   *)
(* hasPermissions says of grants that it asks for one by one.              *)
(***************************************************************************)
\* The permission of a key, and the grant it stands for with the action of one
\* of the grants it was collected from.
PermissionUnder(gs, first, k) ==
  [kind |-> first[k].kind, within |-> first[k].within,
   on |-> IF first[k].kind = "nodes" /\ first[k].within = "minimal" THEN "*" ELSE first[k].on,
   actions |-> {h.action : h \in {h \in gs : KeyOf(h) = k}}]

ShownAs(gs, first, h) ==
  LET p == PermissionUnder(gs, first, KeyOf(h))
  IN  [kind |-> p.kind, on |-> p.on, within |-> p.within, action |-> h.action]

\* A grant is shown by the permission under its key, and a permission shows
\* nothing but grants with its key.
LEMMA ShownIs ==
  ASSUME NEW gs \in SUBSET AllGrants, NEW first \in FirstsOf(gs)
  PROVE  /\ RoleFrom(gs, first) = {PermissionUnder(gs, first, KeyOf(h)) : h \in gs}
         /\ ToWeaviate(RoleFrom(gs, first)) = {ShownAs(gs, first, h) : h \in gs}
         /\ \A h \in gs : first[KeyOf(h)] \in gs /\ KeyOf(first[KeyOf(h)]) = KeyOf(h)
<1> DEFINE P(k) == PermissionUnder(gs, first, k)
           Keys == {KeyOf(g) : g \in gs}
           Shown == ToWeaviate(RoleFrom(gs, first))
<1>1. \A k \in Keys : first[k] \in gs /\ KeyOf(first[k]) = k
  BY DEF FirstsOf
<1>2. RoleFrom(gs, first) = {P(k) : k \in Keys}
  BY DEF RoleFrom, FirstsOf, PermissionUnder
<1>3. \A g \in Shown : \E h \in gs : g = ShownAs(gs, first, h)
  <2> SUFFICES ASSUME NEW g \in Shown PROVE \E h \in gs : g = ShownAs(gs, first, h)
    OBVIOUS
  <2>1. PICK k \in Keys : \E action \in P(k).actions :
               g = [kind |-> P(k).kind, on |-> P(k).on, within |-> P(k).within,
                    action |-> action]
    BY <1>2 DEF ToWeaviate
  <2>2. PICK h \in gs : KeyOf(h) = k /\ g = ShownAs(gs, first, h)
    BY <2>1 DEF PermissionUnder, ShownAs
  <2> QED BY <2>2
<1>4. \A h \in gs : ShownAs(gs, first, h) \in Shown
  <2> SUFFICES ASSUME NEW h \in gs PROVE ShownAs(gs, first, h) \in Shown
    OBVIOUS
  <2>1. P(KeyOf(h)) \in RoleFrom(gs, first)
    BY <1>2
  <2>2. h.action \in P(KeyOf(h)).actions
    BY DEF PermissionUnder
  <2> QED BY <2>1, <2>2 DEF ToWeaviate, ShownAs
<1>5. Shown = {ShownAs(gs, first, h) : h \in gs}
  BY <1>3, <1>4
<1>6. {P(k) : k \in Keys} = {P(KeyOf(h)) : h \in gs}
  OBVIOUS
<1> QED BY <1>1, <1>2, <1>5, <1>6

\* A grant is shown as it is, except that minimal nodes are of any collection
\* and that an alias's collection may be another's (permissionToWeaviate and
\* PermissionsMapping).
LEMMA ShownTruly ==
  ASSUME NEW gs \in SUBSET AllGrants, NEW first \in FirstsOf(gs), NEW h \in gs
  PROVE  /\ ShownAs(gs, first, h).kind = h.kind
         /\ h.kind # "aliases" => ShownAs(gs, first, h) = Told(h)
         /\ h.kind = "aliases" => /\ ShownAs(gs, first, h).on = h.on
                                  /\ ShownAs(gs, first, h).action = h.action
<1> DEFINE f == first[KeyOf(h)]
           s == ShownAs(gs, first, h)
<1>1. f \in gs /\ KeyOf(f) = KeyOf(h)
  BY ShownIs
<1>2. h = [kind |-> h.kind, on |-> h.on, within |-> h.within, action |-> h.action]
  BY DEF AllGrants, ToWeaviate
<1>3. s = [kind |-> f.kind, within |-> f.within, action |-> h.action,
           on |-> IF f.kind = "nodes" /\ f.within = "minimal" THEN "*" ELSE f.on]
  BY DEF ShownAs, PermissionUnder
<1> HIDE DEF f, s
<1>4. f.kind = h.kind
  BY <1>1 DEF KeyOf
<1>5. ASSUME h.kind # "aliases"
      PROVE  /\ f.within = h.within
             /\ ~(h.kind = "nodes" /\ h.within = "minimal") => f.on = h.on
  BY <1>1, <1>4, <1>5 DEF KeyOf
<1>6. ASSUME h.kind # "aliases" PROVE s = Told(h)
  BY <1>2, <1>3, <1>4, <1>5, <1>6 DEF Told
<1>7. ASSUME h.kind = "aliases" PROVE s.on = h.on /\ s.action = h.action
  BY <1>1, <1>3, <1>4, <1>7 DEF KeyOf
<1> QED BY <1>3, <1>4, <1>6, <1>7 DEF s

\* What the entries of a Role show of the grants they were collected from.
LEMMA RoleShows ==
  ASSUME NEW gs \in SUBSET AllGrants, NEW first \in FirstsOf(gs), NEW entries,
         entries = RoleFrom(gs, first)
  PROVE  LET shown == ToWeaviate(entries)
             Plain(all) == {g \in all : g.kind # "aliases"}
             Aliases(all) == {<<g.on, g.action>> : g \in all \ Plain(all)}
         IN  /\ Plain(shown) = {Told(g) : g \in Plain(gs)}
             /\ Aliases(shown) = Aliases(gs)
             /\ \A p \in entries : p.kind = "aliases" =>
                  \E g \in gs : g.kind = p.kind /\ g.on = p.on /\ g.within = p.within
<1> DEFINE S(h) == ShownAs(gs, first, h)
           shown == ToWeaviate(entries)
           Plain(all) == {g \in all : g.kind # "aliases"}
           Aliases(all) == {<<g.on, g.action>> : g \in all \ Plain(all)}
<1>1. shown = {S(h) : h \in gs}
  BY ShownIs
<1>2. \A h \in gs : /\ S(h).kind = h.kind
                    /\ h.kind # "aliases" => S(h) = Told(h)
                    /\ h.kind = "aliases" => S(h).on = h.on /\ S(h).action = h.action
  BY ShownTruly
<1>3. ASSUME NEW p \in entries, p.kind = "aliases"
      PROVE  \E g \in gs : g.kind = p.kind /\ g.on = p.on /\ g.within = p.within
  <2>1. PICK h \in gs : p = PermissionUnder(gs, first, KeyOf(h))
    BY ShownIs
  <2>2. first[KeyOf(h)] \in gs
    BY ShownIs
  <2> QED BY <1>3, <2>1, <2>2 DEF PermissionUnder
<1> HIDE DEF S, shown
<1>4. Plain(shown) = {Told(g) : g \in Plain(gs)}
  BY <1>1, <1>2
<1>5. Aliases(shown) = Aliases(gs)
  BY <1>1, <1>2
<1> QED BY <1>3, <1>4, <1>5 DEF shown

\* The grants an answer is about.
AllOf(a) == IF op[a] = "create" THEN wanted[a] ELSE got[a]

HistoryTyped ==
  /\ returned = [a \in Admins |-> returned[a]]
  /\ wanted \in [Admins -> SUBSET AllGrants]
  /\ shrunk \in [Admins -> BOOLEAN] /\ grown \in [Admins -> BOOLEAN]

\* Only hasPermissions takes grants off its list, and it is never answered as a
\* whole.
OthersAskAtOnce ==
  \A a \in Admins : /\ asks[a] \subseteq wanted[a]
                    /\ op[a] # "has" => asks[a] = wanted[a]
                    /\ admin[a] = "answered" => op[a] # "has"

RoleCollected ==
  \A a \in Admins : admin[a] = "resolved" /\ op[a] \in {"create", "byName"} =>
    \E first \in FirstsOf(AllOf(a)) : returned[a] = RoleFrom(AllOf(a), first)

\* What was answered for the grants asked for so far holds until something is
\* removed, or added.
HeldSoFar ==
  \A a \in Admins : op[a] = "has" /\ admin[a] = "asking" =>
    /\ FALSE \notin held[a] /\ ~shrunk[a] => wanted[a] \subseteq grants \cup asks[a]
    /\ FALSE \in held[a] /\ ~grown[a] => ~(wanted[a] \subseteq grants)

RolesIInv ==
  RolesTypeOK /\ HistoryTyped /\ OthersAskAtOnce /\ RoleCollected /\ HeldSoFar

LEMMA RolesInitIInv == RolesInit => RolesIInv
<1> SUFFICES ASSUME RolesInit PROVE RolesIInv
  OBVIOUS
<1>1. RolesTypeOK
  <2>1. held \in [Admins -> SUBSET BOOLEAN] /\ exists \in BOOLEAN
    BY DEF RolesInit
  <2>2. /\ grants \subseteq AllGrants /\ roleCalls \in 0..MaxRoleCalls
        /\ asks \in [Admins -> SUBSET AllGrants] /\ got \in [Admins -> SUBSET AllGrants]
    BY MaxRoleCallsAssumption DEF RolesInit
  <2>3. /\ admin \in [Admins -> Settled \cup {"asking", "answered"}]
        /\ op \in [Admins -> {"none", "create", "add", "remove", "delete", "has", "byName"}]
    BY DEF RolesInit, Settled
  <2> QED BY <2>1, <2>2, <2>3 DEF RolesTypeOK
<1>2. HistoryTyped
  BY DEF RolesInit, HistoryTyped
<1>3. OthersAskAtOnce /\ RoleCollected /\ HeldSoFar
  BY DEF RolesInit, OthersAskAtOnce, RoleCollected, HeldSoFar
<1> QED BY <1>1, <1>2, <1>3 DEF RolesIInv

LEMMA RequestsAskForGrants ==
  ASSUME NEW permissions \in Permissions \cup {{}}
  PROVE  ToWeaviate(permissions) \in SUBSET AllGrants
BY DEF ToWeaviate, AllGrants

LEMMA CalledIInv ==
  ASSUME RolesIInv, NEW a \in Admins, NEW permissions \in Permissions \cup {{}},
         NEW operation \in {"create", "add", "remove", "delete", "has", "byName"},
         CallRoles(a, operation, permissions)
  PROVE  RolesIInv'
<1> DEFINE gs == ToWeaviate(permissions)
<1>0. gs \in SUBSET AllGrants
  BY RequestsAskForGrants
<1> HIDE DEF gs
<1>1. /\ roleCalls < MaxRoleCalls /\ roleCalls' = roleCalls + 1
      /\ op' = [op EXCEPT ![a] = operation]
      /\ asks' = [asks EXCEPT ![a] = gs] /\ wanted' = [wanted EXCEPT ![a] = gs]
      /\ held' = [held EXCEPT ![a] = {}] /\ got' = [got EXCEPT ![a] = {}]
      /\ returned' = [returned EXCEPT ![a] = {}]
      /\ shrunk' = [shrunk EXCEPT ![a] = FALSE] /\ grown' = [grown EXCEPT ![a] = FALSE]
      /\ UNCHANGED <<grants, exists>>
  BY DEF CallRoles, gs
<1>2. PICK to \in {"threw", "asking"} : admin' = [admin EXCEPT ![a] = to]
  BY DEF CallRoles
<1>3. RolesTypeOK'
  BY <1>0, <1>1, <1>2, MaxRoleCallsAssumption DEF RolesIInv, RolesTypeOK, Settled
<1>4. HistoryTyped'
  BY <1>0, <1>1 DEF RolesIInv, HistoryTyped
<1>5. OthersAskAtOnce'
  BY <1>1, <1>2 DEF RolesIInv, RolesTypeOK, HistoryTyped, OthersAskAtOnce
<1>6. RoleCollected'
  BY <1>1, <1>2 DEF RolesIInv, RolesTypeOK, HistoryTyped, RoleCollected, AllOf
<1>7. HeldSoFar'
  BY <1>1, <1>2 DEF RolesIInv, RolesTypeOK, HistoryTyped, HeldSoFar
<1> QED BY <1>3, <1>4, <1>5, <1>6, <1>7 DEF RolesIInv

\* A request that changes the role is remembered by all who wait meanwhile.
LEMMA RoleBecomesIInv ==
  ASSUME RolesIInv, NEW a \in Admins, op[a] # "has",
         NEW there \in BOOLEAN, NEW new \in SUBSET AllGrants, RoleBecomes(a, there, new),
         UNCHANGED <<got, op, asks, held, returned, roleCalls, wanted>>
  PROVE  RolesIInv'
<1>1. /\ exists' = there /\ grants' = new
      /\ shrunk' = [b \in Admins |-> shrunk[b] \/ ~(grants \subseteq new)]
      /\ grown' = [b \in Admins |-> grown[b] \/ ~(new \subseteq grants)]
      /\ admin' = [admin EXCEPT ![a] = "answered"]
  BY DEF RoleBecomes, AdminAt
<1>2. RolesTypeOK' /\ HistoryTyped'
  BY <1>1 DEF RolesIInv, RolesTypeOK, HistoryTyped
<1>3. OthersAskAtOnce'
  BY <1>1 DEF RolesIInv, RolesTypeOK, OthersAskAtOnce
<1>4. RoleCollected'
  BY <1>1 DEF RolesIInv, RolesTypeOK, RoleCollected, AllOf
<1>5. HeldSoFar'
  <2> SUFFICES ASSUME NEW b \in Admins, op[b] = "has", admin'[b] = "asking"
               PROVE  /\ FALSE \notin held[b] /\ ~shrunk'[b] => wanted[b] \subseteq new \cup asks[b]
                      /\ FALSE \in held[b] /\ ~grown'[b] => ~(wanted[b] \subseteq new)
    BY <1>1 DEF HeldSoFar
  <2>1. admin[b] = "asking"
    BY <1>1 DEF RolesIInv, RolesTypeOK
  <2>2. /\ ~shrunk'[b] => ~shrunk[b] /\ grants \subseteq new
        /\ ~grown'[b] => ~grown[b] /\ new \subseteq grants
    BY <1>1
  <2> QED BY <2>1, <2>2 DEF RolesIInv, HeldSoFar
<1> QED BY <1>2, <1>3, <1>4, <1>5 DEF RolesIInv

LEMMA RolesNextIInv == RolesIInv /\ [RolesNext]_rolesVars => RolesIInv'
<1> SUFFICES ASSUME RolesIInv, [RolesNext]_rolesVars PROVE RolesIInv'
  OBVIOUS
<1>0. RolesTypeOK /\ HistoryTyped /\ OthersAskAtOnce /\ RoleCollected /\ HeldSoFar
  BY DEF RolesIInv
<1>1. ASSUME NEW a \in Admins, CallAny(a) PROVE RolesIInv'
  BY <1>1, CalledIInv DEF CallAny
<1>2. ASSUME NEW a \in Admins, ServeRole(a) PROVE RolesIInv'
  <2>1. UNCHANGED <<op, asks, held, returned, roleCalls, wanted>>
    BY <1>2 DEF ServeRole
  <2>2. CASE \E there \in BOOLEAN, new \in SUBSET AllGrants :
               op[a] # "has" /\ RoleBecomes(a, there, new) /\ UNCHANGED got
    BY <2>1, <2>2, RoleBecomesIInv
  <2>3. CASE /\ op[a] = "byName" /\ AdminAt(a, "asking", "answered")
             /\ got' = [got EXCEPT ![a] = grants] /\ UNCHANGED serverVars
    <3>1. /\ admin' = [admin EXCEPT ![a] = "answered"] /\ admin[a] = "asking"
          /\ UNCHANGED <<grants, exists, shrunk, grown>>
      BY <2>3 DEF AdminAt, serverVars
    <3>2. RolesTypeOK' /\ HistoryTyped'
      BY <1>0, <2>1, <2>3, <3>1 DEF RolesTypeOK, HistoryTyped
    <3>3. OthersAskAtOnce' /\ HeldSoFar'
      BY <1>0, <2>1, <2>3, <3>1 DEF RolesTypeOK, OthersAskAtOnce, HeldSoFar
    <3>4. RoleCollected'
      BY <1>0, <2>1, <2>3, <3>1 DEF RolesTypeOK, RoleCollected, AllOf
    <3> QED BY <3>2, <3>3, <3>4 DEF RolesIInv
  <2>4. asks[a] \in SUBSET AllGrants /\ grants \in SUBSET AllGrants
    BY <1>0 DEF RolesTypeOK
  <2> QED BY <1>2, <2>2, <2>3, <2>4 DEF ServeRole
<1>3. ASSUME NEW a \in Admins, RoleArrives(a) PROVE RolesIInv'
  <2>1. /\ admin[a] = "answered" /\ admin' = [admin EXCEPT ![a] = "resolved"]
        /\ UNCHANGED <<grants, exists, shrunk, grown, op, asks, held, got, roleCalls, wanted>>
    BY <1>3 DEF RoleArrives, AdminAt, serverVars
  <2>2. \/ \E x : returned' = [returned EXCEPT ![a] = x]
        \/ returned' = returned
    BY <1>3 DEF RoleArrives
  <2>3. RolesTypeOK' /\ HistoryTyped'
    BY <1>0, <2>1, <2>2 DEF RolesTypeOK, HistoryTyped, Settled
  <2>4. OthersAskAtOnce' /\ HeldSoFar'
    BY <1>0, <2>1 DEF RolesTypeOK, OthersAskAtOnce, HeldSoFar
  <2>5. RoleCollected'
    <3> SUFFICES ASSUME NEW b \in Admins, admin'[b] = "resolved", op[b] \in {"create", "byName"}
                 PROVE  \E first \in FirstsOf(AllOf(b)) : returned'[b] = RoleFrom(AllOf(b), first)
      BY <2>1 DEF RoleCollected, AllOf
    <3>1. CASE b = a
      <4>1. AllOf(a) = IF op[a] = "create" THEN asks[a] ELSE got[a]
        BY <1>0, <3>1 DEF OthersAskAtOnce, AllOf
      <4>2. \E first \in FirstsOf(AllOf(a)) :
              returned' = [returned EXCEPT ![a] = RoleFrom(AllOf(a), first)]
        BY <1>3, <3>1, <4>1 DEF RoleArrives
      <4> QED BY <1>0, <3>1, <4>2 DEF HistoryTyped
    <3>2. CASE b # a
      <4>1. admin[b] = "resolved" /\ returned'[b] = returned[b]
        BY <1>0, <2>1, <2>2, <3>2 DEF RolesTypeOK, HistoryTyped
      <4> QED BY <1>0, <4>1 DEF RoleCollected
    <3> QED BY <3>1, <3>2
  <2> QED BY <2>3, <2>4, <2>5 DEF RolesIInv
<1>4. ASSUME NEW a \in Admins, NEW g \in asks[a], ServeHas(a, g) PROVE RolesIInv'
  <2>0. \E v \in BOOLEAN : v = (g \in grants) /\ (v = FALSE <=> g \notin grants)
    <3>1. CASE g \in grants
      <4>1. TRUE = (g \in grants)
        BY <3>1, SMT
      <4> QED BY <3>1, <4>1, Zenon
    <3>2. CASE g \notin grants
      <4>1. FALSE = (g \in grants)
        BY <3>2, SMT
      <4> QED BY <3>2, <4>1, Zenon
    <3> QED BY <3>1, <3>2
  <2>a. PICK v \in BOOLEAN : v = (g \in grants) /\ (v = FALSE <=> g \notin grants)
    BY <2>0, Zenon
  <2>b. held' = [held EXCEPT ![a] = @ \cup {v}]
    <3>1. held' = [held EXCEPT ![a] = @ \cup {(g \in grants)}]
      BY <1>4 DEF ServeHas
    <3> QED BY <2>a, <3>1, Zenon
  <2>1. /\ op[a] = "has" /\ admin[a] = "asking"
        /\ asks' = [asks EXCEPT ![a] = @ \ {g}]
        /\ UNCHANGED <<grants, exists, shrunk, grown, admin, op, got, returned, roleCalls, wanted>>
    BY <1>4 DEF ServeHas, serverVars
  <2>c. held' \in [Admins -> SUBSET BOOLEAN]
    <3>1. held \in [Admins -> SUBSET BOOLEAN]
      BY <1>0 DEF RolesTypeOK
    <3> QED BY <2>b, <3>1, Zenon
  <2>2. RolesTypeOK' /\ HistoryTyped'
    BY <1>0, <2>1, <2>c DEF RolesTypeOK, HistoryTyped
  <2>3. OthersAskAtOnce' /\ RoleCollected'
    BY <1>0, <2>1 DEF RolesTypeOK, OthersAskAtOnce, RoleCollected, AllOf
  <2>4. HeldSoFar'
    <3>1. \A b \in Admins : asks'[b] = IF b = a THEN asks[a] \ {g} ELSE asks[b]
      BY <1>0, <2>1 DEF RolesTypeOK
    <3>2. held'[a] = held[a] \cup {v} /\ \A b \in Admins : b # a => held'[b] = held[b]
      <4>1. held \in [Admins -> SUBSET BOOLEAN]
        BY <1>0 DEF RolesTypeOK
      <4> QED BY <2>b, <4>1, Zenon
    <3>3. FALSE \in held'[a] <=> FALSE \in held[a] \/ v = FALSE
      BY <3>2, Zenon
    <3>4. g \in wanted[a]
      BY <1>0 DEF OthersAskAtOnce
    <3>5. SUFFICES ASSUME NEW b \in Admins, op[b] = "has", admin[b] = "asking"
                   PROVE  /\ FALSE \notin held'[b] /\ ~shrunk[b] => wanted[b] \subseteq grants \cup asks'[b]
                          /\ FALSE \in held'[b] /\ ~grown[b] => ~(wanted[b] \subseteq grants)
      BY <2>1 DEF HeldSoFar
    <3>6. CASE b # a
      BY <1>0, <3>1, <3>2, <3>5, <3>6 DEF HeldSoFar
    <3>7. CASE b = a
      <4>1. ASSUME FALSE \notin held'[a], ~shrunk[a] PROVE wanted[a] \subseteq grants \cup asks'[a]
        <5>1. FALSE \notin held[a] /\ g \in grants
          BY <2>a, <3>3, <4>1, Zenon
        <5>2. wanted[a] \subseteq grants \cup asks[a]
          BY <1>0, <2>1, <4>1, <5>1 DEF HeldSoFar
        <5>3. asks'[a] = asks[a] \ {g}
          BY <3>1
        <5> QED BY <5>1, <5>2, <5>3, Zenon
      <4>2. ASSUME FALSE \in held'[a], ~grown[a] PROVE ~(wanted[a] \subseteq grants)
        <5>1. FALSE \in held[a] \/ g \notin grants
          BY <2>a, <3>3, <4>2, Zenon
        <5> QED BY <1>0, <2>1, <3>4, <4>2, <5>1 DEF HeldSoFar
      <4> QED BY <3>7, <4>1, <4>2, Zenon
    <3> QED BY <3>6, <3>7
  <2> QED BY <2>2, <2>3, <2>4 DEF RolesIInv
<1>5. ASSUME NEW a \in Admins, HasReturns(a) PROVE RolesIInv'
  <2>1. /\ op[a] = "has" /\ admin' = [admin EXCEPT ![a] = "resolved"]
        /\ \E x : returned' = [returned EXCEPT ![a] = x]
        /\ UNCHANGED <<grants, exists, shrunk, grown, op, asks, held, got, roleCalls, wanted>>
    BY <1>5 DEF HasReturns, AdminAt, serverVars
  <2>2. RolesTypeOK' /\ HistoryTyped'
    BY <1>0, <2>1 DEF RolesTypeOK, HistoryTyped, Settled
  <2>3. OthersAskAtOnce' /\ HeldSoFar'
    BY <1>0, <2>1 DEF RolesTypeOK, OthersAskAtOnce, HeldSoFar
  <2>4. RoleCollected'
    BY <1>0, <2>1 DEF RolesTypeOK, HistoryTyped, RoleCollected, AllOf
  <2> QED BY <2>2, <2>3, <2>4 DEF RolesIInv
<1>6. ASSUME NEW a \in Admins, RoleFails(a) PROVE RolesIInv'
  <2>1. /\ admin' = [admin EXCEPT ![a] = "rejected"]
        /\ UNCHANGED <<grants, exists, shrunk, grown, op, asks, held, got, returned, roleCalls,
                       wanted>>
    BY <1>6 DEF RoleFails, AdminAt, serverVars
  <2> QED BY <1>0, <2>1 DEF RolesIInv, RolesTypeOK, HistoryTyped, OthersAskAtOnce, RoleCollected,
                            HeldSoFar, AllOf, Settled
<1>7. CASE UNCHANGED rolesVars
  BY <1>0, <1>7 DEF rolesVars, RolesIInv, RolesTypeOK, HistoryTyped, OthersAskAtOnce,
                    RoleCollected, HeldSoFar, AllOf
<1> QED BY <1>1, <1>2, <1>3, <1>4, <1>5, <1>6, <1>7 DEF RolesNext

LEMMA RolesInvariant == RolesSpec => []RolesIInv
BY RolesInitIInv, RolesNextIInv, PTL DEF RolesSpec

\* A Role that is returned shows the grants that were created or read, neither
\* more nor less but for the collections of aliases, for any permissions and in
\* whatever order they are collected (create, byName, roleFromWeaviate).
THEOREM RolesShowTheirGrants == RolesSpec => []RoleShowsGrants
<1>1. RolesIInv => RoleShowsGrants
  <2> SUFFICES ASSUME RolesIInv PROVE RoleShowsGrants
    OBVIOUS
  <2>1. ASSUME NEW a \in Admins, admin[a] = "resolved", op[a] \in {"create", "byName"}
        PROVE  /\ AllOf(a) \in SUBSET AllGrants
               /\ \E first \in FirstsOf(AllOf(a)) : returned[a] = RoleFrom(AllOf(a), first)
    BY <2>1 DEF RolesIInv, RolesTypeOK, HistoryTyped, RoleCollected, AllOf
  <2> QED BY <2>1, RoleShows DEF RoleShowsGrants, AllOf
<1> QED BY <1>1, RolesInvariant, PTL

LEMMA HasStepIsTrue ==
  ASSUME RolesIInv, [RolesNext]_rolesVars, NEW a \in Admins,
         admin[a] # "resolved", admin'[a] = "resolved", op[a] = "has"
  PROVE  /\ returned'[a] = {TRUE} /\ ~shrunk[a] => wanted[a] \subseteq grants
         /\ returned'[a] = {FALSE} /\ ~grown[a] => ~(wanted[a] \subseteq grants)
<1>1. HasReturns(a)
  <2>1. ASSUME NEW b \in Admins, CallAny(b) PROVE FALSE
    BY <2>1 DEF CallAny, CallRoles, RolesIInv, RolesTypeOK
  <2>2. ASSUME NEW b \in Admins, ServeRole(b) PROVE FALSE
    BY <2>2 DEF ServeRole, RoleBecomes, AdminAt, RolesIInv, RolesTypeOK
  <2>3. ASSUME NEW b \in Admins, RoleArrives(b) PROVE FALSE
    BY <2>3 DEF RoleArrives, AdminAt, RolesIInv, RolesTypeOK, OthersAskAtOnce
  <2>4. ASSUME NEW b \in Admins, NEW g \in asks[b], ServeHas(b, g) PROVE FALSE
    BY <2>4 DEF ServeHas
  <2>5. ASSUME NEW b \in Admins, HasReturns(b) PROVE b = a
    BY <2>5 DEF HasReturns, AdminAt, RolesIInv, RolesTypeOK
  <2>6. ASSUME NEW b \in Admins, RoleFails(b) PROVE FALSE
    BY <2>6 DEF RoleFails, AdminAt, RolesIInv, RolesTypeOK
  <2>7. ~UNCHANGED rolesVars
    BY DEF rolesVars
  <2> QED BY <2>1, <2>2, <2>3, <2>4, <2>5, <2>6, <2>7 DEF RolesNext
<1>2. /\ admin[a] = "asking" /\ asks[a] = {}
      /\ returned' = [returned EXCEPT ![a] = {EveryHeld(a)}]
  BY <1>1 DEF HasReturns, AdminAt
<1>3. returned'[a] = {EveryHeld(a)}
  BY <1>2 DEF RolesIInv, HistoryTyped
<1>4. /\ returned'[a] = {TRUE} => FALSE \notin held[a]
      /\ returned'[a] = {FALSE} => FALSE \in held[a]
  BY <1>3 DEF EveryHeld
<1> QED BY <1>2, <1>4 DEF RolesIInv, HeldSoFar

\* hasPermissions answers truly for all its grants together at the moment it
\* answers, though each was asked for on its own, unless grants were removed, or
\* added, since the call (hasPermissions).
THEOREM HasAnswersTruly == RolesSpec => HasIsTrue
<1>1. RolesIInv /\ [RolesNext]_rolesVars =>
        [\A a \in Admins : admin[a] # "resolved" /\ admin'[a] = "resolved" /\ op[a] = "has" =>
           /\ returned'[a] = {TRUE} /\ ~shrunk[a] => wanted[a] \subseteq grants
           /\ returned'[a] = {FALSE} /\ ~grown[a] => ~(wanted[a] \subseteq grants)]_rolesVars
  BY HasStepIsTrue
<1> QED BY <1>1, RolesInvariant, PTL DEF RolesSpec, HasIsTrue

-----------------------------------------------------------------------------
(***************************************************************************)
(* DbVersion: the features follow the order of the versions.               *)
(***************************************************************************)
LEMMA VersionIs ==
  ASSUME NEW v \in Versions
  PROVE  v[1] \in Nat /\ v[2] \in Nat /\ (HasPatch(v) => v[3] \in Nat)
<1>1. CASE v \in Nat \X Nat \X Nat
  BY <1>1
<1>2. CASE v \in Nat \X Nat
  <2>1. PICK a, b \in Nat : v = <<a, b>>
    BY <1>2
  <2>2. Len(v) = 2
    BY <2>1
  <2> QED BY <2>1, <2>2 DEF HasPatch
<1> QED BY <1>1, <1>2 DEF Versions

LEMMA FirstsAre ==
  ASSUME NEW f \in DOMAIN FirstWith
  PROVE  FirstWith[f] \in Nat \X Nat \X Nat /\ HasPatch(FirstWith[f])
BY DEF FirstWith, HasPatch

\* isAtLeast for a version with a patch number.
ReachedBy(v, a, b, c) ==
  \/ v[1] > a
  \/ v[1] = a /\ v[2] > b
  \/ v[1] = a /\ v[2] = b /\ HasPatch(v) /\ v[3] >= c

LEMMA AtLeastIs ==
  ASSUME NEW v \in Versions, NEW a \in Nat, NEW b \in Nat, NEW c \in Nat
  PROVE  /\ IsAtLeast(v, <<a, b, c>>) <=> ReachedBy(v, a, b, c)
         /\ NoLater(<<a, b, c>>, v) <=> ReachedBy(v, a, b, c)
<1> DEFINE t == <<a, b, c>>
<1>1. t[1] = a /\ t[2] = b /\ t[3] = c /\ HasPatch(t)
  BY DEF HasPatch
<1>2. v[1] \in Nat /\ v[2] \in Nat /\ (HasPatch(v) => v[3] \in Nat)
  BY VersionIs
<1> HIDE DEF t
<1>3. IsAtLeast(v, t) <=> ReachedBy(v, a, b, c)
  BY <1>1 DEF IsAtLeast, ReachedBy, HasPatch
<1>4. NoLater(t, v) <=> ReachedBy(v, a, b, c)
  BY <1>1, <1>2 DEF NoLater, ReachedBy, HasPatch
<1> QED BY <1>3, <1>4 DEF t

LEMMA UpgradeKeeps ==
  ASSUME NEW v \in Versions, NEW w \in Versions, NoLater(v, w)
  PROVE  KeepsFeatures(v, w)
<1>0. /\ v[1] \in Nat /\ v[2] \in Nat /\ (HasPatch(v) => v[3] \in Nat)
      /\ w[1] \in Nat /\ w[2] \in Nat /\ (HasPatch(w) => w[3] \in Nat)
  BY VersionIs
<1>1. \/ v[1] < w[1]
      \/ v[1] = w[1] /\ v[2] < w[2]
      \/ v[1] = w[1] /\ v[2] = w[2] /\ HasPatch(v) /\ HasPatch(w) /\ v[3] <= w[3]
  BY DEF NoLater, HasPatch
<1>2. ASSUME NEW a \in Nat, NEW b \in Nat, NEW c \in Nat
      PROVE  IsAtLeast(v, <<a, b, c>>) => IsAtLeast(w, <<a, b, c>>)
  <2>1. ReachedBy(v, a, b, c) => ReachedBy(w, a, b, c)
    BY <1>0, <1>1 DEF ReachedBy, HasPatch
  <2> QED BY <2>1, AtLeastIs
<1>3. ASSUME NEW f \in DOMAIN FirstWith, Supports(f, v) PROVE Supports(f, w)
  <2>1. PICK a, b, c \in Nat : FirstWith[f] = <<a, b, c>>
    BY FirstsAre
  <2> QED BY <1>2, <1>3, <2>1 DEF Supports
<1>4. ASSUME SupportsSingleGrouped(v), ~SupportsSingleGrouped(w)
      PROVE  NoLater(<<1, 28, 0>>, w) /\ ~NoLater(<<1, 28, 8>>, w)
  <2>1. IsAtLeast(v, <<1, 28, 8>>) => IsAtLeast(w, <<1, 28, 8>>)
    BY <1>2
  <2>2. IsAtLeast(v, <<1, 27, 14>>) => IsAtLeast(w, <<1, 27, 14>>)
    BY <1>2
  <2>3. /\ NoLater(<<1, 28, 0>>, w) <=> IsAtLeast(w, <<1, 28, 0>>)
        /\ NoLater(<<1, 28, 8>>, w) <=> IsAtLeast(w, <<1, 28, 8>>)
    BY AtLeastIs
  <2> QED BY <1>4, <2>1, <2>2, <2>3 DEF SupportsSingleGrouped
<1>5. ASSUME v[1] = w[1], v[2] = w[2], RequiresInsertFix(w) PROVE RequiresInsertFix(v)
  <2>1. PICK minor \in 24..27 : /\ IsAtLeast(w, <<1, minor, 0>>)
                                /\ ~IsAtLeast(w, <<1, minor, FixedIn[minor]>>)
    BY <1>5 DEF RequiresInsertFix, FixedIn
  <2>2. DOMAIN FixedIn = 24..27 /\ FixedIn[minor] \in Nat
    BY DEF FixedIn
  <2>3. HasPatch(v) /\ HasPatch(w) /\ v[3] <= w[3] /\ v[1] = 1 /\ v[2] = minor
    <3>1. ReachedBy(w, 1, minor, 0) /\ ~ReachedBy(w, 1, minor, FixedIn[minor])
      BY <2>1, <2>2, AtLeastIs
    <3> QED BY <1>0, <1>1, <1>5, <2>2, <3>1 DEF ReachedBy, HasPatch
  <2>4. IsAtLeast(v, <<1, minor, 0>>) /\ ~IsAtLeast(v, <<1, minor, FixedIn[minor]>>)
    <3>1. ReachedBy(v, 1, minor, 0)
      BY <1>0, <2>3 DEF ReachedBy, HasPatch
    <3>2. ~IsAtLeast(v, <<1, minor, FixedIn[minor]>>)
      BY <1>2, <2>1, <2>2
    <3> QED BY <3>1, <3>2, AtLeastIs
  <2> QED BY <2>2, <2>4 DEF RequiresInsertFix
<1> QED BY <1>3, <1>4, <1>5 DEF KeepsFeatures

\* Whatever releases the server runs, a caller finds a feature exactly in the
\* versions that are no earlier than the first with it, and an upgrade loses
\* none, but for single and grouped generation before 1.28.8 (DbVersionSupport).
THEOREM FeaturesFollowOrder == VersionSpec => []FeaturesByOrder
<1>1. VersionIInv => FeaturesByOrder
  <2> SUFFICES ASSUME VersionIInv, NEW g \in Getters, getter[g] = "resolved",
                      NEW v, v = VersionOf(result[g])
               PROVE  /\ \A f \in DOMAIN FirstWith : Supports(f, v) <=> NoLater(FirstWith[f], v)
                      /\ \A w \in Sample : /\ NoLater(v, w) => KeepsFeatures(v, w)
                                           /\ NoLater(w, v) => KeepsFeatures(w, v)
    BY DEF FeaturesByOrder
  <2>1. result[g] \in 0..Len(Releases)
    BY ReleasesAreVersions DEF VersionIInv, VersionTypeOK, ResultsAreAnswers
  <2>2. v \in Versions
    <3>1. <<0, 0, 0>> \in Versions
      BY DEF Versions
    <3> QED BY <2>1, <3>1, ReleasesAssumption DEF VersionOf, Empty
  <2>3. ASSUME NEW f \in DOMAIN FirstWith PROVE Supports(f, v) <=> NoLater(FirstWith[f], v)
    <3>1. PICK a, b, c \in Nat : FirstWith[f] = <<a, b, c>>
      BY FirstsAre
    <3> QED BY <2>2, <3>1, AtLeastIs DEF Supports
  <2>4. ASSUME NEW w \in Sample
        PROVE  /\ NoLater(v, w) => KeepsFeatures(v, w)
               /\ NoLater(w, v) => KeepsFeatures(w, v)
    BY <2>2, UpgradeKeeps, ReleasesAssumption
  <2> QED BY <2>3, <2>4
<1> QED BY <1>1, VersionInvariant, PTL

-----------------------------------------------------------------------------
(***************************************************************************)
(* Connection: the inductive invariant.                                    *)
(***************************************************************************)
\* How far use has come: its client is held only when both of its checks have
\* passed, and nothing was opened before.
UseProgress ==
  /\ client = "none" <=> connect = "none"
  /\ client \in {"held", "closed"} => connect = "connected"
  /\ client = "rejected" => connect \in {"failed", "threw"} \/ check = "failed"

\* At most one channel is open: none until connect opens one and when connect
\* closes it, and from then on the one in use.
OnlyCurrent ==
  /\ channels \subseteq {current}
  /\ connect \in {"none", "meta", "length", "failed"} => channels = {}
  /\ connect \in {"health", "connected"} /\ client # "closed" => current \in channels
  /\ client = "closed" /\ ~late => channels = {}

\* Calls are made once there is a client.
CallsNeedClient == \A r \in Requests : call[r] # "idle" => client \in {"held", "closed"}

\* The channel that a request has chosen is open, unless the client was closed
\* or a stream has reconnected since.
ChosenServes(r) ==
  /\ chosenAt[r] <= reconnects
  /\ call[r] \in {"chosen", "sent"} =>
       via[r] \in channels \/ client = "closed" \/ reconnects > chosenAt[r]
  /\ cause[r] = "closed" =>
       call[r] = "rejected" /\ (client = "closed" \/ reconnects > chosenAt[r])

ChosenServe == \A r \in Requests : ChosenServes(r)

ConnectionIInv ==
  ConnectionTypeOK /\ UseProgress /\ OnlyCurrent /\ CallsNeedClient /\ ChosenServe

-----------------------------------------------------------------------------
LEMMA ConnectionInitIInv == ConnectionInit => ConnectionIInv
<1> SUFFICES ASSUME ConnectionInit PROVE ConnectionIInv
  OBVIOUS
<1> USE DEF ConnectionInit
<1>1. ConnectionTypeOK
  <2>1. /\ call \in [Requests -> {"idle", "login", "chosen", "sent", "resolved", "rejected"}]
        /\ via \in [Requests -> 0..0] /\ chosenAt \in [Requests -> Nat]
        /\ error \in [Requests -> {"none", "failed", "abort", "timeout"}]
        /\ cause \in [Requests -> {"none", "failed", "closed", "abort", "timeout"}]
    OBVIOUS
  <2>2. stream \in [Streams -> {"idle", "health", "threw"}]
    OBVIOUS
  <2>3. late \in BOOLEAN
    BY Zenon
  <2>4. opened = 0 /\ current = 0 /\ channels = {} /\ reconnects = 0
    OBVIOUS
  <2>5. current \in 0..opened /\ channels \subseteq 1..opened
    BY <2>4
  <2>6. /\ client \in {"none", "opening", "held", "rejected", "closed"}
        /\ connect \in {"none", "meta", "length", "health", "connected", "failed", "threw"}
        /\ check \in {"none", "pending", "reading", "passed", "failed", "skipped"}
    OBVIOUS
  <2> QED
    BY <2>1, <2>2, <2>3, <2>4, <2>5, <2>6 DEF ConnectionTypeOK
<1>2. UseProgress /\ OnlyCurrent
  BY DEF UseProgress, OnlyCurrent
<1>3. CallsNeedClient
  BY DEF CallsNeedClient
<1>4. ChosenServe
  BY DEF ChosenServe, ChosenServes
<1> QED
  BY <1>1, <1>2, <1>3, <1>4 DEF ConnectionIInv

\* The channel that is opened is a new one, and the one in use.
LEMMA OpensChannel ==
  ASSUME ConnectionTypeOK, NEW others, others \subseteq {}, Opens(others), via' = via
  PROVE  /\ opened' \in Nat /\ current' \in 0..opened' /\ channels' \subseteq 1..opened'
         /\ channels' = {current'}
         /\ via' \in [Requests -> 0..opened']
<1>1. /\ opened \in Nat /\ via \in [Requests -> 0..opened]
      /\ opened' = opened + 1 /\ current' = opened + 1 /\ channels' = {opened + 1}
  BY DEF ConnectionTypeOK, Opens
<1>2. opened + 1 \in 1..(opened + 1) /\ 0..opened \subseteq 0..(opened + 1)
  BY <1>1
<1> QED
  BY <1>1, <1>2

\* What the opening and closing of the client leaves alone.
LEMMA OpeningKeepsCalls ==
  ASSUME ConnectionIInv, UNCHANGED <<stream, callVars, reconnects>>,
         client \in {"held", "closed"} => client' \in {"held", "closed"}
  PROVE  CallsNeedClient'
BY DEF ConnectionIInv, CallsNeedClient, callVars

\* It serves the requests as long as no channel in use is closed.
LEMMA OpeningServes ==
  ASSUME ConnectionIInv, UNCHANGED <<callVars, reconnects>>,
         client' = "closed" \/ (client # "closed" /\ channels \subseteq channels')
         \/ client \notin {"held", "closed"}
  PROVE  ChosenServe'
<1> SUFFICES ASSUME NEW r \in Requests PROVE ChosenServes(r)'
  BY DEF ChosenServe
<1>1. ChosenServes(r) /\ (call[r] # "idle" => client \in {"held", "closed"})
  BY DEF ConnectionIInv, ChosenServe, CallsNeedClient, ChosenServes
<1> QED
  BY <1>1 DEF ChosenServes, callVars

LEMMA OpeningIInv ==
  ASSUME ConnectionIInv,
         \/ Use \/ UseUnchecked \/ CheckHeaders \/ CheckEnds \/ MetaHeaders \/ MetaArrives
         \/ ConnectHealth \/ UseSettles \/ Close
  PROVE  ConnectionIInv'
<1> USE DEF ConnectionIInv, ConnectionTypeOK, UseProgress, OnlyCurrent
<1>1. CASE Use
  <2>1. ConnectionTypeOK' /\ UseProgress' /\ OnlyCurrent'
    BY <1>1 DEF Use, channelVars, callVars
  <2> QED
    BY <1>1, <2>1, OpeningKeepsCalls, OpeningServes DEF Use
<1>2. CASE CheckHeaders \/ CheckEnds
  <2>1. ConnectionTypeOK' /\ UseProgress' /\ OnlyCurrent'
    BY <1>2 DEF CheckHeaders, CheckEnds, channelVars, callVars
  <2>2. ChosenServe'
    BY <1>2, OpeningServes DEF CheckHeaders, CheckEnds, channelVars
  <2> QED
    BY <1>2, <2>1, <2>2, OpeningKeepsCalls DEF CheckHeaders, CheckEnds
<1>3. CASE MetaHeaders
  <2>1. ConnectionTypeOK' /\ UseProgress' /\ OnlyCurrent'
    BY <1>3 DEF MetaHeaders, channelVars, callVars
  <2>2. ChosenServe'
    BY <1>3, OpeningServes DEF MetaHeaders, channelVars
  <2> QED
    BY <1>3, <2>1, <2>2, OpeningKeepsCalls DEF MetaHeaders
<1>4. CASE MetaArrives
  <2>1. CASE connect' = "health" /\ Opens({})
    <3>1. /\ UNCHANGED <<client, check, stream, callVars, reconnects, late>>
          /\ connect = "length"
      BY <1>4 DEF MetaArrives
    <3>2. ConnectionTypeOK'
      BY <2>1, <3>1, OpensChannel DEF callVars
    <3>3. client \notin {"held", "closed"}
      BY <3>1
    <3> QED
      BY <1>4, <2>1, <3>1, <3>2, <3>3, OpensChannel, OpeningKeepsCalls, OpeningServes DEF callVars
  <2>2. CASE connect' = "failed" /\ UNCHANGED channelVars
    <3>1. ConnectionTypeOK' /\ UseProgress' /\ OnlyCurrent'
      BY <1>4, <2>2 DEF MetaArrives, channelVars, callVars
    <3>2. ChosenServe'
      BY <1>4, <2>2, OpeningServes DEF MetaArrives, channelVars
    <3> QED
      BY <1>4, <3>1, <3>2, OpeningKeepsCalls DEF MetaArrives
  <2> QED
    BY <1>4, <2>1, <2>2 DEF MetaArrives
<1>5. CASE ConnectHealth
  <2>1. ConnectionTypeOK' /\ UseProgress' /\ OnlyCurrent'
    BY <1>5 DEF ConnectHealth, ClosedIfUnhealthy, callVars
  <2>2. client \notin {"held", "closed"}
    BY <1>5 DEF ConnectHealth
  <2> QED
    BY <1>5, <2>1, <2>2, OpeningKeepsCalls, OpeningServes DEF ConnectHealth
<1>6. CASE UseSettles
  <2>1. ConnectionTypeOK' /\ UseProgress' /\ OnlyCurrent'
    BY <1>6 DEF UseSettles, channelVars, callVars
  <2> QED
    BY <1>6, <2>1, OpeningKeepsCalls, OpeningServes DEF UseSettles
<1>7. CASE Close
  <2>1. ConnectionTypeOK' /\ UseProgress' /\ OnlyCurrent'
    BY <1>7 DEF Close, callVars
  <2> QED
    BY <1>7, <2>1, OpeningKeepsCalls, OpeningServes DEF Close
<1>8. CASE UseUnchecked
  <2>1. /\ UNCHANGED <<stream, call, via, error, chosenAt, cause, reconnects, late>>
        /\ client = "none" /\ connect = "none" /\ Opens({})
        /\ client' = "held" /\ connect' = "connected" /\ check' = "skipped"
    BY <1>8 DEF UseUnchecked, callVars
  <2>2. ConnectionTypeOK' /\ UseProgress' /\ OnlyCurrent'
    BY <2>1, OpensChannel
  <2>3. UNCHANGED callVars
    BY <1>8 DEF UseUnchecked
  <2> QED
    BY <2>1, <2>2, <2>3, OpeningKeepsCalls, OpeningServes
<1> QED
  BY <1>1, <1>2, <1>3, <1>4, <1>5, <1>6, <1>7, <1>8

\* Streams that reconnect close the channel they replace.
LEMMA StreamIInv ==
  ASSUME ConnectionIInv, NEW s \in Streams, Reconnect(s) \/ ReconnectHealth(s)
  PROVE  ConnectionIInv'
<1> USE DEF ConnectionIInv, ConnectionTypeOK, UseProgress, OnlyCurrent
<1>1. CASE Reconnect(s)
  <2>1. /\ UNCHANGED <<client, connect, check, call, via, error, cause>>
        /\ client \in {"held", "closed"} /\ Opens(ClosedFirst)
        /\ reconnects' = reconnects + 1
        /\ stream' = [stream EXCEPT ![s] = "health"]
        /\ late' = (late \/ client = "closed")
    BY <1>1 DEF Reconnect, openingVars, callVars
  <2>8. chosenAt' = chosenAt
    BY <1>1 DEF Reconnect, callVars
  <2>2. ClosedFirst \subseteq {}
    BY DEF ClosedFirst
  <2>3. /\ opened' \in Nat /\ current' \in 0..opened' /\ channels' \subseteq 1..opened'
        /\ channels' = {current'} /\ via' \in [Requests -> 0..opened']
    BY <2>1, <2>2, OpensChannel
  <2>4. late' \in BOOLEAN
    BY <2>1, Zenon
  <2>5. client = "closed" => late'
    BY <2>1
  <2>6. ConnectionTypeOK' /\ UseProgress' /\ OnlyCurrent'
    BY <2>1, <2>3, <2>4, <2>5, <2>8
  <2>7. CallsNeedClient'
    BY <1>1 DEF Reconnect, CallsNeedClient, openingVars, callVars
  <2>9. ASSUME NEW r \in Requests PROVE ChosenServes(r)'
    <3>1. ChosenServes(r) /\ chosenAt[r] \in Nat
      BY DEF ChosenServe
    <3>2. reconnects' > chosenAt[r]
      BY <2>1, <3>1 DEF ChosenServes
    <3> QED
      BY <2>1, <2>8, <3>1, <3>2 DEF ChosenServes
  <2> QED
    BY <2>6, <2>7, <2>9 DEF ChosenServe
<1>2. CASE ReconnectHealth(s)
  <2>1. ConnectionTypeOK' /\ UseProgress' /\ OnlyCurrent'
    BY <1>2 DEF ReconnectHealth, openingVars, channelVars, callVars
  <2>2. CallsNeedClient' /\ ChosenServe'
    BY <1>2 DEF ReconnectHealth, CallsNeedClient, ChosenServe, ChosenServes,
                openingVars, channelVars, callVars
  <2> QED
    BY <2>1, <2>2
<1> QED
  BY <1>1, <1>2

\* What a call leaves alone.
LEMMA CallsKeepChannels ==
  ASSUME ConnectionIInv, UNCHANGED <<openingVars, channelVars, stream, reconnects, late>>
  PROVE  /\ UseProgress' /\ OnlyCurrent'
         /\ /\ client' \in {"none", "opening", "held", "rejected", "closed"}
            /\ connect' \in {"none", "meta", "length", "health", "connected", "failed", "threw"}
            /\ check' \in {"none", "pending", "reading", "passed", "failed", "skipped"}
            /\ opened' \in Nat /\ current' \in 0..opened' /\ channels' \subseteq 1..opened'
            /\ stream' \in [Streams -> {"idle", "health", "threw"}]
            /\ reconnects' \in Nat /\ late' \in BOOLEAN
BY DEF ConnectionIInv, ConnectionTypeOK, UseProgress, OnlyCurrent, openingVars, channelVars

\* A step of request r serves the others, and r if it is shown to.
LEMMA OthersServe ==
  ASSUME ConnectionIInv, NEW r \in Requests,
         UNCHANGED <<openingVars, channelVars, stream, reconnects, late>>,
         \A q \in Requests \ {r} :
           /\ call'[q] = call[q] /\ via'[q] = via[q] /\ cause'[q] = cause[q]
           /\ chosenAt'[q] = chosenAt[q],
         ChosenServes(r)'
  PROVE  ChosenServe'
BY DEF ConnectionIInv, ChosenServe, ChosenServes, openingVars, channelVars

LEMMA RejectedIInv ==
  ASSUME ConnectionIInv, NEW r \in Requests, NEW why \in {"timeout", "abort", "failed", "closed"},
         Rejected(r, why), call[r] # "idle",
         why = "closed" => via[r] \notin channels /\ call[r] \in {"chosen", "sent"}
  PROVE  ConnectionIInv'
<1>1. /\ UNCHANGED <<openingVars, channelVars, stream, reconnects, late>>
      /\ via' = via /\ chosenAt' = chosenAt
  BY DEF Rejected
<1>2. /\ call' = [call EXCEPT ![r] = "rejected"]
      /\ cause' = [cause EXCEPT ![r] = why]
      /\ error' = [error EXCEPT ![r] = ErrorOf(why, r)]
  BY DEF Rejected
<1>3. ErrorOf(why, r) \in {"failed", "abort", "timeout"}
  BY DEF ErrorOf
<1>4. ConnectionTypeOK'
  <2>1. opened' = opened
    BY <1>1 DEF channelVars
  <2> QED
    BY <1>1, <1>2, <1>3, <2>1, CallsKeepChannels DEF ConnectionIInv, ConnectionTypeOK
<1>5. CallsNeedClient'
  BY <1>1, <1>2 DEF ConnectionIInv, ConnectionTypeOK, CallsNeedClient, openingVars
<1>6. ChosenServes(r)'
  BY <1>1, <1>2 DEF ConnectionIInv, ConnectionTypeOK, ChosenServe, ChosenServes, openingVars
<1>7. ChosenServe'
  BY <1>1, <1>2, <1>6, OthersServe DEF ConnectionIInv, ConnectionTypeOK
<1> QED
  BY <1>1, <1>4, <1>5, <1>7, CallsKeepChannels DEF ConnectionIInv

\* A request that goes on without an error or a new channel.
LEMMA GoesOnIInv ==
  ASSUME ConnectionIInv, NEW r \in Requests, NEW to \in {"sent", "resolved"},
         call[r] \in {"chosen", "sent"}, call' = [call EXCEPT ![r] = to],
         to = "sent" => via[r] \in channels,
         UNCHANGED <<openingVars, channelVars, stream, via, error, chosenAt, cause, reconnects, late>>
  PROVE  ConnectionIInv'
<1>1. ConnectionTypeOK'
  <2>1. opened' = opened
    BY DEF channelVars
  <2> QED
    BY <2>1, CallsKeepChannels DEF ConnectionIInv, ConnectionTypeOK
<1>2. CallsNeedClient'
  BY DEF ConnectionIInv, ConnectionTypeOK, CallsNeedClient, openingVars
<1>3. ChosenServes(r)'
  BY DEF ConnectionIInv, ConnectionTypeOK, ChosenServe, ChosenServes, openingVars, channelVars
<1>4. ChosenServe'
  BY <1>3, OthersServe DEF ConnectionIInv, ConnectionTypeOK
<1> QED
  BY <1>1, <1>2, <1>4, CallsKeepChannels DEF ConnectionIInv

LEMMA CallIInv ==
  ASSUME ConnectionIInv, NEW r \in Requests,
         \/ CallOver(r) \/ Choose(r) \/ FailsUnsent(r) \/ SendOver(r) \/ Answered(r)
         \/ TimesOut(r) \/ CallerAborts(r) \/ ClosedUnder(r)
  PROVE  ConnectionIInv'
<1>1. CASE CallOver(r)
  <2>1. /\ UNCHANGED <<openingVars, channelVars, stream, reconnects, late>>
        /\ UNCHANGED <<error, chosenAt, cause>>
        /\ call' = [call EXCEPT ![r] = "login"] /\ via' = [via EXCEPT ![r] = current]
        /\ client \in {"held", "closed"} /\ call[r] = "idle"
    BY <1>1 DEF CallOver
  <2>2. ConnectionTypeOK'
    BY <2>1, CallsKeepChannels DEF ConnectionIInv, ConnectionTypeOK, channelVars
  <2>3. CallsNeedClient'
    BY <2>1 DEF ConnectionIInv, ConnectionTypeOK, CallsNeedClient, openingVars
  <2>4. ChosenServes(r)'
    BY <2>1 DEF ConnectionIInv, ConnectionTypeOK, ChosenServe, ChosenServes, openingVars
  <2>5. ChosenServe'
    BY <2>1, <2>4, OthersServe DEF ConnectionIInv, ConnectionTypeOK
  <2> QED
    BY <2>1, <2>2, <2>3, <2>5, CallsKeepChannels DEF ConnectionIInv
<1>2. CASE Choose(r)
  <2>1. /\ UNCHANGED <<openingVars, channelVars, stream, reconnects, late>>
        /\ UNCHANGED <<error, cause>>
        /\ call' = [call EXCEPT ![r] = "chosen"] /\ via' = [via EXCEPT ![r] = current]
        /\ chosenAt' = [chosenAt EXCEPT ![r] = reconnects]
        /\ call[r] = "login"
    BY <1>2 DEF Choose, ChannelOf
  <2>2. current \notin channels => client = "closed"
    BY <2>1 DEF ConnectionIInv, ConnectionTypeOK, UseProgress, OnlyCurrent, CallsNeedClient
  <2>3. ConnectionTypeOK'
    BY <2>1, CallsKeepChannels DEF ConnectionIInv, ConnectionTypeOK, channelVars
  <2>4. CallsNeedClient'
    BY <2>1 DEF ConnectionIInv, ConnectionTypeOK, CallsNeedClient, openingVars
  <2>5. ChosenServes(r)'
    BY <2>1, <2>2 DEF ConnectionIInv, ConnectionTypeOK, ChosenServe, ChosenServes, openingVars,
                      channelVars
  <2>6. ChosenServe'
    BY <2>1, <2>5, OthersServe DEF ConnectionIInv, ConnectionTypeOK
  <2> QED
    BY <2>1, <2>3, <2>4, <2>6, CallsKeepChannels DEF ConnectionIInv
<1>3. CASE FailsUnsent(r)
  BY <1>3, RejectedIInv DEF FailsUnsent
<1>4. CASE SendOver(r)
  BY <1>4, RejectedIInv, GoesOnIInv DEF SendOver
<1>5. CASE Answered(r)
  BY <1>5, RejectedIInv, GoesOnIInv DEF Answered
<1>6. CASE TimesOut(r)
  BY <1>6, RejectedIInv DEF TimesOut
<1>7. CASE CallerAborts(r)
  BY <1>7, RejectedIInv DEF CallerAborts
<1>8. CASE ClosedUnder(r)
  BY <1>8, RejectedIInv DEF ClosedUnder
<1> QED
  BY <1>1, <1>2, <1>3, <1>4, <1>5, <1>6, <1>7, <1>8

LEMMA ConnectionNextIInv == ConnectionIInv /\ [ConnectionNext]_connectionVars => ConnectionIInv'
<1> SUFFICES ASSUME ConnectionIInv, [ConnectionNext]_connectionVars PROVE ConnectionIInv'
  OBVIOUS
<1>1. CASE UNCHANGED connectionVars
  BY <1>1 DEF connectionVars, ConnectionIInv, ConnectionTypeOK, UseProgress, OnlyCurrent,
              CallsNeedClient, ChosenServe, ChosenServes
<1> QED
  BY <1>1, OpeningIInv, StreamIInv, CallIInv DEF ConnectionNext

LEMMA ConnectionInvariant == ConnectionSpec => []ConnectionIInv
BY ConnectionInitIInv, ConnectionNextIInv, PTL DEF ConnectionSpec

-----------------------------------------------------------------------------
\* The state of the connection keeps its types.
THEOREM ConnectionTypeCorrect == ConnectionSpec => []ConnectionTypeOK
BY ConnectionInvariant, PTL DEF ConnectionIInv

\* No channel but the one in use is open, for any number of streams that
\* reconnect at once (ConnectionGRPC.reconnect, close).
THEOREM ChannelIsUnique == ConnectionSpec => []OneChannel
<1>1. ConnectionIInv => OneChannel
  BY DEF ConnectionIInv, UseProgress, OnlyCurrent, OneChannel
<1> QED
  BY ConnectionInvariant, <1>1, PTL

\* A channel left open has one of the causes named (ConnectionGRPC.use, close).
THEOREM NoOtherLeak == ConnectionSpec => []LeaksAreKnown
<1>1. ConnectionIInv => LeaksAreKnown
  BY DEF ConnectionIInv, ConnectionTypeOK, UseProgress, OnlyCurrent, LeaksAreKnown
<1> QED
  BY ConnectionInvariant, <1>1, PTL

\* A request meets a closed channel only if the client was closed or a stream
\* reconnected after the request had chosen it: the login in between costs
\* none (ConnectionGRPC.search and the others, reconnect, close).
THEOREM LoginCostsNoRequest == ConnectionSpec => []StaleOnlyIfReplaced
<1>1. ConnectionIInv => StaleOnlyIfReplaced
  BY DEF ConnectionIInv, ChosenServe, ChosenServes, StaleOnlyIfReplaced
<1> QED
  BY ConnectionInvariant, <1>1, PTL

\* Every open channel is the one in use or was left open for a known cause
\* (ConnectionGRPC.use, reconnect, close).
THEOREM NoChannelUnaccounted == ConnectionSpec => []ChannelsAccountedFor
BY ChannelIsUnique, NoOtherLeak, PTL DEF ChannelsAccountedFor
=============================================================================
