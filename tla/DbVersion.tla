------------------------------ MODULE DbVersion -----------------------------
(***************************************************************************)
(* DbVersionProvider and DbVersion of src/src/utils/dbVersion.ts: getters  *)
(* of the version of the server, of which each asks the server as long as  *)
(* no version is cached, refreshes by the ready and live checkers, which   *)
(* do the same, forced refreshes, and a server that is upgraded meanwhile. *)
(*                                                                         *)
(* The client of v2/index.ts takes a failed request for an empty version,  *)
(* with which its builders leave the class name out of their paths; the    *)
(* other client rejects.                                                   *)
(***************************************************************************)
EXTENDS Naturals, Sequences

CONSTANTS
  Getters,     \* calls of getVersion and refresh
  Forced,      \* those of refresh(true)
  Releases,    \* the versions the server runs, one after the other
  Sample,      \* other versions, to compare
  MaxFailed    \* bound: requests that fail

\* A version is <<major, minor, patch>>, or <<major, minor>>.
Versions == (Nat \X Nat \X Nat) \cup (Nat \X Nat)

ASSUME ReleasesAssumption ==
  /\ Releases \in Seq(Versions) /\ Releases # <<>>
  /\ \A i \in DOMAIN Releases : Releases[i][1] >= 1
  /\ Sample \subseteq Versions
  /\ Forced \subseteq Getters /\ MaxFailed \in Nat

Empty == 0   \* EMPTY_VERSION, among the positions of Releases
None == Len(Releases) + 1   \* versionPromise is undefined

VARIABLES
  swallows,        \* whether a failed request is an empty version; it is in v2
  versionPromise,  \* the release that is cached, or None
  getter,          \* getter[g]: where call g stands
  answer,          \* answer[g]: the release in the answer to g's request, or None
  result,          \* result[g]: the release g resolved with
  release,         \* the release the server runs
  failed,
  calledAt,        \* history: calledAt[g]: the release at the time of the call
  crossed          \* history: whether two requests were ever in flight at once

versionVars ==
  <<swallows, versionPromise, getter, answer, result, release, failed, calledAt, crossed>>

VersionInit ==
  /\ swallows \in BOOLEAN
  /\ versionPromise = None
  /\ getter = [g \in Getters |-> "idle"]
  /\ answer = [g \in Getters |-> None]
  /\ result = [g \in Getters |-> None]
  /\ release = 1 /\ failed = 0
  /\ calledAt = [g \in Getters |-> 0] /\ crossed = FALSE

-----------------------------------------------------------------------------
HasPatch(v) == Len(v) = 3

\* Mutant: the patch numbers are compared whatever the minor versions are.
IsAtLeastInEach(v, w) ==
  /\ v[1] >= w[1] /\ v[2] >= w[2]
  /\ HasPatch(v) /\ HasPatch(w) /\ v[3] >= w[3]

\* isAtLeast
IsAtLeast(v, w) ==
  \/ v[1] > w[1]
  \/ v[1] = w[1] /\ v[2] > w[2]
  \/ v[1] = w[1] /\ v[2] = w[2] /\ HasPatch(v) /\ HasPatch(w) /\ v[3] >= w[3]

\* The first version with each feature: DbVersionSupport, supports...
FirstWith ==
  [CompatibleGrpcService |-> <<1, 27, 0>>, TenantGetRESTMethod |-> <<1, 28, 0>>,
   AggregateGRPC |-> <<1, 29, 0>>, VectorsFieldInGRPC |-> <<1, 29, 0>>,
   GenerativeConfigRuntime |-> <<1, 30, 0>>, ServerSideBatching |-> <<1, 36, 0>>,
   Tokenize |-> <<1, 37, 0>>, TokenizeStopwords |-> <<1, 37, 2>>,
   ServerSideDefaultVectorIndexType |-> <<1, 37, 5>>]

Supports(feature, v) == IsAtLeast(v, FirstWith[feature])

\* supportsSingleGrouped
SupportsSingleGrouped(v) ==
  \/ IsAtLeast(v, <<1, 27, 14>>) /\ ~IsAtLeast(v, <<1, 28, 0>>)
  \/ IsAtLeast(v, <<1, 28, 8>>)

\* requiresNamedVectorsInsertFix: for each minor version, the first patch that
\* needs the fix no more.
FixedIn == [minor \in 24..27 |-> <<26, 22, 8, 1>>[minor - 23]]

RequiresInsertFix(v) ==
  \E minor \in DOMAIN FixedIn :
    IsAtLeast(v, <<1, minor, 0>>) /\ ~IsAtLeast(v, <<1, minor, FixedIn[minor]>>)

\* supportsClassNameNamespacedEndpoints
SupportsClassNames(v) == (v[1] = 1 /\ v[2] >= 14) \/ v[1] >= 2

\* What a position of Releases stands for.
VersionOf(i) == IF i = Empty THEN <<0, 0, 0>> ELSE Releases[i]

-----------------------------------------------------------------------------
Asking == {g \in Getters : getter[g] \in {"asked", "answered"}}

\* Mutant: a forced refresh does not ask when there is a version.
AsksIfNone(g) == versionPromise = None

\* getVersion and refresh ask when nothing is cached, refresh(true) always.
Asks(g) == versionPromise = None \/ g \in Forced

GetVersion(g) ==
  /\ getter[g] = "idle"
  /\ calledAt' = [calledAt EXCEPT ![g] = release]
  /\ \/ /\ Asks(g)
        /\ getter' = [getter EXCEPT ![g] = "asked"]
        /\ versionPromise' = None
        /\ crossed' = (crossed \/ Asking # {})
        /\ UNCHANGED result
     \/ /\ ~Asks(g)
        /\ getter' = [getter EXCEPT ![g] = "resolved"]
        /\ result' = [result EXCEPT ![g] = versionPromise]
        /\ UNCHANGED <<versionPromise, crossed>>
  /\ UNCHANGED <<swallows, answer, release, failed>>

\* The server answers /meta.
AnswerMeta(g) ==
  /\ getter[g] = "asked"
  /\ getter' = [getter EXCEPT ![g] = "answered"]
  /\ answer' = [answer EXCEPT ![g] = release]
  /\ UNCHANGED <<swallows, versionPromise, result, release, failed, calledAt, crossed>>

\* The request fails.
MetaFails(g) ==
  /\ failed < MaxFailed
  /\ failed' = failed + 1
  /\ getter[g] = "asked" \/ (getter[g] = "answered" /\ answer[g] # Empty)
  /\ getter' = [getter EXCEPT ![g] = IF swallows THEN "answered" ELSE "rejected"]
  /\ answer' = [answer EXCEPT ![g] = Empty]
  /\ UNCHANGED <<swallows, versionPromise, result, release, calledAt, crossed>>

\* The answer is no version: fromString throws.
Unparsable(g) ==
  /\ failed < MaxFailed
  /\ failed' = failed + 1
  /\ getter[g] = "answered" /\ answer[g] # Empty
  /\ getter' = [getter EXCEPT ![g] = "rejected"]
  /\ UNCHANGED <<swallows, versionPromise, answer, result, release, calledAt, crossed>>

\* Mutant: an empty version is cached.
CacheAll(i) == i

\* cache
Cache(i) == IF i = Empty THEN versionPromise ELSE i

\* The answer arrives, is cached and resolves the call.
Cached(g) ==
  /\ getter[g] = "answered"
  /\ getter' = [getter EXCEPT ![g] = "resolved"]
  /\ versionPromise' = Cache(answer[g])
  /\ result' = [result EXCEPT ![g] = IF answer[g] = Empty THEN Empty ELSE Cache(answer[g])]
  /\ UNCHANGED <<swallows, answer, release, failed, calledAt, crossed>>

Upgrade ==
  /\ release < Len(Releases)
  /\ release' = release + 1
  /\ UNCHANGED <<swallows, versionPromise, getter, answer, result, failed, calledAt, crossed>>

VersionNext ==
  \/ \E g \in Getters : GetVersion(g) \/ AnswerMeta(g) \/ MetaFails(g) \/ Unparsable(g) \/ Cached(g)
  \/ Upgrade

VersionSpec == VersionInit /\ [][VersionNext]_versionVars

-----------------------------------------------------------------------------
\* Types of the state.
VersionTypeOK ==
  /\ swallows \in BOOLEAN
  /\ versionPromise \in 1..None
  /\ getter \in [Getters -> {"idle", "asked", "answered", "resolved", "rejected"}]
  /\ answer \in [Getters -> 0..None]
  /\ result \in [Getters -> 0..None]
  /\ release \in 1..Len(Releases)
  /\ failed \in Nat /\ crossed \in BOOLEAN
  /\ calledAt \in [Getters -> 0..Len(Releases)]

\* A call that asked the server resolves with a release no older than the one
\* running when it was called, whatever was cached meanwhile (getVersion,
\* refresh): a forced refresh is never answered from the cache.
ForcedIsFresh ==
  \A g \in Forced : getter[g] = "resolved" /\ result[g] # Empty => result[g] >= calledAt[g]

\* What is cached after a forced refresh is no older than the refresh, unless
\* the answer to another request crossed it: then a late one may bring back an
\* older release for good.
CacheIsFresh ==
  \A g \in Forced :
    getter[g] = "resolved" /\ result[g] # Empty /\ versionPromise # None
      => versionPromise >= calledAt[g] \/ crossed

\* A call resolves with the empty version only if its own request failed: the
\* failure of another is not remembered.  So a builder leaves out the class
\* name only after a failure of its own, or on a server before 1.14.
UnknownAfterOwnFailure ==
  \A g \in Getters : getter[g] = "resolved" =>
    /\ result[g] = Empty => answer[g] = Empty /\ failed > 0
    /\ result[g] # Empty /\ ~SupportsClassNames(VersionOf(result[g]))
         => \E i \in DOMAIN Releases : Releases[i][1] = 1 /\ Releases[i][2] < 14

\* What a getter resolves with, and what stays cached, is founded on an answer
\* to itself, or on one that no other crossed.
VersionsAreFounded == ForcedIsFresh /\ CacheIsFresh /\ UnknownAfterOwnFailure

\* v comes no later than w; a version without a patch number is only compared
\* with those of other minor versions.
NoLater(v, w) ==
  \/ v[1] < w[1]
  \/ v[1] = w[1] /\ v[2] < w[2]
  \/ v[1] = w[1] /\ v[2] = w[2] /\ HasPatch(v) /\ HasPatch(w) /\ v[3] <= w[3]

\* Whether an upgrade from v to w keeps what the client does with v: no feature
\* is lost, single and grouped generation between 1.28.0 and 1.28.8 only, and the
\* need for the insert fix does not come back with a patch.
KeepsFeatures(v, w) ==
  /\ \A f \in DOMAIN FirstWith : Supports(f, v) => Supports(f, w)
  /\ SupportsSingleGrouped(v) /\ ~SupportsSingleGrouped(w)
     => NoLater(<<1, 28, 0>>, w) /\ ~NoLater(<<1, 28, 8>>, w)
  /\ v[1] = w[1] /\ v[2] = w[2] /\ RequiresInsertFix(w) => RequiresInsertFix(v)

\* From the version it got, a caller concludes that the server has a feature if
\* and only if that version is no earlier than the first with it; and it loses
\* none of them when the server goes from an earlier version to the one it got,
\* or from that to a later one (DbVersionSupport).
FeaturesByOrder ==
  \A g \in Getters : getter[g] = "resolved" =>
    LET v == VersionOf(result[g])
    IN  /\ \A f \in DOMAIN FirstWith : Supports(f, v) <=> NoLater(FirstWith[f], v)
        /\ \A w \in Sample :
             /\ NoLater(v, w) => KeepsFeatures(v, w)
             /\ NoLater(w, v) => KeepsFeatures(w, v)
=============================================================================
