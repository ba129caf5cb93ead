# Verification of the Weaviate TypeScript client

TLA+ models of the parts of this repository that keep state across awaits, or
translate values in several ways, TLC runs on small instances, and TLAPS proofs
for all instances. Source paths are below `src/src/` unless they say otherwise.

## 1. The system

The client is a library on one JavaScript event loop: nothing runs in parallel,
but every `await`, timer and stream lets another part of the client, or another
call of the application, run on the same objects. So an action of a model is
the code between two awaits, and its interleavings are those of the event loop
with the network.

| Component | State | Operations | What is hard | What makes it correct |
|---|---|---|---|---|
| Batch queue, `Queue` of `collections/data/batch.ts` | the deques of promises and of resolvers | `push`, `pull` with a time-out, `length` | the timer of a pull races a push; the promise is put back | first in, first out; nothing lost or returned twice |
| Batch stream, `Batcher` and `Batch.stream` of the same file, `grpc/batcher.ts` | flags, batch size, keys in flight, caches of what is not answered, pending requests, results by index | `addObject`, `addReference`, `stop`, the request generator, the receiver, `reconnect`, `restart` | four parties on the same fields; shutdown, out of memory, renewal, errors; cut by count and by size; entries that share a key | every accepted entry gets one result at its position; order; the window opens; stop returns |
| Authentication, `connection/auth.ts`, `login` of `connection/http.ts` | token, expiry, refresh token, interval timer | `login`, `refresh` for three grants, the background refresh, `stopTokenRefresh`, `resetExpiresAt` | any number of logins and the timer write the same fields; the clock moves | a token returned is valid; one timer; the timer is early enough |
| Backups, `collections/backup/client.ts`, `backup/` | the loop of each waiting call | `create`, `restore`, `cancel`, the builders | other clients cancel and poll the same job; answers get lost | a waiter reports how its job ended; a denied cancellation did not happen |
| Bulk insert and ingest, `collections/data/index.ts`, `collections/serialize/`, `collections/deserialize/`, `grpc/retry.ts` | a list that timers fill | `insertMany`, `ingest` | an object is serialized in a timer; the request is sent again after it was served | one response per object; an object is stored once |
| Iterator, `collections/iterator/index.ts` | the cursor `last` | `next` | the cursor is shared by loops; the collection changes between pages; queries fail | the loops scan the collection; repeats need an overlap |
| Collection configuration, `collections/config/` | none beyond a call | `update` | read, merge and write back beside other clients | an update is lost to an overlap only; one quantizer, one generative module |
| Shards, `updateShards` of the same, `schema/shardsUpdater.ts` | a builder's errors | `updateShards`, `ShardsUpdater.do` | one of many requests fails while the others go on | resolved means that every shard was set |
| Tenants, `collections/tenants/index.ts` | none beyond a call | `update` in chunks | chunks are sent at once and awaited in order; one fails | resolved and rejected tell what was applied |
| Filters, `collections/filters/classes.ts` | chains of references, partly shared | `byRef`, `byProperty`, the conditions | conditions write into a chain that others hold | the path asked for |
| Values, `collections/serialize/index.ts` | none | a filter or property over gRPC and over REST | guards overlap; empty and mixed lists, numbers that are not finite | both ways say the same |
| Vectors of a search, the same file, `collections/query/` | none | `nearVector`, `hybrid`, vectors to bytes and back | names taken for options; rows of several lengths | what is given is sent |
| Connections, `connection/grpc.ts`, `grpc/base.ts` | the channel in use | `use`, `connect`, `reconnect`, `close`, `sendWithTimeout` | a channel is replaced while a call that chose it awaits something else or uses it; time-out against abort signal | one channel; a call meets a closed one only if it was replaced since it was chosen |
| REST requests, `connection/http.ts`, `fetchWithTimeout`, with `exists`, `delete`, `activate`, `getByName` and others | none beyond a call | one request with a timer, its status turned into a value | served and timed out, tried again, denied | a value is what the server found |
| Database version, `utils/dbVersion.ts`, `misc/*Checker.ts`, `v2/index.ts` | the cached version | `getVersion`, `refresh`, `isAtLeast` | getters, forced refreshes and an upgrade overlap; failures | a forced refresh is fresh; comparison is an order |
| Classification, `classifications/scheduler.ts` | a time-out and an interval | `waitForCompletion` | polls overlap, the time-out races an answer | it settles truly; timers are cleared |
| Builders of the v2 client, `validation/commandBase.ts` and its subclasses | parameters and errors | `with...`, `do` | errors are never removed; three builders look at them too early | nothing incomplete is sent, but once by those three |
| Roles, `roles/` | none beyond a call | create, read, delete, add, remove, `hasPermissions` | several requests while other admins write; permissions keyed and merged | what is shown is what was granted |
| The rest: client composition, `graphql/`, `tokenize/`, `cluster/`, generated code | arguments | one request each | nothing follows anything | translation only |

Who calls whom: `index.ts` builds the connection, which owns one
`OidcAuthenticator`; every REST, GraphQL and gRPC call starts with
`ConnectionREST.login`. `Batch.stream` owns a `Batcher`, which owns one `Queue`
with one reader, the generator, and asks the connection for a stream and to
reconnect. `ingest` drives a `Batcher` and awaits each `addObject`. A
collection handle makes iterators, queries and the clients of its
configuration, tenants and data over the same connection. Waiting for a backup
or a classification polls through it. The ready and live checkers refresh the
version that feature checks read.

`PROJECT.json` lists the hazards of all components, each at its line, with the
properties that cover it.

## 2. Modules

| Module | Models | Uses |
|---|---|---|
| `Fifo` | abstract channel: push, pop | |
| `Queue` | `Queue`, with deques of promises and resolvers | implements `Fifo` |
| `Delivery` | abstract batch stream: accept, report, close, end | |
| `Batcher`, `Ingest`, `MCBatcher` | `Batcher` and `Batch.stream`; what `ingest` makes of the results | the queue is the channel that `Queue` implements; implements `Delivery` |
| `Login`, `MCLogin` | `login`, `OidcAuthenticator`, a clock, a provider | |
| `Backup`, `MCBackup` | create, restore, cancel and the builders, Weaviate's jobs, a network that loses answers | |
| `Scan` | abstract iteration over a collection that changes | |
| `Iterator` | `Iterator`, loops, queries, the collection | implements `Scan` |
| `Insert`, `Config`, `Shards`, `Tenants`, `Filter`, `Values`, `Search` | the parts of a collection handle | `MCCollection` instantiates them |
| `Connection`, `Rest`, `DbVersion`, `Classification`, `Builder`, `Roles` | the parts of a client | `MCClient` instantiates them with `MCCollection` and `Queue` |
| `QueueProofs`, `BatcherProofs`, `LoginProofs`, `BackupProofs`, `IteratorProofs`, `RequestProofs`, `CollectionProofs`, `ClientProofs` | theorems | the modules they are about |

**Queue.** A promise is its number; `valueOf[p]` is what it was resolved with,
`promises` and `resolvers` are the deques. `Pull` takes a promise, `Deliver`
returns its item, `Timeout` puts it back (`_readd`), `Push` resolves the oldest
unused resolver.

**Batcher.** Objects and references are entries, numbered in the order of the
calls; `KeyOf` is the uuid or beacon, `SizeOf` the bytes an entry is encoded in.
`ReqSize` is the size of the whole message: an entry is a message in a list, the
two lists are messages in the data and the data one in the request, and each
has a tag and a length that takes a byte more from each of `Limits` on
(`FieldSize`). The code's own sum is `totalSize`, to which an entry adds
`Estimate`, its bytes and `Overhead`. The twin
fields of the class (objects and references) are functions on `Kinds`. The
actions are grouped by who takes them: the application (`Add`, `AddResumes`,
`Stop`, `StopReturns`), the generator (`Begin`, `LeaveOnShutdown`,
`RenewStream`, `PauseOnOom`, `LeaveOnOom`, `Wait`, `PullNothing`, `Finish`,
`PullEntry`, `YieldAndPack`; `pc` is the await it stands at), and the receiver
(`Connect`, `Recv...`, `Reconnect`, `ReconnectFails`; `rx` is where it stands).
The sleeps of a polling loop are stutters (`Poll`). The server and the
transport are external: they acknowledge, refuse, fail or report any request
they hold, and a clean end of a stream comes after the client's stop message
and after everything was reported. `Delivery` is what the application sees of all
this: its entries, what `uuids`, `beacons`, `objErrors` and `refErrors` hold at
their places (`Results`), and whether the stream is over. `Ingest` adds the responses that `ingest`
makes of the results when the stream has ended (`AllResponses`).

**Login.** A token is the time at which the provider stops accepting it. A
login is at the request for Weaviate's configuration, at the provider's
configuration, or at the token request, which is issued in one step and
arrives in a later one. The timers that were set and not cleared are kept in a
sequence, so that a second one would be seen. `failed` is a history variable.

**Backup.** A call is `starting`, `polling`, `sleeping` or `cancelling` or has
returned; a request is served and answered in two steps and `Fail` may replace
the answer before or after it was served. `wait` is the loop's condition: after
a success the client sleeps once more before it returns, and the builder does
not. The two APIs differ in `ResultOf`: the client throws on a failure or a
cancellation, the builder resolves with the status.

**Insert.** `IterateTimer` serializes one object per timer and `waitFor` is the
condition `AllMapped`. An object may be one for which `batchObject` throws, in
the call for the first and in a timer for the others. `Retry` sends the same
request again, with the uuids of the first attempt, whether or not that one was
served.

**Iterator, Scan.** `CallNext` reads the cursor, `Answer` serves the page,
`Receive` moves the cursor and delivers the first object of the page; the rest
of the page is fetched again, as in the code, whose cache is refilled by every
call. `Change` inserts and removes objects. `staying`, `delivered`, `repeated`
and `overlapped` are histories. `Scan` says that what stays is delivered before
an iteration is over.

**Config.** `CallUpdate`, `Read`, `MergeAndSend` and the write are separate
steps. A schema keeps, of each setting, who updated it last; the set of
generative modules; and for each vector the set of quantizers enabled, so that
two of them would be seen. `seen` and `written` are histories.

**Shards, Tenants.** A request is sent, served and answered in three steps, and
may fail before or after it is served. A call of `updateShards` rejects at the
first failure while its other requests go on; a builder waits for all of them
and keeps the errors. The chunks of a tenants' update are sent at once; `Take`
is the body of the `for await`, `LoopEnd` its end.

**Filter.** References are numbered as they are made, so what is shared in the
code is shared in the model. **Values** and **Search** keep one variable, the
value or the vectors to send; their content is in operators, one for each
guard and each direction of the translation. A value is a kind or a list of
kinds; `nonFinite` is NaN and the infinities, which JSON makes null and protobuf
sends as doubles.

**Connection.** Channels are numbered; `channels` are those open. `use` runs
the health check and the version check side by side (`CheckHeaders`,
`CheckEnds`, `MetaHeaders`, `MetaArrives`, `ConnectHealth`, `UseSettles`), or
neither with `skipInitChecks` (`UseUnchecked`). A call logs in (`CallOver`),
takes the channel in use (`Choose`, as `this.grpc` does), awaits the check of
the version and the serializer, and sends (`SendOver`); it fails if the channel
it chose was closed meanwhile. **Rest.** A request is sent, served, its
headers arrive (the timer is cleared) and its body, if it has one to read
(`ReadsBody`: `exists` and `getByName` read the body of a success too, `head`
reads none of a 404), is read. `getByNameOverGrpc` is `getByName` of servers
before 1.28: an answer comes whole, and a list without the tenant becomes
null. **DbVersion.** A
version is its position in `Releases`; `crossed` remembers that requests were
in flight together. **Classification**, **Builder** and **Roles** follow the
code's steps one by one.

**MCClient.** The parts share nothing but the connection, and no property
speaks of two of them, so a behaviour uses one part (`used`) and one run checks
them all, the queue of a batch among them. This is a union of the instances and not a composition: `ClientProofs`
shows that it gives each part the behaviours it has alone.

## 3. Runs

Passing runs:

| Run | Question | Instance |
|---|---|---|
| `batcher_small` | Flow control, keys in flight, and every entry sent and sent once, with a refusal (out of memory), a shutdown, a renewal and a lowered batch size; some entries share a key | 6 entries of size 1, batch size 2 |
| `batcher_mixed` | Order, completeness, positions, by how much a request may exceed the limit of a message, what `ingest` returns, when the client gives up, and that the stream implements `Delivery`, with a raised batch size, a shutdown, a stream error and six failed reconnections | 6 entries of sizes 1 to 10, one too large; a limit of 18 bytes; batch size 1, raised to 2 or 3 |
| `login` | Is a token that is returned valid, is there one timer, is it early enough? | 2 logins and the timer, 14 ticks |
| `backup` | Are reports and denials true, and does the wait end? | one client, one builder, 2 cancels, both jobs, with or without a backup from before |
| `client` | The properties of the other parts, below | below; some 300000 states |

The properties of the run `client`:

| Property | Part | What it says |
|---|---|---|
| `ImplementsFifo`, `ItemsAccountedFor`, `PushedIsPulled` | Queue | for its one reader the queue implements a channel; no item is lost, repeated, overtaken or miscounted by `length`; every pushed item is returned although pulls time out |
| `InsertedOnce` | Insert | one response per object at its position, and an object is stored once however often the request is sent again |
| `ImplementsScan`, `RepeatsNeedOverlap` | Iterator | the loops over one Iterator implement `Scan`; objects repeat only when two calls of `next` were in flight at once |
| `MergesAreSound` | Config | an update is lost to an overlap only; never two quantizers for a vector, nor two generative modules |
| `ShardsReportTruly` | Shards | resolved means that every shard was set; the report shows it; a builder leaves no request under way |
| `UpdateAnswersTruly` | Tenants | resolved means that all chunks were applied; rejected, that all before the failed one were |
| `FreshRefsWork` | Filter | references not used twice give the path asked for (of three links, the first and the last), and only reuse makes a condition throw |
| `SameBothWays` | Values | gRPC and REST say the same, but for numbers that are not finite and for the lists that one of them refuses or loses |
| `VectorsArrive` | Search | every vector given is sent under its name or the search throws, but for two names in hybrid searches; rows of one length come back from their bytes |
| `ChannelsAccountedFor`, `StaleOnlyIfReplaced` | Connection | every open channel is the one in use or left open for one of three causes; a call meets a closed channel only if the client was closed, or a stream replaced the channel after the call had chosen it, so that a reconnection during the login costs no call |
| `VersionsAreFounded`, `FeaturesByOrder` | DbVersion | a forced refresh is fresh, the cache goes stale only when requests crossed, a version is unknown only after a failure of one's own; feature checks agree with the order of versions |
| `WaitIsTrue` | Classification | a wait resolves only for a classification that has completed, and its timers are set exactly while it is pending |
| `IncompleteOnce` | Builder | at most one incomplete request, by the builders that validate late |
| `RoleShowsGrants`, `HasIsTrue` | Roles | a role shows the grants created or read; `hasPermissions` is true only if each was held when it was asked for |
| `ValueIsFounded` | Rest | what an operation returns is what the server found when it served that request, but for the false of `exists` and of the deletion of a user, which any failure gives (see `rest_exists`) |
| `CallsSettle` | all | every call settles, but for inserts whose serializer throws in a timer and for the reading of bodies over REST, which has no time-out |

Violation runs, each the evidence of a finding in `PROJECT.json`:

| Run | What the code does |
|---|---|
| `batcher_adds_wait` | an `addObject` that finds a full request in flight sleeps forever (`batch.ts:141` compares a number that was read before) |
| `batcher_resume` | after a shutdown and a reconnection what was added is never sent, although `stop` was called and no request waits for more: `isShuttingDown` is never reset |
| `batcher_renewal_drops` | renewing the stream drops the request being packed |
| `batcher_error_hidden` | a stream that fails after `stop` was called lets `stop` resolve |
| `backup_cancel` | a `cancel` that timed out, or was refused with 401 or 403, resolves with `true` |
| `rest_exists` | `roles.exists` resolves with false when its request times out, breaks or is refused, though it is to tell whether the role exists (`roles/index.ts:84`) |
| `filter_reuse` | a reference that `byRef` was called on changes the paths of the conditions made from it (`classes.ts:243` writes before it copies) |

Each property of a passing run is violated when one definition is replaced by
its mutant (`PROJECT.json`, `mutants`): the mutants stand in the modules before
the definitions they replace. Several properties are conjunctions of named
parts, which the theorems state one by one.

### Bounds, and why they are enough

- `Queue`: `MaxPushes` is the only bound. A time-out, a waiting reader and a
  queued item disturb the two deques by one element each; four pushes let each
  precede and follow the others.
- `Batcher`: `N` entries and `Budget`, how often each of backoff, out of
  memory, shutdown, stream error, renewal and failed reconnection may happen.
  Six entries are three requests at batch size 2, one in flight, one packed and
  one queued, which is all that the generator can tell apart. `batcher_mixed`
  starts at batch size 1 so that an add waits while one object is in flight and
  goes on when a backoff raises the size, the only way out of that wait
  (`AddResumes`); `batcher_small` lowers it. The sizes make one
  request be cut by its size, one by its count, one exceed the limit by what the
  code does not count, and one entry exceed every request. The encoding is the
  encoder's with small numbers: `Limits` has one place, 8 bytes, in place of
  2^7, 2^14 and so on, and `Overhead` is 2 in place of 4, the tag and the length
  of an entry below it, so that an entry above it is not covered, as one of 2^21
  bytes and more is not in the code.
- `Login`: `Horizon`. The periods keep the order of the code's: `Period` (30 s)
  is half of `Ahead` (60 s), a lifetime is longer than both, and `Lag` (2 s) is
  the smallest. In 14 ticks the given token expires, the timer refreshes twice
  and the refreshes overlap. The proofs need no horizon.
- `Backup`: two waiters and two cancellers; each of the APIs meets a
  cancellation, and one cancel may find what the other left.
- `Insert`: 3 objects, so that the first, one in the middle and the last may
  fail; `MaxAttempts` 2, so that a request is served, lost and sent again.
- `Iterator`: 3 uuids, 2 loops, pages of 2 (100 in the code), one change
  (`MaxChanges`) and one failed query (`MaxFailures`): a late answer can move
  the cursor back past what another loop received. The theorems need no bound.
- `Config`: 4 updates that mention one or both of two settings, three
  generative modules, two quantizers for one vector, one for a flat index and
  one for an unknown vector; `MaxLost` write that is lost.
- `Shards`: a call with names, one without, a builder; 2 shards, and
  `MaxRestarts` 1, so that the builder is used again with its old errors. Any
  request may fail.
- `Tenants`: 3 chunks of 2 (100 in the code), the last not full; any
  chunk may fail, before and after its turn.
- `Filter`: 6 references and 2 conditions: chains of three, shared by two.
- `Values`: lists of at most 2 (`MaxList`), since the guards ask whether every
  element is of one kind. `Search`: records over a plain name and the two names
  that options have; lists of at most 3 rows of at most 5 numbers, with `Word`
  4 in place of 65536, so that lengths below and above it occur.
- `Connection`: 2 streams, `MaxReconnects` 2, a call with and one without a
  signal. `DbVersion`: 3 getters, one forced, 3 releases, one failure
  (`MaxFailed`), and a `Sample` of versions around those of features.
  `Classification`: 4 polls in any order. `Builder`: 2 parameters, 4 calls of
  `do`. `Roles`: 2 admins, 3 calls, three sets of permissions:
  two with keys of several permissions, which share one permission, so that a
  role holds a part of what is asked for, and one without an action.
  `Rest`: each operation, 2 requests altogether: one and its repetition, or two
  operations side by side.

### Fairness, and why the code justifies it

- `Queue`: a reader pulls again and takes what it was given. The generator is
  an endless loop of pulls, and a resolved promise runs its continuation.
- `Batcher`: weak fairness on the generator, the receiver, the resumption of
  adds and of `stop`, which are continuations and timers of a live event loop;
  and on the server's start, acknowledgement, results and clean end. No
  fairness for errors, refusals, shutdowns or the application.
- `Backup`: continuations and timers; Weaviate answers a request, to the last
  byte, or it fails, and ends its jobs. A wait has no time-out of its own and
  the body of an answer has none, so without these assumptions it need not end.
- `Login`: none; its properties are safety properties. The requests to the
  provider have no time-out, so a login need not return.
- `Insert`, `Iterator`: one weak fairness condition for each part, on the
  continuations of all its callers together: a live event loop runs some
  continuation, and each of them is bounded by what was called. The end of a
  request is in it since `sendWithTimeout` ends one over gRPC that is not
  answered, body and all.
- `Shards`, `Tenants`, `Connection`, `Rest`, `Classification`: on time-outs and
  on continuations that wait for nothing. `fetchWithTimeout` clears its timer
  when the headers arrive (`http.ts:256`), so a request is sure to end only
  while its headers are awaited, and no fairness makes a body arrive: the model
  has a step for the headers and one for the body where both matter
  (`ListHeaders`, `CheckHeaders`, `MetaHeaders`, `HeadersArrive`), and
  elsewhere an answer is the two together and not fair. `CallsSettle` says what
  follows: time and again nothing waits under a timer. For a classification the
  time-out of the wait itself settles it, whatever the polls do.
- The application's own calls, changes of a collection, failures and upgrades
  of the server are never fair. `Config`, `Roles`, `DbVersion`, `Builder`,
  `Filter`, `Values` and `Search` need no fairness.

"Settles" reads: time and again none is under way (`[]<>`).

## 4. Proofs

All hold for every value of the constants that the named assumptions allow.

**QueueProofs** (`NoItemAssumption`, `MaxPushesAssumption`): `TypeCorrect`;
`PushesResolveInOrder`, the i-th push resolves the i-th promise;
`NothingLostOrRepeated`, every promise is in the deque, with one reader, or
returned once; together `ItemsComeOnceInOrder`. For any number of readers.
The invariant `OpenPromises` says that the unused resolvers are those of the
newest promises, in order; without it nothing ties a resolver to the push.
`LengthIsTheBacklog` counts the promises in the deque, in readers' hands and
returned (`Counted`); with it `ItemsAreAccountedFor`.
`ImplementsFifoForOneReader` is the refinement of `Fifo`, under the hypothesis
that there is one reader: initial states map to initial states, a push and a
delivery to a step of `Fifo`, every other step to a stutter. Its invariant
`InTurn` says that promises are used in the order of their creation, as a
time-out puts a promise back where it was taken from; it is false for two
readers (section 5).

**BatcherProofs** (`EntriesAssumption`, `KeysAssumption`, `SizesAssumption`,
`BudgetAssumption`): `TypeCorrect`, and `NothingForgottenInFlight`: every key
counted as in flight belongs to a request the server has still to answer, for
any entries, sizes and events. It is what the sleep before a yield relies on.
The inductive invariant is `TypeOK`, `HandHeld` and `InflightSound`. `HandHeld`
says where the generator holds an entry; without it the types are not
inductive. `InflightSound` is inductive with the two: a yield adds the request
whose keys it counts, and an answer takes both away. On them rest, for any
entries, keys, sizes, batch sizes and events:

- `SixAttempts`, from `StreamInv`: where the generator stands while the
  receiver is not reading, what each flag tells of the past, and that what
  `LeaveOnShutdown` kept is what the next stream starts with (`Leftover`).
- `RequestsAlwaysFit`, from `SizesInv`: the running total is at least the
  weight of what is packed (`Weight`, the lengths of entries included) less what
  `Overhead` does not cover (`Beyond`), also after the kept entries of an
  earlier stream; an entry held for the next request is not too large for one of
  its own; and the messages around the entries take six bytes, and a byte more
  for each of three lengths at each of `Limits` (`ReqSizeIs`). The difference,
  `Uncounted`, is by how much a request may exceed the limit: it is what the
  code's "extra overhead" (`batch.ts:18`) leaves open.
- `PipelineFlowsInOrder`: `Pipeline` itself is inductive with `StreamInv`. It
  speaks of what is taken and queued by place and not by filtering sequences,
  so that a pull or a push changes one place.
- `ResultsUnderTheirCalls`, from `ResultsInv`: the generator's index is the
  number of entries taken (`Numbered`), so what the cache holds for a key is an
  entry under its place among the calls (`CachedRight`).
- `EndsWell`, from `EndInv`: each entry taken is answered or cached under its
  place (`Tracked`), what is cached is on its way to an answer
  (`NothingStray`), and the generator closes a stream only after `stop`, when
  nothing is queued (`Closing`).
- `NoneLostOrSentTwice`, from `OnceInv`: an entry is in one place at a time
  (`QueuedOnce`), one with a key of its own is found in the cache from its pull
  to its result (`CachedUntilSettled`), which is what a refusal needs to queue
  it again, and none leaves these places but for its result (`Kept`).
- `IngestReturnsAll`: by `EndsWell` the indices of the results are those of the
  calls, so that the loop over as many indices as there are results meets all.
  It also needs that a uuid and an error never stand at one index (`Told`).
- `StreamDelivers`, the refinement of `Delivery`, when entries have keys of
  their own (`DistinctKeys`) and while nothing is refused or renewed
  (`Undisturbed`); shutdowns and errors are allowed. Most steps change nothing
  the application sees (`Undelivered`). A result is recorded at the place of its
  call (`ResultsInv`); if one was there, it says the same, so that nothing is
  ever taken back, and the step is a stutter. The stream is over only when
  `Closing` says that it was closed and `EndsWell` that all entries accepted
  until then have their results. It holds together what the theorems above say
  one by one, and says besides that a result is for good, also after the end.
- `StaysUnderControl`, from `FlowInv`: an entry is in one place at most, also
  after a refusal (`AllApart`), so that keys of different requests differ; and
  the requests to be answered each filled the batch of a kind of its own, whose
  keys are still in flight, but for the last, which `Finish` sent
  (`FillsTheirBatch`). A kind with such a request keeps the window closed, so
  there are at most as many as kinds. It has three hypotheses: entries have
  keys of their own, an entry fits beside a full batch of each kind
  (`SmallEntries`), and no step raises the batch size. Section 5 says what
  happens without the first two; after a larger batch size the requests sent
  before no longer close the window.

**LoginProofs** (`TimesAssumption`, `ProviderAssumption`): `TypeCorrect`;
`ReturnedTokenIsValid`; `TimerIsUnique`; `TokenNeverExpires`. For any number of
logins and an unbounded clock. `ProviderAssumption` says what the provider must
do, in the code's terms: an answer takes no longer than the lag of two seconds,
a period and a refresh fit in the minute of `Ahead`, and a token lives longer
than both. Without the first a login may return an expired token; without the
others the timer may be late. The strengthening: `Cautious`, the client never
holds a token longer than the provider; `TimerSoon`, the timer fires within a
period; `Prompt`, no answer is later than assumed; `Outlives`, the token held
outlives the refresh the timer will ask for, or one under way. The last is why
the minute is enough: at each firing either more than `Ahead` is left, or a
refresh starts that the token outlives.

**BackupProofs** (`CallsAssumption`): `TypeCorrect`, `OutcomesAreTrue`,
`DenialsAreTrue`, for any number of waiters and cancellers. A step changes the
variables of one call, and a job that ended keeps its status, so the lemma
`Frame` reduces a step to the invariant of the call that takes it. The
strengthening: the answer to a poll that ends a wait is still true when it
arrives; the last sleep follows a success; and whoever cancelled a job was
told so or lost the answer (`Accounted`).

**IteratorProofs** (`UuidsAssumption`, `BoundsAssumption`): `TypeCorrect`;
`NoneSkipped`, what stays and has been passed by the cursor was delivered;
`NoRepeatWithoutOverlap`; and `LoopsScan`, the loops over one Iterator
implement `Scan`: initial states map to initial states and each step is a step
of the scan or a stutter. For any set of uuids, however large, any number of
loops, changes and failures. The invariant relates every page under way to the
cursor it was asked with: its first object is the first after that cursor of
those that stay. That a non-empty set of uuids has a least member is taken from
well-founded induction (`WFMin`).

**RequestProofs** (`MaxRestCallsAssumption`, `ReleasesAssumption`,
`MaxDosAssumption`, `MaxPollsAssumption`, `MaxRoleCallsAssumption`,
`RequestsAssumption`).
`NoChannelUnaccounted` (`ChannelIsUnique` and `NoOtherLeak`) and
`LoginCostsNoRequest`, for any number of calls, streams and reconnections: the
strengthening says how far `use` has come when `connect` and the check stand
where they stand, that only the channel in use is open, and that the channel a
call chose is open until it is replaced or the client is closed. `ValuesAreFounded`, a value is
what the server found when it served this very request (for the false of
`exists` and of the deletion of a user it says nothing: `rest_exists` shows what
happens); `GettersAreFounded` (`RefreshesAreFresh`, `OnlyCrossingMakesStale`,
`UnknownOnlyForItself`), for any releases, getters and failures. The
strengthening: an answer is no older than its call, and while no requests have
crossed, none that is in flight was called before the last forced refresh.
`FeaturesFollowOrder`: `isAtLeast`, as a disjunction of three comparisons, is
the order of versions wherever both have a patch number, so each feature is
there from its first release on and no upgrade loses one.
`OneIncompleteRequest` and `ErrorsAreForGood` for builders. `WaitsAreTrue`
(`WaitsResolveTruly` and `TimersAreCleared`) for classifications: a job that
ended never changes, so an answer that says completed stays true however late
it comes. `RolesShowTheirGrants`: permissions collected under their keys and
translated back give the grants they were made of (`ShownTruly`, for any set of
grants). `HasAnswersTruly`: until something is removed, a grant found held is
held still, and until something is added, one found missing is missing still
(`HeldSoFar`).

**CollectionProofs** (`CallersAssumption`, `InsertAssumption`,
`CallsAssumption`, `UpdatersAssumption`, `FilterAssumption`,
`ValuesAssumption`, `SearchAssumption`).

- `ShardsAreReported`, for any calls, builders, shards and failures. A request
  that failed is on record, with the builder or in the rejection
  (`RequestsFounded`); a shard that was set shows it unless a rival call was
  made (`SetShows`).
- `InsertsOnce`, for any number of objects and attempts. The timers map the
  objects in order and the request waits for all (`InOrder`, `SentWithAll`), so
  an object's uuid is that of its place in every attempt, and what a second
  attempt stores was stored before (`StoredFounded`).
- `UpdatesAnswerTruly`, for any calls, tenants and size of the chunks. What the
  loop has taken is what was asked for up to the end of a chunk
  (`TurnsFounded`), and a chunk that was served applied its tenants, for good
  (`ServedApplied`). The lemmas on `EndOf` say that the chunks cover the
  tenants without gap or overlap.
- `MergesStaySound`, for any number of updates. A merge keeps a schema sound
  (`MergeSound`), shows the update it merges (`MergeShows`) and keeps what it
  does not mention (`MergeKeeps`). The invariant says of every copy a call
  holds that it shows the first so many writes, and of Weaviate's schema that
  it shows all, but for those put back by a write that had not read them.
- `FreshRefsAreFollowed`, for any number of references and conditions. The
  first reference of a `FilterRef` or `FilterProperty` is its own
  (`NoFirstTwice`); a chain goes on to a second one exactly if `byRef` extended
  it, and that one is nobody's first (`ChainsRight`); so the loop of
  `targetPath` never meets a third (`ChainIs`). A chain ends in a property only
  when a condition was made of it or of one that may share it
  (`LeavesFounded`), which is what makes a condition throw.
- `ValuesMeanTheSame`, for lists of any length, numbers that are not finite
  included. A guard of lists holds of an
  empty list, of one kind, or of none (`GuardsOfLists`), and what is left is
  one case per kind and field.
- `SearchesArrive`, for any names of vectors and for rows of any number and
  length. Each name's messages carry its vectors or throw (`OfNameSends`). A
  slot of the buffer belongs to one row only (`RowsApart`), so each number is
  written once (`WritesRows`) and read from where it was written (`ReadsRows`).

**ClientProofs** (the assumptions of the three modules above):
`CollectionIsItsParts` and `ClientIsItsParts`, a behaviour of the client's model
is one of each of its parts, fairness included, since a step belongs to one part
and leaves the others alone. So `ClientTypes`, from the types in each inductive
invariant, and `CollectionsKeepPromises` and `ClientKeepsPromises`, all that the
run `client` checks but its liveness, for every value of the constants.

**Only model-checked.** Liveness under fairness, which this prover does not
reach: `PushedIsPulled`, `Progresses`, `WaitEnds` and `CallsSettle`. Every other
property of a passing run is stated by a theorem.

## 5. What the code does not promise

Met while modelling, stated so that no property is read as more than it is.

Batch stream and queue:

- A result can be lost unless each entry has a key of its own. A beacon does
  not name its target, and an object may be added twice: the later entry
  overwrites the earlier in the cache, and one result is missing.
  `ResultsMatchCalls` (what is reported stands at its call's position) holds
  with such entries; `EndsClean` and `IngestAnswersAll` (everything is reported)
  exclude them by `DistinctKeys`, and `NoneLost` speaks of those with a key of
  their own. `batcher_small` runs with entries that share a key.
- An entry may be pushed after `stop`, by an add that was waiting
  (`batch.ts:138`), and a stream may end well after an out-of-memory message
  although the server did not recover (`batch.ts:214`, a pause of a second).
- `FlowControl` speaks of requests cut by their count and without a key twice.
  `inflightObjs` is replaced, not extended, so requests cut by size leave
  earlier keys uncounted; and it is a set of uuids, so a request with one object
  twice counts fewer than the batch size. In both cases the server may hold any
  number of requests. `emptyReqSize` still counts
  the entries kept from the stream before (`batch.ts:240`).
- A request may exceed the limit of a message by a few bytes. An entry counts
  four bytes for its tag and length (`batch.ts:18`), which five are from 2^21
  bytes on, and the lengths of the lists, the data and the request grow with
  what they hold, of which the empty request that is counted (`batch.ts:174`)
  knows nothing. `RequestsFit` says by how much.
- With two readers the queue is not first in, first out for the one that timed
  out; the batcher has one reader. After a time-out both deques of the queue
  hold an element, which the constructor's comment (`batch.ts:435`) excludes;
  the queue is right all the same.
- `ingest` loses results when two objects share a uuid, or when the stream
  failed after `stop`; `IngestAnswersAll` excludes both.

Connections, requests, authentication:

- A failed background refresh of a token is nobody's rejection; `close` leaves
  the timer running; a refresh in flight at `stopTokenRefresh` starts it again
  (`auth.ts:124`). The access-token grant sends the refresh token of the
  credentials for ever (`auth.ts:283`). Requests to the provider have no
  time-out (`auth.ts:97`).
- A channel stays open when the health check throws, when the check of the
  version fails while `connect` goes on, and when a stream reconnects after
  `close`.
- A call chooses its channel before it checks the version and serializes, so a
  stream's reconnection in between makes it fail on a closed channel
  (`collections/data/index.ts:299`); nothing tries it again on the new one.
- A time-out of a call that was given a signal is reported as the caller's
  abort, although the comment at `grpc/base.ts:70` says otherwise;
  `AbortIsTheCallers` of `Connection` states what it says, and no run checks it,
  as one line decides it.
- `fetchWithTimeout` clears its timer when the headers arrive: a body may take
  for ever. An activation that is tried again after a time-out reports false
  though the first attempt did it. `roles.exists` and the deletion of a user
  return false for every failure, also when the role exists
  (`roles/index.ts:84` says false if it does not; the run `rest_exists`) or the
  user was deleted and the answer lost (`users/index.ts:90`).
- A late answer of an older getter may replace a newer cached version. The v2
  client takes a failed `/meta` for an empty version, and its builders then
  leave the class name out of their paths. `isAtLeast` is false for two equal
  versions without a patch number, and single grouped results are unsupported
  from 1.28.0 to 1.28.7 though 1.27.14 has them.

Collections:

- `insertMany` never settles when an object after the first cannot be
  serialized: the exception is thrown in a timer and `waitFor` polls for ever.
  A request that is sent again may report an error for an object that an
  earlier attempt stored.
- The iterator's cache is refilled by every `next`. Loops over one Iterator
  share its cursor and may both miss what the other received.
- An update of Azure's generative module deletes the settings of OpenAI's
  first (`config/classes.ts:107`); an update of a time to live is sent under
  its own name when there was none (`:152`); a vector's name that is not known
  is skipped silently (`:183`); of a flat index only `bq` is updated and other
  quantizers are dropped silently.
- `updateShards` that rejects leaves requests under way. A `ShardsUpdater`
  whose request failed refuses to be used again. A tenants' update that
  rejects hides the results of the chunks behind, and chunks that fail out of
  turn are unhandled rejections.
- A chain of three references drops the middle one; conditions on a longer
  reference share its inner references, so the second throws.
- A list of a filter that mixes whole and broken numbers sends no value over
  gRPC and throws over REST; an empty one sets four fields; dates in mixed
  lists become `{}` in `insertMany`; a nested object with the one key `number`
  is sent as a phone number. A number that is not finite is sent as a double
  over gRPC, by filters and by `insertMany`, and as null over REST, which an
  insert does.
- A hybrid search whose vectors are named `query` or `vector` is taken for a
  sub-search, and its other vectors are dropped silently
  (`serialize/index.ts:1098`). A named empty vector is sent, an unnamed one is
  refused. Rows of several lengths are written over each other, and the number
  of rows that `vectorsToBytes` writes is overwritten by the first number.
  Aggregations assume a server with multi-vectors, whatever its version.
- `collections.deleteAll` lists, then deletes in parallel, and rejects at the
  first failure.

Backups, roles, v2:

- `WeaviateBackupFailed` may mean that the answer to the first request was
  lost: the backup then runs on.
- Permissions on an alias are keyed by the alias alone, so of several
  collections one is shown (`roles/util.ts:276`). A permission without an
  action makes the operation throw before its promise. `create` returns a role
  made of its own arguments.
- A builder that has found an error never sends again, even when the parameter
  is set meanwhile; a classification that failed is polled until the time-out.

## 6. Not modelled, and why

- Generated code (`openapi/schema.ts`, `proto/`), some 32000 of the
  repository's 60000 lines, has no behaviour of its own. With it, types,
  interfaces and factories of configuration (`collections/config*/types`,
  `configure/`) and errors make up most of the rest, so the share of lines that
  a definition stands for is small however much is modelled.
- The translation of queries, generations, aggregations, sorting, targets and
  their weights, metadata and properties into messages and back
  (`collections/serialize`, `deserialize`, `graphql/`), but for the parts in
  `Values`, `Search`, `Insert` and `Ingest`: one branch per option, no state.
- Operations of one request whose answer is returned as it comes: CRUD of
  objects, references, schema, groups, aliases, users and tokenization. What a
  failure becomes is in `Rest`.
- Client composition (`index.ts`, `collections/index.ts`): wiring.
- The provider, Weaviate and the transport are external and appear as what they
  may answer. Of an API key there is nothing to model: `login` returns it.

## 7. Plan

Done: all components that keep state across awaits, with their runs; proofs of
all their safety properties and of the three refinements.

Left: targets and weights of a search against the order of their vectors;
several batch streams over one `Connection`, composed with `Batcher`.
