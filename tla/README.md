# Verification of getlarge/nestjs-tools

TLA+ models of the packages of this monorepo that keep state over asynchronous
steps, TLC runs that check them on small instances, and theorems checked by
TLAPS. `PROJECT.json` lists the components, the runs, the faulty variants, the
lines each definition models, the hazards and the theorems; this text says how
they hang together.

## 1. The system and its parts

The packages are libraries of a NestJS server on Node.js. There are no threads:
code runs to completion between awaits, and everything hard comes from what
happens between two of them: other requests, lost connections, timers, dying
processes and failing calls.

| Part | Source (`src/packages/`) | State it keeps | Operations | Hard behaviour | What makes it correct |
|---|---|---|---|---|---|
| AMQP server | `amqp-transport/src/lib/amqp-server.ts` | manager, channel wrapper, `connectionAttempts`, the queue and its unacknowledged messages | listen, start, setupChannel, deleteChannel, handleMessage, handleEvent, sendMessage, close | delivery tags die with their channel, set-ups fail and are retried, redelivery | a message is settled only when it should be, handled once with noAck, requests are answered, listen settles |
| AMQP routing | same, lines 234-285 | table of handlers | matchAmqpPattern, getHandlerByPattern | wildcards, empty words, ends of patterns | agrees with the topic matching of the broker |
| AMQP client | `amqp-client.ts` | manager, `channel`, `connection$`, response emitter | connect, close, setupChannel, consumeChannel, publish, dispatchEvent, handleMessage | two subscribers of 'connect', replies across reconnections, cancelled calls | each call hears only its own replies, waits on nothing that is settled, leaks no listener |
| Record serializer | `amqp-record.serializer.ts` | none | serialize | it may throw | in the client as a step that fails |
| Fastify upload | `fastify-upload/src/lib` | accepted files, files on disk or in memory | four multipart handlers, filter, three storages, four interceptors | failures between two files, removals that fail, clean-up against streams still read, shared temporary names | a handler has its files, a failure leaves none, nothing is removed twice, limits hold |
| Cluster service | `cluster/src/lib/cluster.service.ts` | `running`, timers; the workers of node:cluster | clusterize, fork, revive, shutdown, forceKill, kill, disconnect | the end of a worker is two events in either order; signals during the fork loop; workers that trap signals | strength is kept, a shutdown reaches everybody and ends |
| File storage | `file-storage/src/lib` | files of a tree or objects of a bucket | upload, moveFile, deleteFile, deleteDir, readDir and reads | several calls on the same paths, paged listings, moves in two steps, directories that vanish | whole uploads, moves lose nothing, deletions are complete and local |
| Lock service | `lock/src/lib/lock.service.ts` | redlock connection, locks that expire | init with a deadline, get, lock, unlock, release | a deadline against a late connection, an owner that changes between read and release | no key has two valid locks, success means the lock was held in time, init settles |
| AsyncLocalStorage | `async-local-storage/src/lib` | one store per asynchronous context, one shared storage for all services | run, enterWith, exit, the Map operations, guard and interceptor modes | contexts of concurrent requests, of background work and of requests made by requests | handlers start in their own context, see no other request's values, and leave the context as they found it |
| Typed event emitter | `typed-event-emitter/src/lib` | none of its own | types over node:events | none | part of the client where it is used |
| ESLint plugin | `eslint-plugin/src/lib` | none | inspects syntax trees | none | not modelled |

Interaction: a client's publish reaches the queue a server consumes, the server
finds a handler with the routing functions, and the reply comes back through the
reply queue. Server and client meet only in the broker, so each is modelled with
the broker's side of its own queue, and the other side is an environment that
may do anything the broker lets it do. The interceptors of fastify-upload call
one multipart handler, which calls one storage for each file. The other packages
do not use each other.

## 2. Modules

| Module | Models | Checked by |
|---|---|---|
| `AmqpServer` | `amqp-server.ts`, the broker's queue, the wrapper, the handlers | `amqp_server`, `amqp_server_async` |
| `AmqpDelivery` | abstract: what a consumer is promised about each message | as the property `ImplementsDelivery` |
| `AmqpServerProofs` | theorems about `AmqpServer`, among them that it implements `AmqpDelivery` | tlapm |
| `AmqpRouting` | lookup of a handler, and the broker's matching as reference | `amqp_routing` |
| `AmqpRoutingProofs` | theorems about `AmqpRouting` | tlapm |
| `AmqpClient` | `amqp-client.ts`, reply queue, server and observer outside | `amqp_client` |
| `RpcContract` | abstract: what ClientProxy promises each call | as the property `ImplementsRpc` |
| `AmqpClientProofs` | theorems about `AmqpClient`, among them that it implements `RpcContract` | tlapm |
| `FastifyUpload` | handlers, filter, storages and interceptors of fastify-upload | `fastify_upload` |
| `FastifyUploadProofs` | theorems about `FastifyUpload` | tlapm |
| `ClusterService` | `cluster.service.ts`, node:cluster, the processes | `cluster_service` |
| `ClusterServiceProofs` | theorems about `ClusterService` | tlapm |
| `FileStorage` | the three storages, the file system and the object stores | `file_storage`, `file_storage_locality`, `file_storage_pages` |
| `FileStorageProofs` | theorems about `FileStorage` | tlapm |
| `LockService` | `lock.service.ts`, redlock, Redis, the connections | `lock_service` |
| `LockServiceProofs` | theorems about `LockService` | tlapm |
| `AsyncLocalStorage` | the service, its guard, interceptor and module, flows of concurrent requests | `async_local_storage`, `async_local_storage_mode` |
| `AsyncLocalStorageProofs` | theorems about `AsyncLocalStorage` | tlapm |
| `MC...` | the instances for TLC | |

A block named "Faulty variant" before a definition holds what a plausible bug
would make of it. Nothing uses it: it records that the property named beside it
in `PROJECT.json` notices this bug.

### 2.1 AmqpServer

A step is what runs between two awaits. `manager` (connection, attempts, the
result of listen), `setting` (`channel`, the underlying channel, where the
set-up is, `retried`), `broker` (per message its place, its delivery, the frames
on the wire), `work` (the tasks that are the running calls of handleMessage, the
reports, the wrapper's queue of replies). A delivery is the pair of the
underlying channel and its tag; tags restart at 1 on each channel.

- `Listen`, `Connect`, `ConnectFailed`, `Disconnect`, `Close`: lines 106-185.
  `Connect` creates the wrapper the first time only (`if (this.channel)
  return`), the wrapper sets up each later channel by itself.
- `SetupAssert`, `SetupConsume`, `SetupFails`, `DeleteChannel`,
  `DeleteChannelFails`: setupChannel and deleteChannel, one step per awaited
  call that matters. consume is not awaited, so success is reported at once.
- `Deliver`, `Dispatch`, `Refuse`, `Flush`: the consumer callback, handleMessage
  after its await, sendMessage. `Refuse` nacks through `this.channel?.`, the
  *current* channel; a handler (`HandlerAcks`) uses the channel of its context.
- `BrokerSettles`, `BrokerRefuses`: the broker reads a frame, or closes the
  channel over an unknown tag.

With the default deserializer the await in handleMessage lasts microtasks only.
`RunToCompletion` says that no I/O event comes in between; with a custom
asynchronous deserializer it may, and that is the finding in section 5.

### 2.2 AmqpRouting

Patterns and topics are sequences of segments, and `Verdict` is one iteration of
the loop of matchAmqpPattern. `BrokerMatches` is the broker's definition,
independent of the loop: the topic can be cut into one piece for each segment,
any run of words for '#', one word for every other segment.

### 2.3 AmqpClient

The wrappers created on the first 'connect' are two, that of the listener and
that of the stream behind `connection$`; both consume replies, and
`this.channel` is the second one. A call goes through *connecting* (waiting on
`connection$`), *waiting* and one of the ends. What follows `connection$`, or a
reply given to a synchronous deserializer, runs before the next I/O event
(`Microtask`). Replies carry the correlation id of their call, the broker may
deliver them again, another client of a shared queue may take them, and a caller
may unsubscribe at any moment.

### 2.4 FastifyUpload

A request takes its parts one by one (`TakeFile`, `Store`, the filter's three
outcomes), ends in the route handler or in `Catch`, and then removes files by
force (after an error) or not (after the response). A path holds the upload that
was written there last, so requests that use the client's file names meet.
Removals run in parallel and may fail: unlink of a file that is gone rejects for
`DiskStorage` (`Gone`), and a `StreamStorage` waits for the end of a stream whose
reader may give up (`StreamBreaks`). The first rejection of a catch block ends the
request while other removals are still under way; a rejection after the response
is heard by nobody (`rejected`). The handler of a route emits one value: the
interceptors' tap() starts the removal on every emission, and a handler that
returns an Observable of several values, whose files would be removed several
times and from the first one on, is not modelled.

### 2.5 ClusterService

The primary, and per worker what node:cluster and the operating system know:
whether it is registered, its channel, its process, which of 'disconnect' and
'exit' the primary has seen. `SeesDisconnect` runs revive; `ForkNext` is one
turn of the loop of fork with its delay; `Shutdown` and `ForceKill` go through
cluster.workers as it is at that moment.

### 2.6 FileStorage

Each caller makes one call; each awaited call is one step and may fail. In the
file system an upload sees to its directory (`MakeDir`), opens and truncates the
file (`OpenFile`), and writes. Opening does not replace a file: uploads of one
path that overlap write to one file, `opened` says which path that file has by
now, also after somebody moved it, and `Nowhere` stands for one that was
unlinked or replaced. `WriteSome` is a write to a file that is not the caller's
alone, and leaves a mixture (`Mixed`); after the last write (`WriteFile`) such a
file is the caller's or a mixture, depending on whose bytes came last. For
uploadStream, which resolves before anything is stored, the end of the upload
is the 'done' of its stream. An object appears when it is complete
(`PutObject`). A move is a rename, or a copy and a deletion. A request to an
object store may fail although it took effect (`Answered`).

deleteDir removes what it finds and then the directories; in S3 it lists a page,
deletes it and calls itself for the rest; Google lists everything and deletes
file by file. S3's deleteObjects deletes any part of the page (`DeletePage`): it
resolves with an error for each object it refused, and `refused` keeps those of
the last page, which nobody asks for again. rm and Google's deleteFiles work side
by side, so after the first failure has rejected the call (`FailHalfway`) the
other deletions go on (the label *leaving*).

A name that starts with another name (`Extends`) is kept apart because object
stores list by string prefix. readDir is three operators, one per storage, that
say what the default serializer makes of the listing; Google's has no delimiter
and cuts the path out of each key (`ReadDirGoogle`). S3's calls listObjects once, so
`ReadDirS3` is the set of results it may have: one page (`FirstPage`, as in
deleteDir), whose limit counts files and common prefixes together. For S3
`ListingsAgree` says that all entries are named when they fit on a page, and that
otherwise what is named is there and fills the page. What is left of a key may
then look like the key of another file: in a tree with `ab/x` and `a/ab/x`, the
listing of `a` says `ab/x` for either. `ListingsAgree` therefore asks of each
item that one of the two files is there.

### 2.7 LockService

Several processes share one Redis. `OnModuleInit`, `Tick` and `Deadline` are
waitUntilInitialized with its interval and its timer; a deadline that finds the
connection up does nothing, so `late` services depend on the interval. Each
process has one call of lock, optimistic or unlock at a time, with a step per
awaited command. unlock is a read (`Get`) and a release (`Released`): between
them the lock may expire and the key be given to somebody else. ioredis sends a
command again if the answer is lost (`AcquiredUnheard`, `ReleasedUnheard`), so a
command may take effect twice and a successful one look failed. A lock id is the
key and a fresh number.

### 2.8 AsyncLocalStorage

A flow is a chain of continuations: the one that handles a request, and one left
running in the background. Its stack holds its context and, above it, the
contexts of nested run() and exit(), which restore what is below. A context maps
each storage to its store. `CreateService` is the constructor, where the first
storage becomes that of all services. `CanActivate` enters a new map; after a
guard that was awaited this does not reach the handler (`slowGuard`).
`Intercept` runs the handler in a new map, or, in guard mode, does nothing until
the response. The mode is that of guards only with `useGuard`; with a guard that the
application registers the interceptor runs a map of its own in the guard's context
(`Runs`), which is not what the comment in its file says (section 5). Requests arrive from outside or are made by a flow, whose context
they inherit. In their flows applications write, delete, clear, enter, run and
exit as they like.

## 3. Runs

Deadlock checking is off everywhere, since every one of these systems stops once
its callers, its messages or its bounds are used up; that nothing stops too
early is what the liveness properties say.

| Run | Instance | Shows |
|---|---|---|
| `amqp_server` | a handled request, a handled event, an unsupported request; two connections; four configurations: noAck with an exchange and limited attempts, prefetch 1 and 2, an asynchronous deserializer | nacks hit the message they are about, a message is consumed only after handling, noAck means at most once, each step is one of `AmqpDelivery` (without exact rejections for the asynchronous deserializer); set-ups end, listen settles, the queue drains and requests are answered once the link is healthy |
| `amqp_server_async` | two messages with an asynchronous deserializer | the violation in section 5 |
| `amqp_client` | a client closed and connected again, two connections; two requests with direct replies and with a durable queue and a window of one, a request and an event with an exclusive, a durable and a shared queue, the last with an asynchronous deserializer | `RpcContract`, requests on the wire have a consumer, no leaked listener, complete direct replies; nobody waits on a settled connection, durable replies arrive over reconnections |
| `amqp_routing` | all patterns of up to three segments, all pairs of short ones, all routes of up to three words | the handler found is one the broker would have chosen, a refusal means no binding matches |
| `fastify_upload` | two requests, three files with a shared name and two fields, six configurations that cover each handler and each storage | files are there for the handler, gone after a failure, kept or removed after the response as configured, removed once; limits |
| `cluster_service` | up to two workers, two faults, one signal, restarts, lifetime and trapped signals | strength is kept and reached, nobody missed, the end of a shutdown |
| `file_storage` | three callers and seven calls that meet on three paths, a page of one object, each storage | whole uploads, moves, deletions that leave only what S3 refused, directories made, listings as far as a page goes, and no change outside the calls |
| `file_storage_locality`, `file_storage_pages` | two callers | the violations in section 5 |
| `lock_service` | two processes, one key, three lock ids, one lost connection | mutual exclusion, success only in time, init settles but for the late deadline of section 5 |
| `async_local_storage` | two requests, each with background work, two services, three maps, two levels of nesting, four configurations | handlers start in their own context, isolation, an interceptor without a guard restores the context |
| `async_local_storage_mode` | guard and interceptor registered by the application | the violation in section 5 |

Why the bounds are enough: the server's hazards need a delivery on one channel
and its settlement on the next (two connections), another message with the same
tag (two messages) and a third that holds a place of the window. The client's
need a second connection for lost replies and a second client for stale state,
two requests where they share a window or a listener could hear the other's reply;
which calls are made is a constraint of that run (`CallsMade`), and since no fairness
forces a call it hides no behaviour that a liveness property is about.
Two patterns suffice for the order of the table, since the loop over the table
stops at the first match; three segments give a segment before, at and after a
wildcard and the ends of both. Two requests meet on a path; two files of one
request are needed for a failure after a success. Two faults let a worker end
while the replacement of another starts. For storages three callers allow a
deletion and a move between two steps of an upload, and a page of one object
makes three pages of three files, and lets readDir find more than a page. Three callers are also two uploads that share a file while the third moves it. A lock that expires while its owner works, the one of another
process that follows, and a third taken after a stale id was unlocked, need two
processes, one key and three ids; the lost connection lets a command be sent again
between them. Two requests and three maps let one request make another while both have a map
and a nested run has a third. The storages' runs are symmetric in the callers,
that of the contexts in the requests. PageSize, MaxConnects, MaxClients,
MaxFaults, MaxSignals, MaxCount, MaxLocks, MaxLosses, MaxMaps and MaxDepth are
the only bounds, and guards name them. Type invariants that a theorem states are
not checked again in the larger runs.

## 4. Fairness

- `AmqpServer`: the manager keeps trying to connect, calls of the set-up and the
  deserializer return, handlers end, the broker delivers and reads the frames.
  The connection may be lost until the bound; `QueueDrains` and
  `RequestsAnswered` are conditional on the consumer being healthy for good. A
  failure of the set-up, close() and the application are never forced.
- `AmqpClient`: the same for the wrappers, and due microtasks run. `ConnectionSettles`
  and `DurableRepliesArrive` are conditional on a steady connection and on calls
  that the server answers.
- `FastifyUpload`: only removals that were started go on.
- `ClusterService`: timers fire, events are delivered, processes start, and die
  of a signal that they do not trap. Crashes, signals, kill and disconnect
  are never forced, and workers need not end on their own.
- `LockService`: the interval and the deadline of onModuleInit fire. Connections
  need not come back, and calls need not end.
- `FileStorage`, `AmqpRouting` and `AsyncLocalStorage` have safety properties only.

## 5. Findings

- `amqp_server_async`: with a deserializer that is really asynchronous, the
  connection may be replaced while handleMessage waits (amqp-server.ts:292). The
  nack of an unsupported message (lines 281 and 302) then goes to the new
  channel, where its tag names another message, and a message with a handler is
  discarded. `NacksHitTheirMessage` shows, and a theorem proves, that the
  synchronous deserializer is what protects the default configuration.
- `file_storage_locality`: in S3 and Google, deleteDir of `a` deletes the files of
  `ab` as well, because the prefix gets no trailing slash (readDir's does).
- `file_storage_pages`: S3's deleteDir drops the request for the second page, so
  with keys that depend on the request the rest of the directory stays.
- `async_local_storage_mode`: the comment of the interceptor's file says that the
  Guard mode is the default and is used whenever the guard is (lines 12-17), and
  that the interceptor then exits the store. The mode is that of guards only if
  `forRoot` was told to `useGuard`; otherwise it is null (lines 28-37), and with a guard
  that the application registered the interceptor runs a map of its own and leaves the
  guard's store where it was.

Behaviour the models contain and no property contradicts, worth knowing:
deleteFile of the file system compares the error message with 'EENOENT' and so
always resolves with true; calls of a client that is closed hear nothing; files the
filter drops stay on disk; a worker that was asked to disconnect is out of reach
of every later signal; a failed serialization leaves a listener behind; a removal
that rejects after the response is an unhandled rejection (tap() ignores what
`remove` returns); a process whose connection is lost between its deadline and
the next tick waits in onModuleInit until the connection is back; in guard mode
the interceptor calls exit() with an empty function, which leaves the store in
place for what follows, so that `InterceptorExits` fails there as well; S3's
deleteDir resolves with the objects still there that deleteObjects refused to
delete, since nobody reads its Errors (file-storage-s3.class.ts:236), and lists them
again and again when they fill a page of a longer listing; S3's readDir returns the
first page and does not look at IsTruncated (line 278), so the caller cannot tell
that entries are missing; two uploads of one path that overlap may leave a mixture
in the file system, although both succeed.

## 6. Proofs

`AmqpServerProofs` proves, for every set of messages, every configuration and any
number of connections:

- `TypeCorrect`: the type invariant.
- `NacksCorrect`, `ConsumedCorrect`, `AtMostOnceCorrect`: the three safety
  properties of the run `amqp_server`.

The only assumption is `ServerAssumption` on the constants (finitely many
messages, of which some are requests and some have a handler, options that are
option records, and a positive bound on connections, which may be any number). None of the three properties is inductive: each speaks of a
message's place and of what was done to it, while the steps work on tags, frames
and tasks. The invariant `IInv` ties them together:

- `CurrentChannel`: only the current channel holds messages and carries frames.
- `UniqueTags`: a channel and a tag name one message, and a waiting message has
  no delivery on the current channel.
- `TasksOnTime`: a task of the current channel works on the last delivery of its
  message, and, with a synchronous deserializer, a task that still deserializes
  belongs to the current channel. This is the part that fails for an
  asynchronous one.
- `FramesJustified`: an ack on the wire is for a handled message, a nack for a
  refused one. It is what makes the broker's step safe when it reads the frame.
- `OneDelivery`: with noAck a message has one delivery and one task until its
  handler starts.

Each part has a lemma that every step preserves it, with one case per action;
`IInvNext` puts them together and the theorems follow by temporal logic.

`ImplementsDeliveryCorrect`, in the second part of the module, is the refinement.
`Seen` is what the contract
sees of the messages' places; one lemma per action of the contract says what it is
in these terms, and `Simulation` takes each action of the server to one of them:
`Publish` enters, `Deliver` takes, `Dispatch` starts, `BrokerSettles` finishes or
rejects, a lost or closed channel gives back, `DeleteChannel` purges, all others
stutter. It needs `IInv` (the frame the broker reads is justified, and its tag
names one message) and `TakenByTask`: with noAck a task works on a message the
broker has forgotten, so a start comes after the hand-over.

`AmqpClientProofs` proves, for any finite set of calls, every configuration and
any number of clients and connections (`ClientAssumption`):

- `TypeCorrect`;
- `WaitingCorrect`, `ReplyConsumerCorrect`, `ListenersCorrect` and `NoGapCorrect`,
  the invariants of the run `amqp_client`;
- `ImplementsRpcCorrect`: the client implements `RpcContract`.

What a call relies on was set up by two subscribers that know nothing of each
other, so the first part of `IInv`, `Connected`, says what a value of
`connection$`, a ready channel, a queued message and a reply consumer imply of
each other and of the link. `Sent` follows the message of each call and its listener. `RepliesGiven` says
that no reply under way was invented. For direct replies and a synchronous
deserializer `InSequence` adds the order: replies are in the buffer of the
channel of their request, a value before the end (`InOrder`); they are handled one at a time, ahead of those
that are still to come (`OneAtATime`); and a value is either under way or heard, once
(`Counted`). Without either condition the order is false, and the property does
not ask for it. In the refinement a call is pending while it is connecting, stranded
or waiting (`PhaseOf`); `Simulation` takes a step that settles all calls at once,
such as a lost connection, to `Fail`, what a caller hears to `Value` and `Settle`, the server's answers to `Serve`.

`AmqpRoutingProofs` proves `RoutedAsBoundCorrect` and `RefusedAsUnboundCorrect`
for any segments and for tables, patterns and routes of any length; the runs stop
at three segments. Both are inductions over the positions of the loop, which the
provers cannot do as such. They are replaced by the least position with some
property (`Least`): the loop returns at the first segment that has a
verdict, and the pieces the broker cuts a topic into are single words up to the
first '#'. `Continues` and `Accepts` say what a verdict means for a well-formed
pattern, `WordByWord` and `HashTakesTheRest` build the broker's cut from a loop
that returned true.

`FileStorageProofs` proves, for every finite tree of files, any callers, every
page size and every storage (`StorageAssumption`: no file is a directory of
another, only deleteDir is given a directory, a move has two paths):

- `TypeCorrect`; `UploadsCorrect`, `MovesCorrect`, `DirsCorrect`, `NamedCorrect`;
- `ListingsCorrect`, for S3 as far as a page goes, which needs the types only: `AboveBegins`, `RestIsUnder` and
  `NextName` take a path apart at a directory. The first form of
  `ListingsAgree` could not be proved, because it was false in trees such as that of
  section 2.6, which the run does not have;
- `DeletedCorrect`, under the condition that keys do not depend on the request,
  which the finding `file_storage_pages` shows to be needed.

The argument is rely/guarantee. `OneSteps` says that a step is that of one caller. Each caller has an invariant of its own over its
label and its paths (`Uploading`, `Moving`, `DirsMade`, `Deleting`, `Paged`), all
on top of `Typed` (types, and what kind of call each label belongs to). The
lemma `Bystanders` says what a caller may rely on while another takes a step: its
own call stays as it is, and a path that is not entered in its `touched` holds what
it held. So each invariant needs a look at the caller's own steps only. Two uploads
that share a file need more, since one may write to it under a path that the other
never named: `HoldsOpen`, in `Typed`, says that a file somebody has open is there, and
`OnePlace` that what a running upload has written so far lies nowhere but in the
file it has open, so that whoever else writes there changes its path
(`PartialStays`, `OnePlaceNext`). `DeletedCorrect` counts as left what S3 refused when it
was last asked, `NamedCorrect` counts the deletions of a call that was rejected halfway
as its own, and those of an upload at the path its file has by then.
`DirsStay` rests on `AboveTransitive`, a fact about prefixes of sequences.

`LockServiceProofs` (assumption: a lock id is not the free value, bounds are
numbers of any size) proves `TypeCorrect`, `ExclusiveCorrect` and `KeptInTimeCorrect`. `FreshIds`: an id
that is being acquired belongs to one call and was never granted; `StoreHolds`: a
valid lock is what Redis holds under its key, and Redis holds nothing that
expired or was reported kept. So two valid locks of one key are
the same, and a release, which deletes only its own value, ends only its own lock,
however old the owner read by unlock is.

`FastifyUploadProofs` (finitely many files, each in one request; any number of
requests, names, fields and limits) proves the type invariant and the four
invariants of the run. `Bookkeeping`: the file a request is reading is not listed yet,
and no removal starts before the request fails or has responded. `InPlace`: a file
with a path of its own is there from its first write until its removal. `Owned`: a
file that is there is listed, left over or being read, and after a failure it is
left over or still to be removed. `HandlerHasItsFiles`, `FailedRequestsCleanUp` and
`RemovedOnce` follow. `LimitsHold` rests on `LInv`: the
accepted files are within the limits at every turn of the loop, by cardinality of
finite sets.

`ClusterServiceProofs` (any number of workers, faults and signals) proves
`TypeCorrect`, `StrengthCorrect` and `NobodyMissedCorrect`. `Phases` says
where the service is before, in and after the loop of fork, `Observed` that an
event is seen only after what it is about. `Counted` bounds the forks by those of
the loop plus the workers whose disconnect was seen, and the workers that faults
disturb by the faults; strength follows from it by cardinalities.

`AsyncLocalStorageProofs` (any requests, services and keys, any number of maps and
of nested calls; two levels of contexts at least, since the interceptor nests
one) proves `TypeCorrect`, `IsolatedCorrect`, `RestoresCorrect` and the action property
`HandlerStartsCorrect`. `RestoresCorrect` is about requests without a guard: with one, the
interceptor is to exit the store, and does not. The invariant says of the state what
the properties say of what is read:

- `Storages`: all services that exist use the first storage, and there is one
  before anything runs. Without it each service would look into a slot of its own.
- `Nested`: how many contexts a request has in each phase, and that the lowest is the
  one the interceptor found. `RestoresCorrect` follows.
- `NoneAhead`: no context has a map that is not created yet, so a new map is nobody's.
- `Private`: a map is seen by one request only and holds what that request wrote.
  What a request sees are not only its current contexts but also those that
  a callback of its own will restore; the context a request inherits from the flow that
  made it is not among them (`Seen`). This is what makes isolation inductive.
- `Entered`: between the guard and the handler the guard's map is there, untouched.

Each step is done for one request, and `Isolates` says what it may do: see at most one
new map, write to maps it sees, leave alone what awaits other handlers. One lemma per
action proves this, and `StepIsolates` draws the invariant from it.

Only model-checked: liveness (`SetupTerminates`, `ListenSettles`, `QueueDrains`,
`RequestsAnswered`, `ConnectionSettles`, `DurableRepliesArrive`,
`RemovedAfterResponse`, `FullStrength`, `ShutdownEnds`, `InitSettles`), since temporal
proofs under fairness need ENABLED, which is out of the prover's reach here.
Every invariant, action property and refinement that a passing run checks
is also proved.

## 7. Not modelled

- Contents of messages, headers, files and options that no property tells apart;
  logging; the status streams; `on()` and `unwrap()`.
- The record serializer and the typed event emitter: a pure conversion and types.
  The client has the serializer's failure and the emitter's listeners.
- The ESLint plugin: a development tool that looks at one syntax tree at a time,
  without state or concurrency; what it would say of a tree is a table of cases.
- Body fields of multipart forms: collected into a record nothing else depends on.
- `send()` and the events the cluster service emits to the application; clusterize()
  called twice in one process, which registers every listener twice.
- Downloads, metadata and existence checks of the storages: they change nothing.
- The iterators of AsyncLocalStorage (keys, values, entries, forEach): they read
  one map.
- listen() after close() on the same AmqpServer: the old wrapper stays in
  `this.channel`, and two managers live side by side. A module with it was tried
  and its instances outgrow the model checker before the interesting cases.
- errorHandler of the lock service, which nothing calls.

## 8. Plan

Done, in this order: the server with its contract and proofs, the routing, the
client with its contract, uploads, the cluster, the storages with their proofs,
locks, contexts, the proofs of locks, uploads and cluster, that of the
server's refinement, the proofs of the client with its refinement, of the routing,
of the listings and of the contexts. Next:

1. An abstract specification of mutual exclusion that `LockService` implements, with
   its proof.
2. Theorems on what the findings leave true: deleteDir is local in the file system
   and wherever no name extends another; nacks of an asynchronous deserializer are
   right on a connection that is never replaced.
3. listen() after close() of `AmqpServer`, in a module small enough for TLC.
