# A verification project for koi-research

This directory holds TLA+ models of the programs this repository carries, TLC
configurations that check them on small instances, and proofs that TLAPS checks
for every instance. The programs are of three kinds:

- the KOI-net node library in `sources/blockscience/koi-net` (called `koi_net/`
  below, for `sources/blockscience/koi-net/src/koi_net/`) and the parts of
  `rid-lib` it stands on;
- the batch programs that make a knowledge graph of documents (`experiments/`,
  `extractors/`, the conversion and loading programs and the query server);
- the evaluation workflows in `.github/workflows` with the scripts they run.

## 1. The system and its parts

A KOI-net *node* keeps a cache of *bundles* (a manifest, which is a RID, a time
stamp and a hash, and the contents). Nodes tell each other about changes with
*events* (NEW, UPDATE, FORGET) and ask each other for manifests and bundles. A
*full* node runs an HTTP server; a *partial* node has none and polls. Who tells
whom is itself knowledge in the cache: an *edge* bundle says that its target
subscribed to its source. Three threads run in a full node: the server's, the
worker of the knowledge object queue, and the program around the node; a partial
node has a poller instead of the server.

| Component | State | Operations | Interacts with |
| --- | --- | --- | --- |
| `processor/knowledge_pipeline.py`, `default_handlers.py`, `knowledge_object.py`, `handler.py` | the knowledge object in process | the RID, Manifest, Bundle, Network and Final chains, the cache action, the broadcast | reads and writes the cache, regenerates the graph, fetches from peers, pushes to the event queue, puts objects back into its own queue |
| `processor/interface.py` | `kobj_queue` | `handle`, `kobj_processor_worker`, `flush_kobj_queue` | called by server, poller, handlers, error handler, the program |
| `network/graph.py` | `dg` | `generate`, `get_edges`, `get_neighbors` | derived from the cached edges |
| `network/event_queue.py` | a webhook and a poll queue per peer | `push_event_to`, `flush_webhook_queue`, `flush_poll_queue` | called by the worker, the actor and the server thread |
| `network/request_handler.py`, `error_handler.py`, `behavior.py` | `timeout_counter` | `make_request`, `handle_connection_error`, `handle_protocol_error`, `handshake_with` | each request may call the error handler, which may push, flush and queue a FORGET |
| `network/resolver.py`, `response_handler.py` | none | `poll_neighbors`, `fetch_remote_*`; answers to fetches and polls | graph, cache, event queue |
| `effector.py`, `default_actions.py` | none | `deref`: cache, then action, then network | cache, resolver, processor |
| `secure.py`, `protocol/secure.py`, `protocol/envelope.py` | the private key | signing and validating envelopes, the unknown node rule | cache |
| `server.py`, `poller.py`, `lifecycle.py` | threads | HTTP handlers, the poll loop, `start` and `stop` | everything above |
| `koi-net/examples/coordinator.py` | none | `handshake_handler` | a handler of the pipeline; pushes to the event queue, proposes an edge |
| `core.py`, `config.py`, `context.py`, `identity.py` | configuration | wiring | |
| `rid-lib`: `core.py`, `types/`, `ext/cache.py`, `ext/bundle.py`, `ext/manifest.py` | a directory of JSON files | RIDs, reading and writing bundles | everything |
| `experiments/process*.py`, `extractors/metabolic-extractor.py` | the files chosen, the results in memory, counters | find, read, extract, count, save | a language model, a graph client; what they save is read by the next two rows |
| `extractors/entity-deduplication-system.py`, `provenance-tracking-system.py`, `ontology_informed_chunker.py` | a registry of entities with an index; lists of observations, resolutions, transformations; chunks | `add_entity`, `merge_entities`, the import; record, resolve, ask; the chunking loop | called by the program that feeds them |
| `convert_jsonld_to_ttl.py`, `load_to_fuseki.py`, `koi_api_server.py` | a file of triples; a triple store | convert; clear and insert in chunks; answer queries | the store is shared by loader and server |
| `.github/workflows/full-stack-tests.yml`, `weekly-eval-digest.yml`, `scripts/` | a job's step outputs and report files; the branch `eval-reports` | the suites, the citation check, persist, alert, gate; the digest | jobs run at the same time and share the branch; the digest reads it |
| `api/claude_config_routes.py` | a database | an independent service | |

`PROJECT.json` lists all of them, the ones without a model too, with the reason.

**What is hard.** In a node the pipeline has one worker, so handlers do not race
with each other; but between two steps of the worker other threads queue objects,
read the files it is writing, other nodes change what they would answer, and the
handlers' own feedback waits behind whatever else is queued. The worker's calls
leave through an event queue that a second thread drains, with requests that fail
in five different ways, one of which calls the same code again. Nothing is
acknowledged, nothing of the queues is persisted, and files are overwritten in
place. The batch programs are sequential; what is hard there is the outcome of
step sequences nobody tried, with answers of a language model that are not what
the prompt asked for, and loads that stop half way. The workflows race for a
branch, and every one of their steps may fail in a way the next steps have to
notice. The hazards are listed line by line in `PROJECT.json`.

**What makes each component correct.**

- Pipeline: the cache moves from a version to a newer one; the event told to the
  network names the transition the cache made and carries what it holds; the
  graph is the cached edges; nobody but the node writes its own bundle; an edge
  that can be approved is approved, unless the two clocks forbid it; coordinators
  are contacted; edges of a deleted node go; the feedback ends.
- Event queue: an event is in one place only, reaches the peer at most once and
  in order, and is lost only on the wire or at a restart; a handshake is sent
  whole.
- Two nodes: they come to know each other and to agree on the edges between them;
  the partial node ends up subscribed and its poll loop survives.
- The node's process: what is answered from the cache was there, a lookup that
  finds nothing means that nobody has it, a graceful stop loses nothing, the key
  and the RID made from it stay together, every start ends with the configured
  profile in the cache.
- Batch programs: what is counted was stored or was counted as failed; no source
  of a merged entity is forgotten; every resolution that returns leaves its trace;
  chunking ends and drops only stretches that are short without their white space;
  a load that reports success left the whole data set and nothing else.
- Evaluation: silence means that no report is bad and nothing broke behind one; a critical miss fails; value that
  was not verified is not reported as value; reports are not lost; no red report
  is hidden by what stands beside it.

## 2. The modules

| Module | Models | State | Actions |
| --- | --- | --- | --- |
| `KnowledgePipeline` | the pipeline of one node with its default handlers, the cache, the graph | `cache`, `graph`, `kobj_queue`, `pc`, `kobj`, `norm`, `targets`, `pushed`, `clock` | one per chain, fetch, cache action, regeneration and network target |
| `NetworkEventQueue` | the event queue, the broadcast request and its failures, the handshake of one node | `webhook`, `poll`, `todo`, `flight`, `response`, `counter`, `forgets`, `received`, what is cached about the peers | one per operation and per way a request ends |
| `EventOutbox` | what the event queue promises, without queues and requests (abstract) | `sent`, `waiting`, `got`, `astray` | send, receive a batch, lose, refuse, go astray |
| `KoiNet` | a coordinator and a polling partial node: two instances of `KnowledgePipeline`, the requests between them, the envelope check, start, poll loop, crash and restart | both pipelines, `mode`, `server`, `pollqueue` | one per request, answer and phase of the partial node's only thread |
| `KnowledgePipeline_proofs` | theorems about `KnowledgePipeline` | | |
| `NodeRuntime` | one node's process over its lives: configuration and key files, start, worker, server and program threads over the cache's files, stop, kill | `mode`, `config`, `key`, `self`, `files`, `queue`, `unfinished`, `worker`, `request`, `lookup`, history | one per step between which another thread, a kill or a reader may come |
| `DocumentExtraction` | the document programs, six of them | files chosen, batch, results, counters | choose, process one document, store a batch, save, interrupt, per program |
| `EntityResolution` | deduplication and the import it generates | registry, index, relationships | add to a match, raise, add as new, import |
| `Provenance` | the provenance records | observations, entities, resolutions, transformations | observe, resolve to an existing or a new entity |
| `Chunker` | the loop of the chunker | chunks, position | one turn |
| `GraphLoad` | conversion, loader, query server, the store between them | triples, the loader's progress, store, last answer | one per request |
| `EvalSuites` | what the scripts conclude from answers, runs and citations | operators only | |
| `EvalWorkflow` | the jobs of the workflow, the branch, the digest | jobs, branch, clock, digest | one per step of a job |
| `NetworkEventQueue_proofs`, `NodeRuntime_proofs`, `EvalWorkflow_proofs` | theorems about these three | | |
| `KoiNet_proofs` | theorems about `KoiNet` | | |
| `EventOutbox_proofs` | `NetworkEventQueue` implements `EventOutbox` | | |
| `KnowledgeGraph_proofs` | theorems about the five modules of the batch programs | | |
| `Sieve` | a sequence without some of its values, as a function | operators only | |
| `DataInduction` | lemmas about finite sets, folds and sieved sequences | | |
| `MC...` | the instances for TLC; `MCKnowledgeGraph` also composes the five modules of the batch programs | | |

### KnowledgePipeline

`kobj_queue` is `ProcessorInterface.kobj_queue`; `pc` is the place in
`KnowledgePipeline.process`, `kobj` the knowledge object and `norm` its
`normalized_event_type`, `targets` what is left of `network_targets`. A RID is a
model value: a node, an edge (the pair of source and target, which its RID is
the hash of) or another object. A bundle is a time stamp and contents; since the
hash of the contents stands for them, the same record stands for a manifest, and
`full` says whether the contents are there.

- `Receive`, `LocalChange` and `ForgetUnreachable` are the calls of `handle` from
  the server or poller, the program, and the error handler.
- `RidChain`, `AttachCached`, `FetchManifest`, `ManifestChain`, `FetchBundle`,
  `BundleChain` with `RefuseEdge` and `ApproveEdge`, `CacheAction`, `Generate`,
  `ProposeEdge`, `CatchUp`, `OutputFilter`, `Broadcast` and `FinalChain` follow
  `process()` from top to bottom. `Stop` is every `return` of it and `Abort` every
  exception, which the worker logs.
- Fetches are answered by a peer with any version in `Served`, at the moment of
  the fetch, or fail.
- `clock` is the node's own clock; time stamps of peers are part of `Incoming`
  and may be ahead of it.
- What is pushed is the last event given to the event queue; the queue itself is
  the other module.

Bounds: `MaxInputs` (3) objects queued from outside. The handlers' feedback is
not bounded. Three inputs are an object, its change and a FORGET, in all orders,
or a node, its edge and the removal of either, which is what the handlers relate.

### NetworkEventQueue

`todo` holds what remains of the call the worker is in: pushes and flushes; a
failed flush puts its requeues, and an UnknownNode answer its handshake, at the
front. `flight` is the request on the wire, whose events are in no queue.
`Delivered`, `NodeNotFound`, `PartialNode`, `ConnectError`, `OtherHttpError`,
`UnknownNode` and `ErrorAnswer` are the ways `make_request` ends. `Poll` is the server's thread
and may happen between any two steps of the worker; `PollEnds` delivers its
response or loses it. `Learn`, `ForgetNode` and `ForgetEdge` are the pipeline's writes
of what is cached about the peer, at the points where the worker is in no call: the
FORGET of a node only queues those of its edges, so `push_event_to` may meet an edge
whose node is gone, and an edge may go alone.

`EventOutbox` says what all this comes to for a peer: an outbox of numbered events
that wait until they are received, once, or lost, for good; a batch received is
the oldest part of what waits unless the peer went astray, which a change of its
kind of queue under way makes it. `Outbox` is its instance: what waits for a peer
(`WaitingFor`) is what is in a poll response, the poll queue, on the wire, in the
webhook queue or in a push still to be made. Flushes, requeues and polls are no
steps of the outbox at all; a restart loses events, and an UnknownNode answer
loses what it refused and sends two (`Refuse`). The outbox says what is never undone,
not how little is lost, and its restarts lose what waits: it says nothing of
`lifecycle.py:97` (`QueuesOutliveRestart` does). `LostOnlyOnTheWire` is the other half:
while the node runs, an event that was in a queue is lost with its own request or
poll response only, and not with a request whose connection was refused.

An UnknownNode answer starts a handshake inside the flush it answers, whose own flush
might be answered in the same way. In the code this ends because a peer takes a
request with this node's NEW for an introduction (`_handle_unknown_node`), provided
that the NEW is in the request with the FORGET: `HandshakesGoWhole`. The bound on
pushes would end the nesting in any case, so no property says that calls end.

Bounds: `MaxEvents` (3) pushes (events carry consecutive numbers) and `MaxChanges` (2)
changes, failures of fetches and restarts: three events are one that waits, and a
handshake of two pushed in between, or three that a failed flush may reorder. The
same run with four events (5.5 million states) finds nothing else. `counter` is the code's
`timeout_counter`, capped where its value makes no difference any more.

### KoiNet

`Coord` and `Part` are instances of `KnowledgePipeline` with state of their own, so
the two nodes run the very definitions that the other runs check and the theorems
speak of. What their environments did there (`Receive`, the answers of peers) is
done here by the other node.

- The coordinator has three threads' worth of steps: `CoordWorks`,
  `CoordBroadcasts` and `HandshakeHandler` are its worker, `ServerPuts` is
  `broadcast_events` queueing the events of one request one by one, and the polls
  are answered from `pollqueue` at any time.
- The partial node is one thread: `mode` is `start`, `poll` (about to poll),
  `flush` (in `flush_kobj_queue`), `stop` (an exception left the loop and `stop()`
  empties the queue) or `down`. Its broadcasts and fetches are steps of `flush`.
- `KnownToCoord` and `KnownToPart` are the unknown node rule of
  `validate_envelope` on requests and on responses. An UnknownNode answer makes
  the sender shake hands (`Send`); a response from an unknown node raises
  (`PollFails`), as does a refused fetch (`CatchUpRefused`).
- `HandshakeHandler` is `examples/coordinator.py` on top of the default handlers.
- `Crash` may come at any step of the partial node; `Restart` keeps its cache only.

Bounds: `MaxEarly` polls, out of any number, may find the coordinator's worker
busy; the others wait until it is idle, which is the normal case with a polling
interval of seconds. One early poll already meets every stage of the first
handshake. With two of them a second handshake may be underway when the partial
node's proposal arrives; refused between its FORGET and NEW, the proposal is lost,
and the two never agree on that edge, without any restart. `SubscribedUnlessRestarted`
therefore speaks of nodes with one early poll at most, whatever `MaxEarly` is; the two
invariants hold with two and three early polls too. `MaxRestarts` restarts, after a
crash or after an exception stopped the node. Messages are neither lost nor late
here, which makes the violations stronger: they need no failure of the network.

### NodeRuntime

`files` is the cache directory, one number per RID: a version, `Absent`, or `Torn`
for a text that does not parse, which is what a file holds between `open` and
`write`. `config.yaml` and the key are modelled in the same way. `mode` walks
through `NodeConfig.load_from_yaml` (`down`, `key`, `pem`, `save`, `dump`), the
constructor (`secure`) and `NodeLifecycle.start` (`graph`, `refresh`, `settle`) to
`up`, and over `stopping` back to `down`.

- `TakeItem`, `CheckItem`, `OpenFile`, `FillFile` and `RemoveFile` are
  `kobj_processor_worker` with the pipeline's decision reduced to "newer or not"
  (`Verdict`); `unfinished` is the count `join()` waits for.
- `Fetch`, `ServeOne` and `Answer` are the server's thread answering
  `fetch_bundles` or `fetch_manifests` one RID at a time through `Effector.deref`.
- `Dereference`, `ListNodes`, `ReadNode`, `AskProvider` and `Miss` are the program's
  `deref` over the network.
- `Crash` may come between any two steps and keeps the files as they are;
  `EditProfile` is the operator between two lives.
- `hurt` (files a kill left torn), `ending`, and the sets a request or a lookup
  carries of what was in the cache meanwhile are history: nothing reads them but
  the properties.

Bounds: `MaxCalls` (2) events, fetches and lookups together, `MaxCrashes` (2),
`MaxStops` (1), one change of the profile. Two calls are a reader and a writer of
the same file, or a lookup and the event that takes its provider away; two crashes
are one that tears a file and one in the start that finds it. The event queues are no
part of the module, so `StopLosesNothing` is about the knowledge object queue and the
files, not about what `lifecycle.py:97` says of event queues. The handshake at the
end of `start` and the node without a worker thread are `KoiNet`'s.

### The knowledge graph

The programs share files, not processes: each behaviour of `MCKnowledgeGraph` is
one of a single program, chosen by `part` in `Init`.

- `DocumentExtraction`: a document is its kind, its place and the words the keyword
  tests look for; a reply of the model is a sequence of items, among them what it
  should not answer (text where an object was asked for, a type that is a list or
  has no prefix, what does not parse). The programs differ in which files they
  take, what they count and what they do with an unusable answer, and have an
  action each. A fallback does not take back what the abandoned answer counted.
- `EntityResolution`: an entity's normal form and the similarity of two names are
  constants. A match is exact, similar or by an equal property, and the best one
  in `sorted`'s stable order is taken. Merging two lists of objects raises, as it
  does in the code, and ends the program.
- `Provenance`: random identifiers are positions in the lists. A property is a list
  of values or another value; two lists are merged, and when one of them holds an
  object, `set()` raises: the resolution and the observation that met it are stored by
  then, the resolution's record and the entity's own list of resolutions are not
  (`Raise`). Which of the observation's other properties came before it is open.
- `Chunker`: a text is its length, its white space, its boundaries and entities.
- `GraphLoad`: the loader sends `ChunkSize` triples at a time, each request may be
  carried out, refused, or carried out without an answer. A triple names blank nodes
  by label; in the store a blank node is its label and the request that brought it.
  Queries come at any moment. A graph query joins each triple of a listed subject
  (`Listable`, the prefixes it filters by) with the types and labels of both ends, the
  limit counts the joined rows, and any `MaxNodes` of them may be returned; ids are
  what follows the last slash (`PathEnd`), so that two nodes may become one.

Bounds: three entities, three observations and three resolutions are the smallest
numbers at which a merge follows a merge and a group meets two canonical entities;
the observed properties are a list, a list with an object, a text and none. Ten
positions hold two chunks, their overlap and a tail; six of the texts have white
space at the edges of chunks and within them. Two loads are one that failed and one
after it. The documents have two entities whose ids differ before the last slash
only, one of them with a nested object of three triples, which a chunk of three may
or may not hold; the limit is below the rows of the first document with all metadata.

### EvalSuites and EvalWorkflow

`EvalSuites` holds the verdicts as operators: suite B's hits and its diff, suite D's
checks, the delta suite's traffic light, the citations and the hallucination diff.
Rates are fractions; where the code subtracts floating point rates and compares
with a limit they may meet exactly, both outcomes are in the set that the
operator returns.

`EvalWorkflow` runs the steps of `full-stack-tests.yml` for each job in order, with
their `if:` and `continue-on-error`. `Trouble` is a step that does not get its
answer or ends with an exception; what the step then writes (`Synthesized`) or
leaves out is part of the action. What stands in for a missing report is written into
a directory that only the runners make, so it is written only if the job has another
report already (`HasDirectory`); else the step ends without report and status. `branch` and `tip` are `eval-reports`: `Fetch`
remembers the tip, `Push` is refused unless it is still the same and nothing tries
again. `Digest` is `aggregate_weekly_evals.py` and may run at any moment. Dates are
ticks from midnight, `TicksPerDay` to a day, so that the window's mixture of hour
and midnight is there. `missed`, `grounded` and `broke` are history.

Reductions: the steps up to the diff read and write nothing that is shared, so one
job is through with them before another starts (`Measuring`), and the clock moves
between jobs' measurements only. The results file and its citations are forgotten
once they were read.

Bounds: two jobs, one that runs every suite with one trouble and one that measures
little and shares the branch; a window of one day in three ticks, from tick 2 to
4; one digest. A second trouble would only combine failures of steps that do not
read each other's outputs.

## 3. The runs

| Run | What it asks | Result |
| --- | --- | --- |
| `pipeline_objects` | a peer announces, sends and forgets one object while the program changes it: `SelfIsSelfMade`, `CheckedMovesForward`, `EventNamesTransition`, `BroadcastTellsCache` | holds |
| `pipeline_edges` | a full and a partial peer join, propose, withdraw and leave: `TypeOK`, `GraphMirrorsCache`, `OnlyStampsLeaveProposals`, `CoordinatorsContacted`; under fairness `ForgottenNodeLosesEdges`, `QueueDrains` | holds |
| `pipeline_stale_manifest` | `CacheMovesForward`: a cached version is only replaced by a newer one | violated |
| `event_queue` | two peers, one of them the first contact: `TypeOK`, `AtMostOnce`, `InOrder`, `RequeueNeverDrops`, `HandshakesGoWhole`; `LostOnlyOnTheWire`; the refinement `ImplementsOutbox` | holds |
| `event_queue_timeout` | `UnreachedIsRequeued` | violated |
| `koinet` | one early poll and one restart, after a crash or an exception: `NodesKnowEachOther`, `NoEdgeWithoutProposer`; under fairness `SubscribedUnlessRestarted` | holds |
| `koinet_poller` | `PollerSurvives` with one early poll | violated |
| `node_runtime` | three threads, two kills, one stop: `TypeOK`, `AnswersWereTrue`, `StopLosesNothing`, `OwnBundleIsCurrent`, `IdentityHasItsKey`, `MissMeansNobodyHas`; under fairness `StartsAndStopsEnd` | holds |
| `knowledge_graph` | every batch program: `CountedIsStoredOrFailed`, `SourcesKept`, `ResolutionsAreWhole`, `OnlyShortStretchesAreDropped`, `LoadedIsComplete`, `GraphShowsTransformations`; with a fair chunker `ChunkingEnds` | holds |
| `chunker` | `ChunkerReturns` with the default sizes | violated |
| `evaluation` | two jobs and a digest: `QuietMeansNothingBad`, `CriticalMissFailsJob`, `WorthIsMeasured`, `ReportsKept`, `BranchGrows`, `DigestTellsRed` | holds |
| `silent_suite` | `QuietMeansMeasured`: a script that broke never leaves its job green and silent | violated |

Each violation is a disagreement between the code and what its own docs or
comments say, quoted in `PROJECT.json` under `findings`. In short: the bundle that
is written may not be the one whose manifest was checked; a time out is not a
ConnectError and its events are not requeued; a poll that comes too early ends the
partial node; the chunker comes back for ever to the tail that its overlap leaves,
which is shorter than the smallest chunk; when the first suite breaks, the red report
that is to stand in for it has no directory to be written to, and the job ends green
and silent.

TLC refutes five more promises on the instances of the passing runs. No run is kept
for them; each definition stands in its module, and naming it as an INVARIANT (the
last one as a PROPERTY) of the run's configuration shows the trace.

| Definition | Instance | What the text says | What the code does |
| --- | --- | --- | --- |
| `NoProposalLeftOver` | `pipeline_edges` | `default_handlers.py:83` "Automatically approves proposed edges if they request RID types this node can provide" | the approval is stamped with this node's clock, and the manifest chain refuses it when the proposal was stamped later: a peer whose clock is ahead is never approved, and not told so |
| `QueuesOutliveRestart` | `event_queue` | `lifecycle.py:70` "Loads event queues into memory", `:97` "Saves event queues to storage" | nothing calls `_save_event_queues` or `_load_event_queues`; what waits is gone |
| `EveryStepRecorded` | `knowledge_graph` | `provenance-tracking-system.py:55` "Every step is recorded and can be audited" | `list(set(a + b))` (line 220) raises for lists with an object, after the observation was added and before the resolution is recorded |
| `NestedObjectsAreWhole` | `knowledge_graph` | `load_to_fuseki.py:82` "Successfully loaded", `convert_jsonld_to_ttl.py:6` "preserving all KOI features" | a nested object whose triples fall into two requests becomes two objects |
| `LastDaysAreCovered` | `evaluation` | `weekly-eval-digest.yml:3` "Rolls up the last 7 days" | of the day on which the window begins no report is read (`aggregate_weekly_evals.py:83`) |

For most of these a passing run says what does hold. `OnlyStampsLeaveProposals`: a
proposal of this life is left over only if it was approved and its stamp is not behind
that of the approval. `CheckedMovesForward`: what was checked is newer than what it
replaces at the write. `LostOnlyOnTheWire`: while a node runs its queues lose nothing.
`ResolutionsAreWhole`: a resolution that an entity shows is recorded and can be
audited. `LoadedIsComplete`: every triple of the file is there. `QuietMeansNothingBad`:
a quiet job has no red or yellow report and the service's answer, and nothing broke
once suite B had reported. `DigestTellsRed`: no red report within the code's window is
hidden by what stands beside it.

`SubscribedUnlessRestarted` is about a node whose loop goes on, which is why it can
hold where `PollerSurvives` does not. `ChunkingEnds` is about sizes whose overlap is
at least the smallest chunk; the default ones are the others.

Fairness. The worker loops for ever on its queue, hence `WF(Process)` and
`WF(Worker)`; httpx ends every request within its time out, hence `WF(Call)`; a
start or a stop is one thread running straight on, hence the third condition of
`NodeRuntime`; a turn of the chunker's loop is computation. Nothing obliges peers,
the program, an operator or a poller to act, so no fairness is assumed of them.
No liveness property rests on `WF(Call)`; it only says that the
thread goes on with its calls.
In `KoiNet` the partial node's loop is part of the model: `WF(Partial)` is its
thread, `WF(Coordinator)` the coordinator's worker, `WF(ServerPuts)` its server;
crashes and restarts are not fair. `EvalWorkflow` has no liveness: a job that does
not run is nobody's promise. Deadlock is not checked: a node with no more inputs
rightly waits, a node may stay down, and a batch program ends.

### Known limits of the code

The models show these too, but no document promises otherwise, or a run for each
would repeat what a run above does.

- A coordinator that shakes hands again is forgotten with its edge, which is
  deleted after the new handshake has found it still there.
- One network target whose flush raises ends the broadcast to the others, and the
  Final chain is skipped with it: when a FORGET of a node is broadcast, its edges stay.
- A partial node killed between caching the coordinator and proposing its edge is
  never subscribed.
- A file torn by a kill stays torn. A torn bundle makes every later event for its
  RID raise, a torn edge or `config.yaml` stops every later start: `Verdict`,
  `GenerateGraph` and `Load` have them, and the properties except `hurt` files.
- In a lookup, one provider that cannot be reached, or a node forgotten between
  the listing and the reading, raises out of `deref`.
- A citation verifier that ends with an exception leaves an empty JSON; the rest
  of its step fails, and the alert sees no hallucination status. Failures of suite
  D never alert. A week whose suite B reports are all synthesized has no pass rate
  and ends the digest with an error. A hallucination diff without a baseline may
  make the digest's headline yellow.
- Relationships keep the object id that the model wrote, so the generated import
  drops those that were merged; an answer
  about an entity's provenance leaves out the extractions it came from.

## 4. What is proved

Every theorem holds for all values of the constants that satisfy the named
assumptions of the module it is about; TLC evaluates those assumptions on each
instance. Each component has an inductive invariant. Those of the pipeline (`IInv`,
`AnsweredInv`, `ContactedInv`) were checked by TLC on the instances of
`pipeline_objects` and `pipeline_edges` before they were proved, and that of
`KoiNet` (`KoiNetInv`) on the instance of `koinet`.

**KnowledgePipeline_proofs**, for all peers, objects, contents, inputs, initial
caches and answers that satisfy `PipelineAssumption` (RIDs of the three kinds are
disjoint, the peers are finitely many, inputs come from peers as events, the served
and stored versions have the type of their RID, and the node's own bundle is in the
cache when the worker starts):

- `TypeCorrect`, `GraphIsTheCachedEdges`, `SelfIsSafe`: `TypeOK`,
  `GraphMirrorsCache` and `SelfIsSelfMade` are invariants;
- `WritesAreChecked`, `EventsNameTransitions`, `BroadcastsTellTheCache`: the action
  properties of `pipeline_objects`;
- `OnlyStampsStopApprovals` and `CoordinatorsAreContacted`: `OnlyStampsLeaveProposals`
  and `CoordinatorsContacted`.

The argument starts from one inductive invariant, `IInv`. None of the properties is
inductive: what the write may do depends on what the manifest chain saw before
the fetch and the Bundle handlers. `StageOK` says what is known of the object at
each stage, `CheckOK` carries the check from the manifest chain to the write
(nothing else writes the cache in between), `WrittenOK` carries the write to the
broadcast, and `SelfOK` says that no object about this node without a source is
ever queued, which is what makes `basic_rid_handler` sufficient. Each conjunct has
its step lemma with a case per action.

The last two theorems are about the handlers' feedback, which waits in the queue
behind anything else. `ProposalsInv` says of each proposal in the cache that it was
there at the start, or that an approval with the stamp in `approved` is queued or in
process, or that this stamp is not newer than the proposal's; `ContactInv` says of a
provider of nodes that it is as it was at the start, or that its edge is there, was
dropped, or is queued or in process. Neither needs a hypothesis about clocks or about
what an earlier life of the node left. What they leave open is in the properties
themselves: nothing looks through the cache at a start, so what was stored before is
excepted; and an edge that was there and was deleted counts as deleted, also when it
was this node that deleted it, after the coordinator had come back.

**NetworkEventQueue_proofs**, for any peers, first contact and bounds with
`QueueAssumption` and `NoneIsNoRequest` (None is no peer, no kind of queue and no
request): `EventQueueTypes`, `ReceivedAtMostOnce`, `ReceivedInOrder` and
`RequeuedIsNotDropped` state `TypeOK`, `AtMostOnce`, `InOrder` and
`RequeueNeverDrops`. An event keeps the number it was pushed with, so `IInv` is about the
numbers in the six places an event can be in. `OneCall` says that the worker has one
request underway at most and nothing to do behind it; `Distinct` that no number is
twice in a place or in two; `OneWay` that a peer whose route is kept has events in its
webhook queue or its poll queue and not in both, without which requeued events could
overtake; `Sorted` that each place is in order and all of one place is before all of
the next; `Requeued` that the push that puts an event back finds its peer known.

**EventOutbox_proofs**, with the same assumptions: `EventQueueIsAnOutbox`, that
`NetworkEventQueue` implements `EventOutbox` (`ImplementsOutbox`). Each step is followed
through the numbers in the places and maps to a step of the outbox or to none
(`StepIsOutboxStep`): `Distinct` shows that what is received leaves what waits, `Sorted`
and `OneWay` that a batch is the oldest of it, `OneCall` that a call cut short by an
exception had nothing else to push. That a batch is no longer than what was sent is
the pigeonhole principle. `EventsAreLostOnTheWireOnly` (`LostOnlyOnTheWire`) takes
the same steps: `OnlyTheWireEmpties` follows what leaves each place into the place it
goes to, and `PushesKeep` the push that no longer finds its peer, which by `Requeued`
holds no event that was in a queue.

**KoiNet_proofs**, for any two RIDs, any number of early polls and any number of
restarts, with `KoiNetAssumption` (the nodes' and the edges' RIDs differ from each other
and from None) and `NoneIsNoBundle` (None is no bundle): `RestIsMutual` and
`RestHasProposers` state `NodesKnowEachOther` and `NoEdgeWithoutProposer`. Both speak of
the network at rest; the invariant, `KoiNetInv`, says where what is missing still is
while it is not. `Shapes` says which objects and events can be in the four queues, in
process and in a request, and `EveryStep` gives each action the form that the other
lemmas use, so that the definitions of the two pipelines are expanded only once.

- `PartComes`: after each FORGET of the partial node in the coordinator's queue its NEW
  follows, and a coordinator that does not know it has that NEW before it, on the
  wire, or has not been greeted yet.
- `CoordComes`: a partial node that does not know the coordinator is being renewed
  there (`Renewing`: a handshake or its FORGET is underway, or its NEW has not been answered
  yet), has the coordinator's NEW in one of its queues, or does not poll. It rests on
  `Strangers`: before the partial node knows the coordinator nothing but the first
  handshake and the edge proposed with it exists anywhere.
- `BackComes`: the same of the edge the coordinator proposes, whose FORGET is
  followed by a bundle, or by a renewal that brings one.
- `ProposedOnce`, `SentOnce`, `GotOnce`: the partial node proposes its edge once in
  all its lives, and until that proposal is sent the coordinator has nothing of it.
  `ForgottenLast`: behind the coordinator's FORGET of that edge nothing follows. So
  `Withdrawn`: as long as the edge lives at the coordinator, no withdrawal of it is on its
  way to the partial node, whose copy stays.

The lemmas on queues (what they hold, which follows which) are stated once, for any
queue and any two kinds of objects (`TailQueue`, `JoinedQueues`).

**NodeRuntime_proofs**, for all peers, inputs, requests and bounds that satisfy
`BoundsAssumption` and `RidsAssumption` (the node's RID, the edge and the object
differ, inputs and requests are about known RIDs): `TypeCorrect`, `IdentityIsKept`,
`StopIsClean`, `AnswersAreTrue`, `OwnIsCurrent` and `MissIsTrue` state `TypeOK`,
`IdentityHasItsKey`, `StopLosesNothing`, `AnswersWereTrue`, `OwnBundleIsCurrent` and
`MissMeansNobodyHas`. Six invariants, each inductive relative to those before it:
`TypeInv`; `IdentityInv`, that the configuration on disk names no RID while a key is
made, and that the key is that of the configuration in memory while that is
saved; `StoreInv`, that only the file the worker has open or a kill left behind
is torn, and that nothing is queued or in work before `refresh`; `AnswerInv`, that
what a request saw includes what the files hold now, which is what makes an
answer true whichever moment it was taken at; `OwnInv`, that the cached profile is
never newer than the configured one, and that while a start settles the node's
own profile is on its way, after which only objects of others are left, which
cannot touch it; `LookupInv`, that a provider known all along that has the object
is still to be read or still to be asked.

**EvalWorkflow_proofs**, for any number of jobs, any gold set, thresholds, answers,
agents, texts, troubles and bounds, with `BaselineAssumption` (suite B has one
baseline file or none), `AgentsAssumption` (thresholds are numbers, agents leave
finitely many files and citations) and `TimeAssumption`: `QuietHidesNothing`,
`CriticalMissFails`, `ReportsAreKept`, `BranchOnlyGrows`, `ValueIsMeasured` and
`RedIsTold`, which state `QuietMeansNothingBad`, `CriticalMissFailsJob`, `ReportsKept`,
`BranchGrows`, `WorthIsMeasured` and `DigestTellsRed`. `JobOK` relates what a job has
recorded to the step it is at: a report is not there before its step (`NotYet`), so
nothing better overwrites it; a critical miss shows in a report, and so does a script
that broke after suite B had reported, since the directory is there (`Shown`); the last steps looked at the reports as they still are (`Looked`).
`KeptInv` adds that a job that came past its push without a failure has its
reports on the branch, which other jobs' pushes keep (`PushAdds`). `WorthInv` says
that a delta report that is green or yellow has both agents of every pair
measured: the step that writes it takes its light from shares of finite sets of
citations (`OverallIsMeasured`, `LightIsMeasured`), and every step remakes only the
report it writes. `RedIsTold` follows a red
report through the window, the day's worst and the suites' ranking.

**KnowledgeGraph_proofs** has a part for each batch program, for any inputs:

- `SourcesAreKept` (`SourcesKept`), with `NormalAssumption` (the empty name is its
  own normal form): `Registered` says that the index names registered entities only
  and every proper one under its normal form, so that an entity added as new never
  takes the id, and with it the sources, of a registered one;
- `ReportAddsUp` (`CountedIsStoredOrFailed`), with `RepliesAssumption` (a reply is a
  sequence of kinds of items): `AddsUp` keeps the counts in step with the results and
  the batch, program by program;
- `TextIsChunked` (`OnlyShortStretchesAreDropped`), with `SizesAssumption` and
  `TextsAssumption` (sizes and positions are numbers, the largest size is not below
  the smallest, entities are finitely many), for texts with any white space: what a
  turn drops strips to less than the smallest chunk, and a turn that ends before the
  text does ends no earlier than the smallest chunk;
- `ResolutionsAreRecorded` (`ResolutionsAreWhole`), for any properties, lists of
  objects included: `ObservationsExtracted` says that each observation has its
  extraction on record, `ResolutionsLinked` that a resolution an entity shows has all
  its observations there and on record, `ObservationsResolved` that an observation came
  into its entity by a stored resolution. A call that raises leaves the entity's
  resolutions and the records as they were, so that all three survive it;
- `LoadIsComplete` (`LoadedIsComplete`) and `GraphShowsThem`
  (`GraphShowsTransformations`), with `CorporaAssumption` and `ChunkAssumption`
  (documents and their parts are finite): `Inserting` says that each triple sent so far
  is in the store, with the blank nodes of some request, and `OfTheFile` that the store
  holds nothing else once it was cleared. What is drawn at any moment then comes from
  triples of the file, of which only a transformation leads to a URI by `toState`
  (`EntityTriples`, `TransformationTriples`).

**DataInduction** has the lemmas about data these proofs share. The induction
theorems of the library take an operator, which the provers cannot instantiate; what
is needed is proved here from sets and functions instead: induction over finite
sets, least and greatest elements, finite unions and images, what a recursive
function over a sequence leaves (`Sieve`), and that a fold over a finite set is
within what each of its steps keeps.

Only model-checked:

- the liveness properties `ForgottenNodeLosesEdges`, `QueueDrains`,
  `SubscribedUnlessRestarted`, `StartsAndStopsEnd` and `ChunkingEnds`: fairness is out of
  the prover's reach;
- `HandshakesGoWhole`, which is about the order of calls within one thread.

No module uses recursive operators, so that all stay provable.

## 5. The plan

1. Done: `KnowledgePipeline`, `NetworkEventQueue`, `EventOutbox`, `KoiNet`, `NodeRuntime`,
   the five modules of the knowledge graph, `EvalSuites`, `EvalWorkflow`; all their
   invariants and action properties proved, and that `NetworkEventQueue` implements
   `EventOutbox`.
2. `KoiNet` with a third node, so that catch-up brings bundles of strangers.

## 6. Not modelled

- Cryptography (a signature is valid or not), JSON, HTTP, SPARQL as languages and
  pydantic; the vendored canonicalization; parsing and formatting of RIDs.
- Handlers and actions an application registers.
- Language models, embeddings, similarity scores, triple stores and GitHub are
  outside the repository; their answers are nondeterministic.
- Prompts, sample texts, rendered reports and summaries, rank regressions; trials
  of models and libraries (`experiments/test*`, `spikes/`, `tools/`); shell scripts;
  ontologies, data and documents.
- `api/claude_config_routes.py`. It serves requests one at a time (its git pull
  blocks the server's only thread), keeps rows that a single request replaces, and
  has no steps another actor could come between except in the database. Reading
  it showed: a `PUT /personal` whose `skill_overrides` is null stores the JSON text
  `null`, on which building the bundle of a core user raises from then on, though
  the column's comment says it is an object; a database error yields the public
  tier; answers 304, `/` and `/personal` are not logged though the migration says
  all access is tracked; a git pull that times out may leave a tree half updated.
