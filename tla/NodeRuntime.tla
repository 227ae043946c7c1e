---------------------------- MODULE NodeRuntime ----------------------------
(***************************************************************************)
(* One koi-net process over its whole life: it loads its configuration,   *)
(* makes itself a key, starts, serves, stops, is killed and starts again  *)
(* on the files it left.  Three threads meet in the cache directory: the  *)
(* worker that writes it, the server that answers fetches from it, and    *)
(* the program that dereferences.  A file is opened for writing in one    *)
(* step (which empties it) and filled in another, so that a reader or a   *)
(* crash can come between.  What the pipeline decides about an object is  *)
(* KnowledgePipeline's subject; here it only accepts newer versions.      *)
(***************************************************************************)
EXTENDS Integers, Sequences

CONSTANTS
    Own,         \* the node's own RID
    Peers,       \* RIDs of full nodes that provide the state of Obj
    Edge, Obj,   \* an edge and an object of another type
    Inputs,      \* the events other nodes send: [rid, version]
    Requests,    \* the sets of RIDs other nodes fetch
    MaxCalls, MaxCrashes, MaxStops, MaxProfile

Rids == {Own, Edge, Obj} \union Peers

\* What a file holds: nothing, a text that does not parse, or a version.
Absent == 0
Torn == -1

ASSUME BoundsAssumption ==
    /\ MaxCalls \in Nat /\ MaxCrashes \in Nat /\ MaxStops \in Nat
    /\ MaxProfile \in Nat \ {0}

ASSUME RidsAssumption ==
    /\ Own \notin Peers \union {Edge, Obj}
    /\ Inputs \subseteq [rid : Rids, version : Nat]
    /\ Requests \subseteq SUBSET Rids

VARIABLES
    mode,        \* where the process is in its life
    config,      \* config.yaml: the key it names (0 none) and the profile
    key,         \* the private key file
    self,        \* the configuration in memory
    files,       \* the cache directory
    queue,       \* kobj_queue
    unfinished,  \* kobj_queue.unfinished_tasks
    worker,      \* the worker thread
    request,     \* the fetch the server is answering
    lookup,      \* the program's effector.deref
    holds,       \* the peers that have Obj
    count,       \* the bounded events so far
    hurt,        \* history: files a crash left torn
    ending       \* history: how the process last came down

process == <<mode, config, key, self>>
vars == <<process, files, queue, unfinished, worker, request, lookup,
          holds, count, hurt, ending>>
store == <<files, queue, unfinished, worker>>
clients == <<request, lookup>>
history == <<holds, hurt, ending>>

NoConfig == [rid |-> 0, profile |-> 1]
TornConfig == [rid |-> Torn, profile |-> 0]
Forget == Absent

WorkerIdle == [step |-> "idle", item |-> <<>>]
RequestIdle == [step |-> "idle", todo |-> {}, found |-> {}, missing |-> {},
                seen |-> {}, gone |-> {}]
LookupIdle == [step |-> "idle", names |-> {}, providers |-> {}, known |-> {}]

Counted == {"calls", "crashes", "stops", "keys"}

Count(what, max) == /\ count[what] < max
                    /\ count' = [count EXCEPT ![what] = @ + 1]

(***************************************************************************)
(* The first start finds no configuration and an empty cache; a later one *)
(* finds what an earlier life left.                                       *)
(***************************************************************************)
Init ==
    /\ mode = "down" /\ self = NoConfig
    /\ \/ /\ config = NoConfig /\ key = Absent
          /\ files = [r \in Rids |-> Absent]
       \/ /\ config = [rid |-> 1, profile |-> 1] /\ key = 1
          /\ files = [r \in Rids |-> IF r = Obj THEN Absent ELSE 1]
    /\ queue = <<>> /\ unfinished = 0 /\ worker = WorkerIdle
    /\ request = RequestIdle /\ lookup = LookupIdle
    /\ holds \in SUBSET Peers
    /\ hurt = {} /\ ending = "stopped"
    /\ count = [c \in Counted |-> IF c = "keys" THEN 1 ELSE 0]

(***************************************************************************)
(* The processor queue.                                                   *)
(***************************************************************************)
\* handle() puts one object: who sent it matters only for the own node.
Put(rid, version, remote) ==
    /\ queue' = Append(queue, [rid |-> rid, version |-> version, remote |-> remote])
    /\ unfinished' = unfinished + 1

\* task_done stands in a finally block: it runs when process() raises too.
\* Mutant: only after processing that succeeded.
TaskDoneOnSuccess(ok) == unfinished' = IF ok THEN unfinished - 1 ELSE unfinished
TaskDone(ok) == unfinished' = unfinished - 1

\* Mutant: lifecycle.stop does not wait.
NotJoined == TRUE
Joined == unfinished = 0

(***************************************************************************)
(* Starting: NodeConfig.load_from_yaml, then NodeLifecycle.start.         *)
(***************************************************************************)
Goes(from, to) == mode = from /\ mode' = to

\* generate_missing: a node without a RID makes itself a key and a RID.
\* Mutant: it does so at every start.
LacksIdentityAlways(c) == c.rid # Torn
LacksIdentity(c) == c.rid = 0

\* A configuration that does not parse raises: the process never runs.
Load ==
    /\ config # TornConfig
    /\ Goes("down", IF LacksIdentity(config) THEN "key" ELSE "save")
    /\ self' = config
    /\ UNCHANGED <<config, key, count>>

OpenKey ==
    /\ Goes("key", "pem")
    /\ key' = Torn
    /\ UNCHANGED <<config, self, count>>

WriteKey ==
    /\ Goes("pem", "save")
    /\ count' = [count EXCEPT !["keys"] = @ + 1]
    /\ key' = count["keys"] + 1
    /\ self' = [self EXCEPT !.rid = count["keys"] + 1]
    /\ UNCHANGED config

\* Every start writes the configuration back, changed or not.
OpenConfig ==
    /\ Goes("save", "dump")
    /\ config' = TornConfig
    /\ UNCHANGED <<key, self, count>>

DumpConfig ==
    /\ Goes("dump", "secure")
    /\ config' = self
    /\ UNCHANGED <<key, self, count>>

\* Secure._load_priv_key: a missing or torn key file raises.
LoadKey ==
    /\ Goes("secure", IF key > 0 THEN "graph" ELSE "down")
    /\ UNCHANGED <<config, key, self, count>>

\* The worker runs from here on.  A torn edge raises out of start, and the
\* finally of run() stops the node.
GenerateGraph ==
    /\ Goes("graph", IF files[Edge] = Torn THEN "stopping" ELSE "refresh")
    /\ UNCHANGED <<config, key, self, count>>

Boot == /\ \/ Load \/ OpenKey \/ WriteKey \/ OpenConfig \/ DumpConfig
           \/ LoadKey \/ GenerateGraph
        /\ UNCHANGED <<store, clients, history>>

\* deref(own RID, refresh_cache = True): the action makes a bundle of the
\* profile in memory, whatever is cached.
\* Mutant: the cache is tried first.
RefreshesIfAbsent == files[Own] = Absent
Refreshes == TRUE

RefreshOwn ==
    /\ Goes("refresh", "settle")
    /\ IF Refreshes THEN Put(Own, self.profile, FALSE)
                    ELSE UNCHANGED <<queue, unfinished>>
    /\ UNCHANGED <<config, key, self, files, worker, clients, history, count>>

\* kobj_queue.join() at the end of start.
Settle ==
    /\ Goes("settle", "up")
    /\ unfinished = 0
    /\ UNCHANGED <<config, key, self, store, clients, history, count>>

(***************************************************************************)
(* Coming down, and what happens meanwhile.                               *)
(***************************************************************************)
\* The end of the run() block: the server has answered what it began and the
\* program is out of its calls.
Stop ==
    /\ Goes("up", "stopping")
    /\ request = RequestIdle /\ lookup = LookupIdle
    /\ Count("stops", MaxStops)
    /\ UNCHANGED <<config, key, self, store, clients, history>>

Stopped ==
    /\ Goes("stopping", "down")
    /\ Joined
    /\ ending' = "stopped"
    /\ UNCHANGED <<config, key, self, store, clients, holds, hurt, count>>

\* The process is killed: memory is lost, files stay as they are.
Crash ==
    /\ mode # "down" /\ mode' = "down"
    /\ Count("crashes", MaxCrashes)
    /\ queue' = <<>> /\ unfinished' = 0 /\ worker' = WorkerIdle
    /\ request' = RequestIdle /\ lookup' = LookupIdle
    /\ hurt' = hurt \union {r \in Rids : files[r] = Torn}
    /\ ending' = "killed"
    /\ UNCHANGED <<config, key, self, files, holds>>

\* The operator edits the profile in config.yaml between two runs.
EditProfile ==
    /\ mode = "down" /\ config.rid > 0
    /\ config.profile < MaxProfile
    /\ config' = [config EXCEPT !.profile = @ + 1]
    /\ UNCHANGED <<mode, key, self, store, clients, history, count>>

\* An event of another node reaches processor.handle.
Receive ==
    /\ mode = "up"
    /\ Count("calls", MaxCalls)
    /\ \E e \in Inputs : Put(e.rid, e.version, TRUE)
    /\ UNCHANGED <<process, files, worker, clients, history>>

(***************************************************************************)
(* The worker thread.                                                     *)
(***************************************************************************)
Working(step) == worker.step = step
Busy == worker.step \in {"check", "open", "fill", "remove"}

\* The history a request keeps of what the cache held while it was answered.
During(set, x) == IF request.step = "serve" THEN set \union {x} ELSE set

Work(files2, request2, lookup2) ==
    /\ files' = files2 /\ request' = request2 /\ lookup' = lookup2
    /\ UNCHANGED <<process, history, count>>

TakeItem ==
    /\ Working("idle") /\ queue # <<>>
    /\ queue' = Tail(queue)
    /\ worker' = [step |-> "check", item |-> Head(queue)]
    /\ Work(files, request, lookup) /\ UNCHANGED unfinished

\* The handlers read the cached bundle: a torn file raises.  The own node is
\* never taken from outside, a version not newer is dropped, and so is the
\* FORGET of what is not cached.
Verdict(item) ==
    LET cached == files[item.rid]
    IN  IF item.rid = Own /\ item.remote THEN "drop"
        ELSE IF cached = Torn THEN "raise"
        ELSE IF item.version = Forget THEN IF cached = Absent THEN "drop" ELSE "remove"
        ELSE IF item.version > cached THEN "open" ELSE "drop"

\* The loop catches what process() raises and goes on.
\* Mutant: the exception ends the thread.
AfterRaiseDead == [step |-> "dead", item |-> <<>>]
AfterRaise == WorkerIdle

CheckItem ==
    /\ Working("check")
    /\ LET verdict == Verdict(worker.item)
       IN  IF verdict \in {"drop", "raise"}
           THEN /\ worker' = IF verdict = "raise" THEN AfterRaise ELSE WorkerIdle
                /\ TaskDone(verdict = "drop")
           ELSE worker' = [worker EXCEPT !.step = verdict] /\ UNCHANGED unfinished
    /\ Work(files, request, lookup) /\ UNCHANGED queue

\* Cache.write opens the file, and so empties it, before it writes.
OpenFile ==
    /\ Working("open")
    /\ worker' = [worker EXCEPT !.step = "fill"]
    /\ Work([files EXCEPT ![worker.item.rid] = Torn], request,
            [lookup EXCEPT !.known = @ \ {worker.item.rid}])
    /\ UNCHANGED <<queue, unfinished>>

FillFile ==
    /\ Working("fill")
    /\ worker' = WorkerIdle /\ TaskDone(TRUE)
    /\ Work([files EXCEPT ![worker.item.rid] = worker.item.version],
            [request EXCEPT !.seen = During(@, <<worker.item.rid, worker.item.version>>)],
            lookup)
    /\ UNCHANGED queue

RemoveFile ==
    /\ Working("remove")
    /\ worker' = WorkerIdle /\ TaskDone(TRUE)
    /\ Work([files EXCEPT ![worker.item.rid] = Absent],
            [request EXCEPT !.gone = During(@, worker.item.rid)],
            [lookup EXCEPT !.known = @ \ {worker.item.rid}])
    /\ UNCHANGED queue

Worker == TakeItem \/ CheckItem \/ OpenFile \/ FillFile \/ RemoveFile

(***************************************************************************)
(* The server thread: fetch_bundles, and fetch_manifests with or without  *)
(* a list of RIDs.  A handler runs to its end before the next one begins. *)
(***************************************************************************)
Cached == {r \in Rids : files[r] # Absent}

Fetch ==
    /\ mode = "up" /\ request.step = "idle"
    /\ Count("calls", MaxCalls)
    /\ \E rids \in Requests \union {Cached} :
         request' = [step |-> "serve", todo |-> rids, found |-> {}, missing |-> {},
                     seen |-> {<<r, files[r]>> : r \in Rids},
                     gone |-> Rids \ Cached]
    /\ UNCHANGED <<process, store, lookup, history>>

\* Cache.read: nothing only when there is no file.
\* Mutant: a text that does not parse is taken for no file.
ReadsAsNothingUnparsed(r) == files[r] \in {Absent, Torn}
ReadsAsNothing(r) == files[r] = Absent

\* effector.deref of one RID: the cache, else the action, which knows only the
\* own node and whose bundle is handled too.  A torn file raises and the
\* requester gets an error instead of an answer.
Serve(r) ==
    \/ /\ files[r] = Torn /\ ~ReadsAsNothing(r)
       /\ request' = RequestIdle
       /\ UNCHANGED <<queue, unfinished>>
    \/ /\ files[r] > 0
       /\ request' = [request EXCEPT !.todo = @ \ {r},
                                     !.found = @ \union {<<r, files[r]>>}]
       /\ UNCHANGED <<queue, unfinished>>
    \/ /\ ReadsAsNothing(r)
       /\ request' = [request EXCEPT !.todo = @ \ {r},
                                     !.missing = @ \union ({r} \ {Own})]
       /\ IF r = Own THEN Put(Own, self.profile, FALSE)
                     ELSE UNCHANGED <<queue, unfinished>>

ServeOne ==
    /\ mode = "up" /\ request.step = "serve"
    /\ \E r \in request.todo : Serve(r)
    /\ UNCHANGED <<process, files, worker, lookup, history, count>>

Answer ==
    /\ mode = "up" /\ request.step = "serve" /\ request.todo = {}
    /\ request' = RequestIdle
    /\ UNCHANGED <<process, store, lookup, history, count>>

(***************************************************************************)
(* The program's thread: effector.deref(Obj) with the network.            *)
(***************************************************************************)
Looking(step) == mode = "up" /\ lookup.step = step

Look(lookup2) ==
    /\ lookup' = lookup2
    /\ UNCHANGED <<process, files, worker, request, history>>

\* get_state_providers lists the nodes of the cache ...
ListedNodes == [step |-> "read", names |-> Peers \intersect Cached,
                providers |-> {}, known |-> {p \in Peers : files[p] > 0}]

\* The cache is tried first unless refresh_cache: a hit, or a file that does not
\* parse, ends the lookup at once, which is no step.  No action knows Obj.
Dereference(refresh) ==
    /\ Looking("idle")
    /\ Count("calls", MaxCalls)
    /\ refresh \/ files[Obj] = Absent
    /\ Look([LookupIdle EXCEPT !.step = "list"])
    /\ UNCHANGED <<queue, unfinished>>

ListNodes ==
    /\ Looking("list")
    /\ Look(ListedNodes)
    /\ UNCHANGED <<queue, unfinished, count>>

\* ... and then reads each: one forgotten since, or half written, raises.
ReadNode ==
    /\ Looking("read")
    /\ \E p \in lookup.names :
         Look(IF files[p] <= 0 THEN LookupIdle
              ELSE [lookup EXCEPT !.names = @ \ {p},
                                  !.providers = @ \union {p},
                                  !.step = IF lookup.names = {p} THEN "ask" ELSE "read"])
    /\ UNCHANGED <<queue, unfinished, count>>

\* fetch_remote_bundle goes on past a provider that has nothing.
\* Mutant: the first answer ends it.
AskNextEnds(p) == [lookup EXCEPT !.providers = {}]
AskNext(p) == [lookup EXCEPT !.providers = @ \ {p}]

\* One provider is asked: it has the bundle, it has not, or it cannot be
\* reached or answers an error, which raises out of deref.
AskProvider ==
    /\ Looking("ask")
    /\ \E p \in lookup.providers :
         \/ /\ p \in holds /\ Look(LookupIdle) /\ Put(Obj, 1, TRUE)
         \/ /\ p \notin holds /\ Look(AskNext(p)) /\ UNCHANGED <<queue, unfinished>>
         \/ Look(LookupIdle) /\ UNCHANGED <<queue, unfinished>>
    /\ UNCHANGED count

Miss ==
    /\ \/ Looking("ask") /\ lookup.providers = {}
       \/ Looking("read") /\ lookup.names = {}
    /\ Look(LookupIdle)
    /\ UNCHANGED <<queue, unfinished, count>>

Next ==
    \/ Boot \/ RefreshOwn \/ Settle \/ Stop \/ Stopped \/ Crash
    \/ EditProfile \/ Receive
    \/ Worker
    \/ Fetch \/ ServeOne \/ Answer
    \/ (\E refresh \in BOOLEAN : Dereference(refresh)) \/ ListNodes \/ ReadNode \/ AskProvider \/ Miss

(***************************************************************************)
(* The threads of a running process keep running; nothing obliges anyone  *)
(* to start, stop, send or ask.                                           *)
(***************************************************************************)
Spec ==
    /\ Init /\ [][Next]_vars
    /\ WF_vars(mode # "down" /\ (Boot \/ RefreshOwn \/ Settle \/ Stopped))
    /\ WF_vars(Worker)

(***************************************************************************)
(* Properties.                                                            *)
(***************************************************************************)
\* The tasks join() waits for are those queued and the one in work, no more and
\* no fewer, also after a task that raised; and the types.
TypeOK ==
    /\ config \in [rid : Int, profile : Nat] /\ self \in [rid : Int, profile : Nat]
    /\ key \in Int /\ files \in [Rids -> Int]
    /\ unfinished = Len(queue) + (IF Busy THEN 1 ELSE 0)

\* A node never answers "not found" for a RID that was in its cache all through
\* the request, and never answers a version it did not hold in that time: the
\* worker writing at the same moment gives at worst an error
\* (response_handler.fetch_bundles, fetch_manifests).
AnswersWereTrue ==
    request.step = "serve" => /\ request.missing \subseteq request.gone
                              /\ request.found \subseteq request.seen

\* A lookup over the network that comes back empty says that no provider the
\* node knew all along has the object (resolver.fetch_remote_bundle).
MissMeansNobodyHas ==
    [][Miss => lookup.known \intersect holds = {}]_vars

\* After a graceful stop nothing accepted is unprocessed and no file is half
\* written but those an earlier crash left so (lifecycle.stop: "Finishes
\* processing knowledge object queue").
StopLosesNothing ==
    mode = "down" /\ ending = "stopped" =>
        /\ queue = <<>> /\ ~Busy
        /\ \A r \in Rids : files[r] = Torn => r \in hurt

\* Once up, a node's cache holds its profile as configured, whatever happened
\* in earlier lives, unless a crash has torn that very file
\* (lifecycle.start: "refresh to reflect changes (if any) in config.yaml").
OwnBundleIsCurrent ==
    mode = "up" => \/ files[Own] = self.profile
                   \/ files[Own] = Torn /\ Own \in hurt

\* A configuration that names the node's RID stands beside the key the RID was
\* made from, whatever step of a start was cut short.
IdentityHasItsKey == config.rid > 0 => key = config.rid

\* Every start ends, in a node that is up or in one that is down, and so does
\* every stop, even when the processing of what was queued raises.
StartsAndStopsEnd == mode \notin {"up", "down"} ~> mode \in {"up", "down"}
=============================================================================
