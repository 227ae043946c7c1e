------------------------ MODULE NodeRuntime_proofs ------------------------
(***************************************************************************)
(* Proofs about NodeRuntime for every set of peers, inputs and requests   *)
(* and every bound.  TypeInv and the invariants below are inductive in    *)
(* the order they stand; each uses those before it.                       *)
(***************************************************************************)
EXTENDS NodeRuntime, TLAPS

Item == [rid : Rids, version : Nat, remote : BOOLEAN]
BusyWorker == [step : {"check", "open", "fill", "remove"}, item : Item]

CountType == [Counted -> Nat]

ProcessTypes ==
    /\ config \in [rid : Int, profile : Nat]
    /\ config = TornConfig \/ (config.rid \in Nat /\ config.profile > 0)
    /\ self \in [rid : Nat, profile : Nat \ {0}]
    /\ key \in Int

StoreTypes ==
    /\ files \in [Rids -> Int]
    /\ queue \in Seq(Item)
    /\ worker = WorkerIdle \/ worker \in BusyWorker
    /\ unfinished = Len(queue) + (IF Busy THEN 1 ELSE 0)

TypeInv == ProcessTypes /\ StoreTypes /\ count \in CountType

(***************************************************************************)
(* What an action that is not about them leaves alone.                    *)
(***************************************************************************)
Client == ListNodes \/ ReadNode \/ Miss \/ Answer \/ \E refresh \in BOOLEAN : Dereference(refresh)

\* A bounded event leaves the counters natural numbers.
LEMMA CountTypes ==
    ASSUME TypeInv, NEW what \in Counted, NEW max, Count(what, max)
    PROVE  count' \in CountType
<1>1. count \in [Counted -> Nat] /\ count[what] + 1 \in Nat
  BY DEF TypeInv, CountType
<1> QED BY <1>1 DEF Count, CountType

\* Changing one file to a number leaves the cache a function to numbers.
LEMMA FileTypes ==
    ASSUME TypeInv, NEW r, NEW v \in Int
    PROVE  [files EXCEPT ![r] = v] \in [Rids -> Int]
BY DEF TypeInv, StoreTypes

\* The clients' own steps change nothing of the node, its queue and its files.
LEMMA ClientFrame ==
    ASSUME TypeInv, Client \/ Fetch
    PROVE  UNCHANGED <<process, store, history>> /\ count' \in CountType
<1> USE DEF history, process, store
<1>0. count \in CountType
  BY DEF TypeInv, CountType
<1>1. CASE Fetch
  BY <1>1, CountTypes DEF Fetch, Counted
<1>2. CASE Answer
  BY <1>0, <1>2 DEF Answer
<1>3. CASE ListNodes \/ ReadNode \/ Miss
  <2>1. UNCHANGED <<process, files, worker, history, queue, unfinished, count>>
    BY <1>3 DEF ListNodes, ReadNode, Miss, Look
  <2> QED BY <1>0, <2>1
<1>4. CASE \E refresh \in BOOLEAN : Dereference(refresh)
  BY <1>4, CountTypes DEF Counted, Dereference, Look
<1> QED BY <1>1, <1>2, <1>3, <1>4 DEF Client

\* Putting an object keeps the queue's type and its account.
LEMMA PutTypes ==
    ASSUME TypeInv, NEW rid \in Rids, NEW version \in Nat, NEW remote \in BOOLEAN,
           Put(rid, version, remote), worker' = worker
    PROVE  /\ queue' \in Seq(Item)
           /\ unfinished' = Len(queue') + (IF Busy' THEN 1 ELSE 0)
           /\ queue' = Append(queue, [rid |-> rid, version |-> version, remote |-> remote])
<1> DEFINE item == [rid |-> rid, version |-> version, remote |-> remote]
<1>1. item \in Item
  BY DEF Item
<1>2. queue' = Append(queue, item) /\ unfinished' = unfinished + 1
  BY DEF Put
<1>3. Busy' = Busy
  BY DEF Busy
<1> HIDE DEF item
<1>4. queue \in Seq(Item) /\ unfinished = Len(queue) + (IF Busy THEN 1 ELSE 0)
  BY DEF TypeInv, StoreTypes
<1>5. Len(queue') = Len(queue) + 1 /\ queue' \in Seq(Item) /\ Len(queue) \in Nat
  BY <1>1, <1>2, <1>4
<1>6. unfinished' = Len(queue') + (IF Busy' THEN 1 ELSE 0)
  <2>1. CASE Busy
    BY <2>1, <1>2, <1>3, <1>4, <1>5
  <2>2. CASE ~Busy
    BY <2>2, <1>2, <1>3, <1>4, <1>5
  <2> QED BY <2>1, <2>2
<1> QED BY <1>2, <1>5, <1>6 DEF item

LEMMA IdleNotBusy == worker = WorkerIdle => ~Busy
BY DEF WorkerIdle, Busy

\* What each step of the worker does to the queue and to itself.
LEMMA WorkerTypes ==
    ASSUME TypeInv, Worker
    PROVE  StoreTypes' /\ UNCHANGED <<process, history, count>>
<1> USE DEF TypeInv, StoreTypes
<1>1. CASE TakeItem
  <2>1. /\ worker = WorkerIdle /\ ~Busy /\ Busy'
    BY <1>1 DEF TakeItem, Working, Busy, BusyWorker
  <2>2. /\ Head(queue) \in Item /\ Tail(queue) \in Seq(Item)
        /\ Len(Tail(queue)) = Len(queue) - 1 /\ Len(queue) \in Nat
    BY <1>1 DEF TakeItem
  <2>3. worker' \in BusyWorker
    BY <1>1, <2>2 DEF TakeItem, BusyWorker
  <2> QED BY <1>1, <2>1, <2>2, <2>3 DEF TakeItem, Work
<1>2. CASE CheckItem
  <2>1. worker \in BusyWorker /\ Busy
    BY <1>2 DEF CheckItem, Working, Busy, WorkerIdle
  <2>2. Verdict(worker.item) \in {"drop", "raise", "open", "remove"}
    BY DEF Verdict
  <2>3. Len(queue) \in Nat
    OBVIOUS
  <2>4. CASE Verdict(worker.item) \in {"drop", "raise"}
    <3>1. worker' = WorkerIdle /\ unfinished' = unfinished - 1
      BY <1>2, <2>4 DEF CheckItem, AfterRaise, TaskDone
    <3>2. ~Busy'
      BY <3>1 DEF WorkerIdle, Busy
    <3> QED BY <1>2, <2>1, <2>3, <3>1, <3>2 DEF CheckItem, Work
  <2>5. CASE Verdict(worker.item) \in {"open", "remove"}
    <3>1. worker' = [worker EXCEPT !.step = Verdict(worker.item)] /\ unfinished' = unfinished
      BY <1>2, <2>5 DEF CheckItem
    <3>2. worker' \in BusyWorker /\ Busy'
      BY <2>1, <2>5, <3>1 DEF BusyWorker, Busy
    <3> QED BY <1>2, <2>1, <2>3, <3>1, <3>2 DEF CheckItem, Work
  <2> QED BY <2>2, <2>4, <2>5
<1>3. CASE OpenFile
  <2>1. worker \in BusyWorker /\ Busy
    BY <1>3 DEF OpenFile, Working, Busy, WorkerIdle
  <2>2. worker' \in BusyWorker /\ Busy'
    BY <1>3, <2>1 DEF OpenFile, BusyWorker, Busy
  <2>3. files' = [files EXCEPT ![worker.item.rid] = Torn] /\ UNCHANGED <<process, history, count>>
    BY <1>3 DEF OpenFile, Work
  <2>4. files' \in [Rids -> Int]
    BY <2>3, FileTypes DEF Torn
  <2>5. queue' = queue /\ unfinished' = unfinished
    BY <1>3 DEF OpenFile
  <2> QED BY <2>1, <2>2, <2>3, <2>4, <2>5
<1>4. CASE FillFile
  <2>1. worker \in BusyWorker /\ Busy
    BY <1>4 DEF FillFile, Working, Busy, WorkerIdle
  <2>2. worker' = WorkerIdle /\ ~Busy' /\ unfinished' = unfinished - 1
    BY <1>4 DEF FillFile, WorkerIdle, Busy, TaskDone
  <2>3. worker.item.version \in Nat
    BY <2>1 DEF BusyWorker, Item
  <2>4. /\ files' = [files EXCEPT ![worker.item.rid] = worker.item.version]
        /\ queue' = queue /\ UNCHANGED <<process, history, count>>
    BY <1>4 DEF FillFile, Work
  <2>5. files' \in [Rids -> Int]
    BY <2>3, <2>4, FileTypes
  <2>6. unfinished' = Len(queue') + (IF Busy' THEN 1 ELSE 0)
    BY <2>1, <2>2, <2>4
  <2> QED BY <2>2, <2>4, <2>5, <2>6
<1>5. CASE RemoveFile
  <2>1. worker \in BusyWorker /\ Busy
    BY <1>5 DEF RemoveFile, Working, Busy, WorkerIdle
  <2>2. worker' = WorkerIdle /\ ~Busy' /\ unfinished' = unfinished - 1
    BY <1>5 DEF RemoveFile, WorkerIdle, Busy, TaskDone
  <2>3. /\ files' = [files EXCEPT ![worker.item.rid] = Absent]
        /\ queue' = queue /\ UNCHANGED <<process, history, count>>
    BY <1>5 DEF RemoveFile, Work
  <2>4. files' \in [Rids -> Int]
    BY <2>3, FileTypes DEF Absent
  <2>5. unfinished' = Len(queue') + (IF Busy' THEN 1 ELSE 0)
    BY <2>1, <2>2, <2>3
  <2> QED BY <2>2, <2>3, <2>4, <2>5
<1> QED BY <1>1, <1>2, <1>3, <1>4, <1>5 DEF Worker

LEMMA ProcessFrame == ProcessTypes /\ UNCHANGED process => ProcessTypes'
BY DEF ProcessTypes, process

LEMMA StoreFrame == StoreTypes /\ UNCHANGED store => StoreTypes'
BY DEF StoreTypes, store, Busy

\* An object put in the queue.
LEMMA PutFrame ==
    ASSUME TypeInv, NEW rid \in Rids, NEW version \in Nat, NEW remote \in BOOLEAN,
           Put(rid, version, remote), UNCHANGED <<files, worker>>
    PROVE  StoreTypes'
BY PutTypes DEF TypeInv, StoreTypes

LEMMA OwnIsARid == Own \in Rids /\ Obj \in Rids
BY DEF Rids

(***************************************************************************)
(* Type correctness.                                                      *)
(***************************************************************************)
LEMMA TypeInit == Init => TypeInv
<1> SUFFICES ASSUME Init PROVE TypeInv
  OBVIOUS
<1>1. ProcessTypes
  BY DEF Init, NoConfig, ProcessTypes, Absent
<1>2. files \in [Rids -> Int]
  BY DEF Init, Absent
<1>3. ~Busy
  BY IdleNotBusy DEF Init
<1>4. StoreTypes
  BY <1>2, <1>3 DEF Init, StoreTypes
<1>5. count \in CountType
  BY DEF Init, CountType
<1> QED BY <1>1, <1>4, <1>5 DEF TypeInv

LEMMA BootTypes ==
    ASSUME TypeInv, Boot
    PROVE  ProcessTypes' /\ count' \in CountType
<1> USE DEF TypeInv, ProcessTypes
<1>1. CASE Load
  <2>1. config' = config /\ key' = key /\ self' = config /\ count' = count
    BY <1>1 DEF Load
  <2>2. config # TornConfig
    BY <1>1 DEF Load
  <2>3. config.profile \in Nat \ {0} /\ config.rid \in Nat
    BY <2>2
  <2>4. config \in [rid : Nat, profile : Nat \ {0}]
    BY <2>3
  <2> QED BY <2>1, <2>4
<1>2. CASE OpenKey
  BY <1>2 DEF OpenKey, Torn
<1>3. CASE WriteKey
  <2>1. count["keys"] + 1 \in Nat /\ count' \in CountType
    <3>1. count["keys"] \in Nat /\ count["keys"] + 1 \in Nat
      BY DEF CountType, Counted
    <3>2. count \in [Counted -> Nat] /\ count' = [count EXCEPT !["keys"] = count["keys"] + 1]
      BY <1>3 DEF WriteKey, CountType
    <3>3. count' \in [Counted -> Nat]
      BY <3>1, <3>2
    <3> QED BY <3>1, <3>3 DEF CountType
  <2>2. self' = [self EXCEPT !.rid = count["keys"] + 1] /\ key' = count["keys"] + 1 /\ config' = config
    BY <1>3 DEF WriteKey
  <2> QED BY <2>1, <2>2
<1>4. CASE OpenConfig
  BY <1>4 DEF OpenConfig, TornConfig, Torn
<1>5. CASE LoadKey \/ GenerateGraph
  BY <1>5 DEF LoadKey, GenerateGraph
<1>6. CASE DumpConfig
  <2>1. config' = self /\ UNCHANGED <<key, self, count>>
    BY <1>6 DEF DumpConfig
  <2>2. self \in [rid : Int, profile : Nat] /\ self.rid \in Nat /\ self.profile > 0
    OBVIOUS
  <2> QED BY <2>1, <2>2
<1> QED BY <1>1, <1>2, <1>3, <1>4, <1>5, <1>6 DEF Boot

LEMMA TypeStep == TypeInv /\ [Next]_vars => TypeInv'
<1> SUFFICES ASSUME TypeInv, [Next]_vars PROVE TypeInv'
  OBVIOUS
<1> USE DEF TypeInv
<1>1. CASE Boot
  BY <1>1, BootTypes, StoreFrame DEF Boot
<1>2. CASE RefreshOwn
  <2>1. Put(Own, self.profile, FALSE) /\ UNCHANGED <<config, key, self, files, worker, count>>
    BY <1>2 DEF RefreshOwn, Refreshes
  <2>2. self.profile \in Nat
    BY DEF ProcessTypes
  <2>3. StoreTypes'
    BY <2>1, <2>2, PutFrame, OwnIsARid
  <2> QED BY <2>1, <2>3 DEF ProcessTypes
<1>3. CASE Settle
  BY <1>3, StoreFrame DEF Settle, ProcessTypes
<1>4. CASE Stop
  BY <1>4, CountTypes, StoreFrame DEF Stop, Counted, ProcessTypes
<1>5. CASE Stopped
  BY <1>5, StoreFrame DEF Stopped, ProcessTypes
<1>6. CASE Crash
  <2>1. count' \in CountType
    BY <1>6, CountTypes DEF Crash, Counted
  <2>2. ~Busy'
    BY <1>6 DEF Crash, WorkerIdle, Busy
  <2>3. StoreTypes'
    BY <1>6, <2>2 DEF Crash, StoreTypes
  <2> QED BY <1>6, <2>1, <2>3 DEF Crash, ProcessTypes
<1>7. CASE EditProfile
  <2>1. config.rid \in Nat /\ config.rid > 0 /\ config \in [rid : Int, profile : Nat]
    BY <1>7 DEF EditProfile, ProcessTypes, TornConfig, Torn
  <2>2. config' = [config EXCEPT !.profile = config.profile + 1]
    BY <1>7 DEF EditProfile
  <2>3. config'.profile > 0 /\ config' \in [rid : Int, profile : Nat] /\ config'.rid \in Nat
    BY <2>1, <2>2
  <2> QED BY <1>7, <2>3, StoreFrame DEF EditProfile, ProcessTypes
<1>8. CASE Receive
  <2>1. PICK e \in Inputs : Put(e.rid, e.version, TRUE)
    BY <1>8 DEF Receive
  <2>2. e.rid \in Rids /\ e.version \in Nat
    BY RidsAssumption
  <2>3. StoreTypes'
    BY <1>8, <2>1, <2>2, PutFrame DEF Receive
  <2>4. count' \in CountType
    BY <1>8, CountTypes DEF Receive, Counted
  <2> QED BY <1>8, <2>3, <2>4, ProcessFrame DEF Receive
<1>9. CASE Worker
  BY <1>9, WorkerTypes, ProcessFrame
<1>10. CASE Client \/ Fetch
  BY <1>10, ClientFrame, ProcessFrame, StoreFrame
<1>11. CASE ServeOne
  <2>1. PICK r \in request.todo : Serve(r)
    BY <1>11 DEF ServeOne
  <2>2. UNCHANGED <<process, files, worker, count>>
    BY <1>11 DEF ServeOne
  <2>3. CASE UNCHANGED <<queue, unfinished>>
    BY <2>2, <2>3, ProcessFrame, StoreFrame DEF store
  <2>4. CASE Put(Own, self.profile, FALSE)
    BY <2>2, <2>4, PutFrame, ProcessFrame, OwnIsARid DEF ProcessTypes
  <2> QED BY <2>1, <2>3, <2>4 DEF Serve
<1>12. CASE AskProvider
  <2>1. UNCHANGED <<process, files, worker, count>>
    BY <1>12 DEF AskProvider, Look
  <2>2. CASE UNCHANGED <<queue, unfinished>>
    BY <2>1, <2>2, ProcessFrame, StoreFrame DEF store
  <2>3. CASE Put(Obj, 1, TRUE)
    BY <2>1, <2>3, PutFrame, ProcessFrame, OwnIsARid
  <2> QED BY <1>12, <2>2, <2>3 DEF AskProvider
<1>13. CASE UNCHANGED vars
  BY <1>13, ProcessFrame, StoreFrame DEF vars, store
<1> QED BY <1>1, <1>2, <1>3, <1>4, <1>5, <1>6, <1>7, <1>8, <1>9, <1>10, <1>11, <1>12, <1>13
        DEF Next, Client

LEMMA TypeInvariant == Spec => []TypeInv
BY TypeInit, TypeStep, PTL DEF Spec

\* Every variable keeps its type, and join() waits for the objects queued and in
\* work, no more and no fewer, whatever processing raised.
THEOREM TypeCorrect == Spec => []TypeOK
<1>1. TypeInv => TypeOK
  <2> SUFFICES ASSUME TypeInv PROVE TypeOK
    OBVIOUS
  <2>1. self \in [rid : Int, profile : Nat]
    BY DEF TypeInv, ProcessTypes
  <2> QED BY <2>1 DEF TypeInv, ProcessTypes, StoreTypes, TypeOK
<1> QED BY <1>1, TypeInvariant, PTL

(***************************************************************************)
(* The identity.  A start touches the key only under a configuration that *)
(* names none, and names one only when its key is written.                *)
(***************************************************************************)
IdentityInv ==
    /\ IdentityHasItsKey
    /\ mode \in {"key", "pem"} => config.rid = 0
    /\ mode \in {"save", "dump"} => key = self.rid

LEMMA IdentityStep == TypeInv /\ IdentityInv /\ [Next]_vars => IdentityInv'
<1> SUFFICES ASSUME TypeInv, IdentityInv, [Next]_vars PROVE IdentityInv'
  OBVIOUS
<1> USE DEF IdentityInv, IdentityHasItsKey
<1>0. \/ config = TornConfig
      \/ config.rid \in Nat
  BY DEF TypeInv, ProcessTypes
<1>1. CASE Load
  BY <1>0, <1>1 DEF Load, Goes, LacksIdentity
<1>2. CASE OpenKey
  BY <1>2 DEF OpenKey, Goes
<1>3. CASE WriteKey
  <2>1. config.rid = 0 /\ config' = config /\ mode' = "save"
    BY <1>3 DEF WriteKey, Goes
  <2>2. key' = count["keys"] + 1 /\ self' = [self EXCEPT !.rid = count["keys"] + 1]
    BY <1>3 DEF WriteKey
  <2>3. self \in [rid : Nat, profile : Nat \ {0}]
    BY DEF TypeInv, ProcessTypes
  <2> QED BY <2>1, <2>2, <2>3
<1>4. CASE OpenConfig
  BY <1>4 DEF OpenConfig, Goes, TornConfig, Torn
<1>5. CASE DumpConfig
  BY <1>5 DEF DumpConfig, Goes
<1>6. CASE LoadKey \/ GenerateGraph
  BY <1>6 DEF LoadKey, GenerateGraph, Goes
<1>7. CASE RefreshOwn \/ Settle \/ Stop \/ Stopped
  BY <1>7 DEF RefreshOwn, Settle, Stop, Stopped, Goes
<1>8. CASE Crash
  BY <1>8 DEF Crash
<1>9. CASE EditProfile
  <2>1. config \in [rid : Int, profile : Nat]
    BY DEF TypeInv, ProcessTypes
  <2>2. config'.rid = config.rid
    BY <1>9, <2>1 DEF EditProfile
  <2> QED BY <1>9, <2>2 DEF EditProfile
<1>10. CASE UNCHANGED process
  BY <1>10 DEF process
<1>11. CASE Receive \/ Worker \/ Client \/ Fetch \/ ServeOne \/ AskProvider \/ UNCHANGED vars
  <2>1. UNCHANGED process
    BY <1>11, ClientFrame, WorkerTypes DEF Receive, ServeOne, AskProvider, Look, vars
  <2> QED BY <2>1, <1>10
<1> QED BY <1>1, <1>2, <1>3, <1>4, <1>5, <1>6, <1>7, <1>8, <1>9, <1>11
        DEF Next, Boot, Client

\* Whatever step of whatever start is cut short, a configuration that names the
\* node's RID stands beside the key that RID was made from.
THEOREM IdentityIsKept == Spec => []IdentityHasItsKey
<1>1. Init => IdentityInv
  BY DEF Init, NoConfig, IdentityInv, IdentityHasItsKey, Absent
<1>2. IdentityInv => IdentityHasItsKey
  BY DEF IdentityInv
<1> QED BY <1>1, <1>2, IdentityStep, TypeInvariant, PTL DEF Spec

(***************************************************************************)
(* Coming down.  A torn file is being written or was torn by a crash, and *)
(* a process that is not yet serving has nothing queued.                  *)
(***************************************************************************)
Starting == {"down", "key", "pem", "save", "dump", "secure", "graph", "refresh"}

StoreInv ==
    /\ mode \in Starting \union {"settle", "up", "stopping"}
    /\ mode \in Starting => queue = <<>> /\ ~Busy
    /\ \A r \in Rids : files[r] = Torn =>
          \/ r \in hurt
          \/ Working("fill") /\ worker.item.rid = r

LEMMA StoreInvFrame ==
    StoreInv /\ UNCHANGED <<mode, files, queue, worker, hurt>> => StoreInv'
BY DEF StoreInv, Busy, Working

LEMMA StoreInit == Init => StoreInv
<1> SUFFICES ASSUME Init PROVE StoreInv
  OBVIOUS
<1>1. queue = <<>> /\ ~Busy /\ mode = "down"
  BY IdleNotBusy DEF Init
<1>2. \A r \in Rids : files[r] # Torn
  BY DEF Init, Absent, Torn
<1> QED BY <1>1, <1>2 DEF StoreInv, Starting

LEMMA StoreStep == TypeInv /\ StoreInv /\ [Next]_vars => StoreInv'
<1> SUFFICES ASSUME TypeInv, StoreInv, [Next]_vars PROVE StoreInv'
  OBVIOUS
<1> USE DEF StoreInv
<1>1. CASE Boot
  <2>1. mode \in Starting
    BY <1>1 DEF Boot, Load, OpenKey, WriteKey, OpenConfig, DumpConfig, LoadKey,
                GenerateGraph, Goes, Starting
  <2>2. UNCHANGED <<files, queue, worker, hurt>> /\ mode' \in Starting \union {"stopping"}
    BY <1>1 DEF Boot, Load, OpenKey, WriteKey, OpenConfig, DumpConfig, LoadKey,
                GenerateGraph, Goes, Starting, store, history
  <2> QED BY <2>1, <2>2 DEF Busy, Working
<1>2. CASE RefreshOwn
  BY <1>2 DEF RefreshOwn, Goes, Starting, history, Working
<1>3. CASE Settle \/ Stop
  BY <1>3 DEF Settle, Stop, Goes, Starting, store, history, Working
<1>4. CASE Stopped
  <2>1. unfinished = 0 /\ Len(queue) \in Nat /\ queue \in Seq(Item)
    BY <1>4 DEF Stopped, Joined, TypeInv, StoreTypes
  <2>2. ~Busy /\ Len(queue) = 0
    BY <2>1 DEF TypeInv, StoreTypes
  <2>3. queue = <<>>
    BY <2>1, <2>2
  <2>4. mode' \in Starting /\ UNCHANGED <<files, queue, worker, hurt>>
    BY <1>4 DEF Stopped, Goes, store, Starting
  <2> QED BY <2>2, <2>3, <2>4 DEF Busy, Working
<1>5. CASE Crash
  BY <1>5 DEF Crash, WorkerIdle, Busy, Starting
<1>6. CASE EditProfile
  BY <1>6, StoreInvFrame DEF EditProfile, store, history
<1>7. CASE Receive
  BY <1>7 DEF Receive, Starting, process, history, Working
<1>8. CASE Worker
  <2>1. UNCHANGED <<mode, hurt>>
    BY <1>8, WorkerTypes DEF process, history
  <2>2. mode \notin Starting
    BY <1>8 DEF Worker, TakeItem, CheckItem, OpenFile, FillFile, RemoveFile, Working, Busy
  <2>3. files \in [Rids -> Int]
    BY DEF TypeInv, StoreTypes
  <2>4. CASE TakeItem \/ CheckItem
    BY <2>1, <2>2, <2>4 DEF TakeItem, CheckItem, Work, Working
  <2>5. CASE OpenFile
    <3>1. worker \in BusyWorker
      BY <2>5 DEF OpenFile, Working, TypeInv, StoreTypes, WorkerIdle
    <3>2. /\ files' = [files EXCEPT ![worker.item.rid] = Torn]
          /\ worker'.step = "fill" /\ worker'.item = worker.item
      BY <2>5, <3>1 DEF OpenFile, Work, BusyWorker
    <3> QED BY <2>1, <2>2, <2>3, <2>5, <3>2 DEF OpenFile, Working
  <2>6. CASE FillFile
    <3>1. worker \in BusyWorker
      BY <2>6 DEF FillFile, Working, TypeInv, StoreTypes, WorkerIdle
    <3>2. worker.item.version # Torn
      BY <3>1 DEF BusyWorker, Item, Torn
    <3> QED BY <2>1, <2>2, <2>3, <2>6, <3>2 DEF FillFile, Work, Working
  <2>7. CASE RemoveFile
    BY <2>1, <2>2, <2>3, <2>7 DEF RemoveFile, Work, Working, Absent, Torn
  <2> QED BY <1>8, <2>4, <2>5, <2>6, <2>7 DEF Worker
<1>9. CASE Client \/ Fetch
  BY <1>9, ClientFrame, StoreInvFrame DEF process, store, history
<1>10. CASE ServeOne \/ AskProvider
  <2>1. mode = "up" /\ UNCHANGED <<process, files, worker, history>>
    BY <1>10 DEF ServeOne, AskProvider, Looking, Look
  <2> QED BY <2>1 DEF process, history, Starting, Working
<1>11. CASE UNCHANGED vars
  BY <1>11, StoreInvFrame DEF vars, process, store, history
<1> QED BY <1>1, <1>2, <1>3, <1>4, <1>5, <1>6, <1>7, <1>8, <1>9, <1>10, <1>11
        DEF Next, Client

\* A graceful stop leaves nothing unprocessed and no file half written but those
\* an earlier crash left so.
THEOREM StopIsClean == Spec => []StopLosesNothing
<1>1. StoreInv => StopLosesNothing
  BY DEF StoreInv, StopLosesNothing, Starting, Busy, Working
<1> QED BY <1>1, StoreInit, StoreStep, TypeInvariant, PTL DEF Spec

(***************************************************************************)
(* The answers.  While a fetch is served, every state of every file that  *)
(* deref could have read is in the request's history.                     *)
(***************************************************************************)
RequestType ==
    [step : {"idle", "serve"}, todo : SUBSET Rids, found : SUBSET (Rids \X Int),
     missing : SUBSET Rids, seen : SUBSET (Rids \X Int), gone : SUBSET Rids]

AnswerInv ==
    /\ request \in RequestType
    /\ worker.step \in {"open", "fill"} => worker.item.version # Absent
    /\ request.step = "serve" =>
          /\ request.missing \subseteq request.gone
          /\ request.found \subseteq request.seen
          /\ \A r \in Rids : files[r] = Absent => r \in request.gone
          /\ \A r \in Rids : files[r] > 0 => <<r, files[r]>> \in request.seen

LEMMA AnswerFrame == AnswerInv /\ UNCHANGED <<request, files, worker>> => AnswerInv'
BY DEF AnswerInv

LEMMA IdleRequest == RequestIdle \in RequestType /\ RequestIdle.step = "idle"
BY DEF RequestIdle, RequestType

LEMMA AnswerStep == TypeInv /\ AnswerInv /\ [Next]_vars => AnswerInv'
<1> SUFFICES ASSUME TypeInv, AnswerInv, [Next]_vars PROVE AnswerInv'
  OBVIOUS
<1>0. files \in [Rids -> Int] /\ (worker = WorkerIdle \/ worker \in BusyWorker)
  BY DEF TypeInv, StoreTypes
<1>1. CASE Boot \/ RefreshOwn \/ Settle \/ Stop \/ Stopped \/ EditProfile
  BY <1>1, AnswerFrame DEF Boot, RefreshOwn, Settle, Stop, Stopped, EditProfile, store, clients
<1>2. CASE Receive \/ AskProvider \/ UNCHANGED vars
  BY <1>2, AnswerFrame DEF Receive, AskProvider, Look, vars, store, clients
<1>3. CASE Crash \/ Answer
  BY <1>3, IdleRequest DEF Crash, Answer, AnswerInv, WorkerIdle, store
<1>10. CASE TakeItem \/ CheckItem
  <2>1. UNCHANGED <<files, request>>
    BY <1>10 DEF TakeItem, CheckItem, Work
  <2>2. worker'.step \in {"open", "fill"} => worker'.item.version # Absent
    <3>1. CASE TakeItem
      BY <3>1 DEF TakeItem
    <3>2. CASE CheckItem
      <4>1. worker \in BusyWorker
        BY <1>0, <3>2 DEF CheckItem, Working, WorkerIdle
      <4>2. CASE Verdict(worker.item) \in {"drop", "raise"}
        BY <3>2, <4>2 DEF CheckItem, AfterRaise, WorkerIdle
      <4>3. CASE Verdict(worker.item) \notin {"drop", "raise"}
        <5>1. worker' = [worker EXCEPT !.step = Verdict(worker.item)]
          BY <3>2, <4>3 DEF CheckItem
        <5>2. Verdict(worker.item) \in {"open", "fill"} => worker.item.version # Absent
          BY DEF Verdict, Forget
        <5> QED BY <4>1, <5>1, <5>2 DEF BusyWorker
      <4> QED BY <4>2, <4>3
    <3> QED BY <1>10, <3>1, <3>2
  <2> QED BY <2>1, <2>2 DEF AnswerInv
<1>4. CASE OpenFile
  <2>1. worker \in BusyWorker
    BY <1>0, <1>4 DEF OpenFile, Working, WorkerIdle
  <2>2. files' = [files EXCEPT ![worker.item.rid] = Torn] /\ request' = request
    BY <1>4 DEF OpenFile, Work
  <2>3. \A r \in Rids : files'[r] = files[r] \/ files'[r] = Torn
    BY <1>0, <2>2
  <2>4. worker' = [worker EXCEPT !.step = "fill"] /\ worker.step = "open"
    BY <1>4 DEF OpenFile, Working
  <2>5. worker'.item = worker.item
    BY <2>1, <2>4 DEF BusyWorker
  <2> QED BY <2>2, <2>3, <2>4, <2>5 DEF AnswerInv, Torn, Absent
<1>5. CASE FillFile
  <2>1. worker.item.rid \in Rids /\ worker.item.version \in Nat
    BY <1>0, <1>5 DEF FillFile, Working, WorkerIdle, BusyWorker, Item
  <2> DEFINE new == <<worker.item.rid, worker.item.version>>
  <2>2. /\ files' = [files EXCEPT ![worker.item.rid] = worker.item.version]
        /\ request' = [request EXCEPT !.seen = During(request.seen, new)]
    BY <1>5 DEF FillFile, Work
  <2>3. new \in Rids \X Int
    BY <2>1
  <2>4. During(request.seen, new) \in SUBSET (Rids \X Int)
    BY <2>3 DEF During, AnswerInv, RequestType
  <2>5. request' \in RequestType /\ worker' = WorkerIdle
    BY <1>5, <2>2, <2>4 DEF AnswerInv, RequestType, FillFile
  <2>6. CASE request.step # "serve"
    BY <2>2, <2>5, <2>6 DEF AnswerInv, RequestType, WorkerIdle
  <2>7. CASE request.step = "serve"
    <3>1. /\ request'.step = "serve" /\ request'.missing = request.missing
          /\ request'.found = request.found /\ request'.gone = request.gone
          /\ request'.seen = request.seen \union {new}
      BY <2>2, <2>7 DEF AnswerInv, RequestType, During
    <3>2. ASSUME NEW r \in Rids PROVE files'[r] = files[r] \/ <<r, files'[r]>> = new
      BY <1>0, <2>2
    <3>3. worker.item.version # Absent
      BY <1>5 DEF AnswerInv, FillFile, Working
    <3> QED BY <2>5, <2>7, <3>1, <3>2, <3>3 DEF AnswerInv, WorkerIdle
  <2> QED BY <2>6, <2>7
<1>6. CASE RemoveFile
  <2>1. worker.item.rid \in Rids
    BY <1>0, <1>6 DEF RemoveFile, Working, WorkerIdle, BusyWorker, Item
  <2>2. /\ files' = [files EXCEPT ![worker.item.rid] = Absent] /\ worker' = WorkerIdle
        /\ request' = [request EXCEPT !.gone = During(request.gone, worker.item.rid)]
    BY <1>6 DEF RemoveFile, Work
  <2>3. During(request.gone, worker.item.rid) \in SUBSET Rids
    BY <2>1 DEF During, AnswerInv, RequestType
  <2>4. request' \in RequestType
    BY <2>2, <2>3 DEF AnswerInv, RequestType
  <2>5. CASE request.step # "serve"
    BY <2>2, <2>4, <2>5 DEF AnswerInv, RequestType, WorkerIdle
  <2>6. CASE request.step = "serve"
    <3>1. /\ request'.step = "serve" /\ request'.missing = request.missing
          /\ request'.found = request.found /\ request'.seen = request.seen
          /\ request'.gone = request.gone \union {worker.item.rid}
      BY <2>2, <2>6 DEF AnswerInv, RequestType, During
    <3>2. ASSUME NEW r \in Rids
          PROVE  \/ r # worker.item.rid /\ files'[r] = files[r]
                 \/ r = worker.item.rid /\ files'[r] = Absent
      BY <1>0, <2>2
    <3> QED BY <2>2, <2>4, <2>6, <3>1, <3>2 DEF AnswerInv, WorkerIdle, Absent
  <2> QED BY <2>5, <2>6
<1>7. CASE Fetch
  <2>1. PICK rids \in Requests \union {Cached} :
          request' = [step |-> "serve", todo |-> rids, found |-> {}, missing |-> {},
                      seen |-> {<<r, files[r]>> : r \in Rids}, gone |-> Rids \ Cached]
    BY <1>7 DEF Fetch
  <2>2. rids \subseteq Rids
    BY RidsAssumption DEF Cached
  <2>3. {<<r, files[r]>> : r \in Rids} \in SUBSET (Rids \X Int)
    BY <1>0
  <2>4. request' \in RequestType
    BY <2>1, <2>2, <2>3 DEF RequestType
  <2>5. /\ request'.missing = {} /\ request'.found = {}
        /\ request'.gone = Rids \ Cached /\ request'.seen = {<<r, files[r]>> : r \in Rids}
    BY <2>1
  <2>6. UNCHANGED <<files, worker>>
    BY <1>7 DEF Fetch, store
  <2> QED BY <2>4, <2>5, <2>6 DEF AnswerInv, Cached
<1>8. CASE ListNodes \/ ReadNode \/ Miss \/ \E refresh \in BOOLEAN : Dereference(refresh)
  BY <1>8, AnswerFrame DEF ListNodes, ReadNode, Miss, Dereference, Look
<1>9. CASE ServeOne
  <2>1. PICK r \in request.todo : Serve(r)
    BY <1>9 DEF ServeOne
  <2>2. r \in Rids /\ request.step = "serve" /\ UNCHANGED <<files, worker>>
    BY <1>9, <2>1 DEF ServeOne, AnswerInv, RequestType
  <2>3. CASE request' = RequestIdle
    BY <2>2, <2>3, IdleRequest DEF AnswerInv
  <2>4. CASE /\ files[r] > 0
             /\ request' = [request EXCEPT !.todo = request.todo \ {r},
                                           !.found = request.found \union {<<r, files[r]>>}]
    <3>1. <<r, files[r]>> \in Rids \X Int /\ <<r, files[r]>> \in request.seen
      BY <1>0, <2>2, <2>4 DEF AnswerInv
    <3>2. request' \in RequestType
      BY <2>4, <3>1 DEF AnswerInv, RequestType
    <3>3. /\ request'.missing = request.missing /\ request'.gone = request.gone
          /\ request'.found = request.found \union {<<r, files[r]>>}
          /\ request'.seen = request.seen
      BY <2>4 DEF AnswerInv, RequestType
    <3> QED BY <2>2, <3>1, <3>2, <3>3 DEF AnswerInv
  <2>5. CASE /\ ReadsAsNothing(r)
             /\ request' = [request EXCEPT !.todo = request.todo \ {r},
                                           !.missing = request.missing \union ({r} \ {Own})]
    <3>1. r \in request.gone
      BY <2>2, <2>5 DEF AnswerInv, ReadsAsNothing
    <3>2. request' \in RequestType
      BY <2>2, <2>5 DEF AnswerInv, RequestType
    <3>3. /\ request'.missing = request.missing \union ({r} \ {Own})
          /\ request'.gone = request.gone /\ request'.found = request.found
          /\ request'.seen = request.seen
      BY <2>5 DEF AnswerInv, RequestType
    <3> QED BY <2>2, <3>1, <3>2, <3>3 DEF AnswerInv
  <2> QED BY <2>1, <2>3, <2>4, <2>5 DEF Serve
<1> QED BY <1>1, <1>2, <1>3, <1>4, <1>5, <1>6, <1>7, <1>8, <1>9, <1>10
        DEF Next, Worker

\* No fetch is answered "not found" for a RID that was cached all through it, nor
\* with a version that was not cached in that time, whatever the worker wrote.
THEOREM AnswersAreTrue == Spec => []AnswersWereTrue
<1>1. Init => AnswerInv
  BY IdleRequest DEF Init, AnswerInv, WorkerIdle
<1>2. AnswerInv => AnswersWereTrue
  BY DEF AnswerInv, AnswersWereTrue
<1> QED BY <1>1, <1>2, AnswerStep, TypeInvariant, PTL DEF Spec

(***************************************************************************)
(* The own bundle.  What is cached is never ahead of the configuration;   *)
(* until the start ends the bundle of the configured profile is the only  *)
(* object there is, and afterwards nothing writes the own file.           *)
(***************************************************************************)
OwnItem == [rid |-> Own, version |-> self.profile, remote |-> FALSE]
OwnDone == files[Own] = self.profile \/ (files[Own] = Torn /\ Own \in hurt)

Settling ==
    \/ queue = <<OwnItem>> /\ worker = WorkerIdle
    \/ queue = <<>> /\ worker \in BusyWorker /\ worker.item = OwnItem
       /\ worker.step \in {"check", "open", "fill"}
    \/ queue = <<>> /\ worker = WorkerIdle /\ OwnDone

Outsiders ==
    /\ \A i \in 1 .. Len(queue) : queue[i].remote
    /\ Busy => worker.item.remote
    /\ worker.step \in {"open", "fill", "remove"} => worker.item.rid # Own

OwnInv ==
    /\ config = TornConfig \/ files[Own] <= config.profile
    /\ mode # "down" => files[Own] <= self.profile
    /\ mode \notin {"down", "dump"} => config # TornConfig /\ config.profile = self.profile
    /\ mode = "settle" => Settling
    /\ mode \in {"up", "stopping"} => Outsiders
    /\ mode = "up" => OwnDone

LEMMA OwnFrame ==
    OwnInv /\ UNCHANGED <<process, files, queue, worker, hurt>> => OwnInv'
BY DEF OwnInv, Settling, Outsiders, OwnItem, OwnDone, Busy, process

\* Nothing queued, nothing in work: only outsiders, and none.
LEMMA NoneQueued == queue = <<>> /\ worker = WorkerIdle => Outsiders
BY DEF Outsiders, WorkerIdle, Busy

LEMMA StartingIdle ==
    TypeInv /\ StoreInv /\ mode \in Starting => queue = <<>> /\ worker = WorkerIdle
BY DEF TypeInv, StoreTypes, StoreInv, BusyWorker, Busy

LEMMA OwnBoot ==
    ASSUME TypeInv, StoreInv, OwnInv, Boot
    PROVE  OwnInv'
<1> USE DEF OwnInv
<1>0. /\ mode \in Starting /\ UNCHANGED <<files, queue, worker, hurt>>
      /\ mode' \notin {"settle", "up"}
  BY DEF Boot, Load, OpenKey, WriteKey, OpenConfig, DumpConfig, LoadKey,
         GenerateGraph, Goes, Starting, store, history
<1>1. Outsiders'
  <2>1. queue' = <<>> /\ worker' = WorkerIdle
    BY <1>0, StartingIdle
  <2> QED BY <2>1 DEF Outsiders, WorkerIdle, Busy
<1>2. CASE Load
  BY <1>0, <1>1, <1>2 DEF Load, Goes
<1>3. CASE OpenKey
  BY <1>0, <1>1, <1>3 DEF OpenKey, Goes
<1>4. CASE WriteKey
  <2>1. self'.profile = self.profile
    <3>1. self \in [rid : Nat, profile : Nat \ {0}]
      BY DEF TypeInv, ProcessTypes
    <3> QED BY <1>4, <3>1 DEF WriteKey
  <2> QED BY <1>0, <1>1, <1>4, <2>1 DEF WriteKey, Goes
<1>5. CASE OpenConfig
  BY <1>0, <1>1, <1>5 DEF OpenConfig, Goes
<1>6. CASE DumpConfig
  <2>1. self # TornConfig
    BY DEF TypeInv, ProcessTypes, TornConfig, Torn
  <2> QED BY <1>0, <1>1, <1>6, <2>1 DEF DumpConfig, Goes
<1>7. CASE LoadKey \/ GenerateGraph
  BY <1>0, <1>1, <1>7 DEF LoadKey, GenerateGraph, Goes
<1> QED BY <1>2, <1>3, <1>4, <1>5, <1>6, <1>7 DEF Boot

\* The worker while the start waits for it: the own bundle goes into the cache
\* unless the file was torn by a crash.
LEMMA OwnSettles ==
    ASSUME TypeInv, StoreInv, OwnInv, Worker, mode = "settle"
    PROVE  Settling' /\ files'[Own] <= self.profile
<1>0. /\ files \in [Rids -> Int] /\ Own \in Rids /\ Settling
      /\ files[Own] <= self.profile /\ self.profile \in Nat /\ self.profile > 0
      /\ files[Own] \in Int
  BY OwnIsARid DEF TypeInv, StoreTypes, ProcessTypes, OwnInv
<1>1. UNCHANGED <<self, hurt>>
  BY WorkerTypes DEF process, history
<1>2. CASE TakeItem
  <2>1. queue = <<OwnItem>>
    BY <1>0, <1>2 DEF TakeItem, Settling
  <2>2. Head(queue) = OwnItem /\ Tail(queue) = <<>>
    BY <2>1
  <2>3. queue' = <<>> /\ worker' = [step |-> "check", item |-> OwnItem] /\ files' = files
    BY <1>2, <2>2 DEF TakeItem, Work
  <2>4. OwnItem \in Item
    BY <1>0 DEF OwnItem, Item
  <2> QED BY <1>0, <1>1, <2>3, <2>4 DEF Settling, OwnItem, BusyWorker
<1>3. CASE CheckItem
  <2>1. queue = <<>> /\ worker \in BusyWorker /\ worker.item = OwnItem /\ worker.step = "check"
    BY <1>0, <1>3 DEF CheckItem, Working, Settling, WorkerIdle
  <2>2. UNCHANGED <<files, queue>>
    BY <1>3 DEF CheckItem, Work
  <2>3. OwnItem.rid = Own /\ OwnItem.version = self.profile /\ ~OwnItem.remote
    BY DEF OwnItem
  <2>4. CASE files[Own] = Torn
    <3>1. Verdict(OwnItem) = "raise"
      BY <2>3, <2>4 DEF Verdict
    <3>2. worker' = WorkerIdle
      BY <1>3, <2>1, <3>1 DEF CheckItem, AfterRaise
    <3>3. Own \in hurt
      BY <1>0, <2>1, <2>4 DEF StoreInv, Working
    <3> QED BY <1>0, <1>1, <2>1, <2>2, <2>4, <3>2, <3>3 DEF Settling, OwnDone
  <2>5. CASE files[Own] # Torn /\ self.profile > files[Own]
    <3>1. Verdict(OwnItem) = "open"
      BY <1>0, <2>3, <2>5 DEF Verdict, Forget, Absent
    <3>2. worker' = [worker EXCEPT !.step = "open"]
      BY <1>3, <2>1, <3>1 DEF CheckItem
    <3>3. worker' \in BusyWorker /\ worker'.item = OwnItem /\ worker'.step = "open"
      BY <2>1, <3>2 DEF BusyWorker
    <3> QED BY <1>0, <1>1, <2>1, <2>2, <3>3 DEF Settling, OwnItem
  <2>6. CASE files[Own] # Torn /\ self.profile = files[Own]
    <3>1. Verdict(OwnItem) = "drop"
      BY <1>0, <2>3, <2>6 DEF Verdict, Forget, Absent
    <3>2. worker' = WorkerIdle
      BY <1>3, <2>1, <3>1 DEF CheckItem
    <3> QED BY <1>0, <1>1, <2>1, <2>2, <2>6, <3>2 DEF Settling, OwnDone
  <2> QED BY <1>0, <2>4, <2>5, <2>6
<1>4. CASE OpenFile
  <2>1. queue = <<>> /\ worker \in BusyWorker /\ worker.item = OwnItem
    BY <1>0, <1>4 DEF OpenFile, Working, Settling, WorkerIdle
  <2>2. queue' = <<>> /\ worker' = [worker EXCEPT !.step = "fill"]
    BY <1>4, <2>1 DEF OpenFile
  <2>3. worker' \in BusyWorker /\ worker'.item = OwnItem /\ worker'.step = "fill"
    BY <2>1, <2>2 DEF BusyWorker
  <2>4. files' = [files EXCEPT ![Own] = Torn]
    BY <1>4, <2>1 DEF OpenFile, Work, OwnItem
  <2>5. files'[Own] <= self.profile
    BY <1>0, <2>4 DEF Torn
  <2> QED BY <1>1, <2>2, <2>3, <2>5 DEF Settling, OwnItem
<1>5. CASE FillFile
  <2>1. queue = <<>> /\ worker.item = OwnItem
    BY <1>0, <1>5 DEF FillFile, Working, Settling, WorkerIdle
  <2>2. queue' = <<>> /\ worker' = WorkerIdle /\ files' = [files EXCEPT ![Own] = self.profile]
    BY <1>5, <2>1 DEF FillFile, Work, OwnItem
  <2>3. files'[Own] = self.profile
    BY <1>0, <2>2
  <2> QED BY <1>0, <1>1, <2>2, <2>3 DEF Settling, OwnDone
<1>6. CASE RemoveFile
  BY <1>0, <1>6 DEF RemoveFile, Working, Settling, WorkerIdle
<1> QED BY <1>2, <1>3, <1>4, <1>5, <1>6 DEF Worker

\* The worker once the node is up: it handles what others sent, and leaves the own
\* file alone.
LEMMA OutsidersStay ==
    ASSUME TypeInv, Outsiders, Worker
    PROVE  Outsiders' /\ files'[Own] = files[Own]
<1>0. /\ files \in [Rids -> Int] /\ Own \in Rids /\ queue \in Seq(Item)
      /\ worker = WorkerIdle \/ worker \in BusyWorker
  BY OwnIsARid DEF TypeInv, StoreTypes
<1> USE DEF Outsiders
<1>1. CASE TakeItem
  <2>1. queue # <<>> /\ queue' = Tail(queue) /\ worker' = [step |-> "check", item |-> Head(queue)]
        /\ files' = files
    BY <1>1 DEF TakeItem, Work
  <2>2. Len(queue) \in Nat /\ Len(queue) > 0 /\ Head(queue) = queue[1]
        /\ Len(Tail(queue)) = Len(queue) - 1
        /\ \A i \in 1 .. Len(Tail(queue)) : Tail(queue)[i] = queue[i + 1]
    BY <1>0, <2>1
  <2>3. \A i \in 1 .. Len(queue') : queue'[i].remote
    BY <2>1, <2>2
  <2> QED BY <2>1, <2>2, <2>3
<1>2. CASE CheckItem
  <2>1. worker \in BusyWorker /\ Busy
    BY <1>0, <1>2 DEF CheckItem, Working, WorkerIdle, Busy
  <2>2. UNCHANGED <<files, queue>>
    BY <1>2 DEF CheckItem, Work
  <2>3. CASE Verdict(worker.item) \in {"drop", "raise"}
    BY <1>2, <2>2, <2>3 DEF CheckItem, AfterRaise, WorkerIdle, Busy
  <2>4. CASE Verdict(worker.item) \notin {"drop", "raise"}
    <3>1. worker.item.rid # Own
      BY <2>1, <2>4 DEF Verdict
    <3>2. worker' = [worker EXCEPT !.step = Verdict(worker.item)]
      BY <1>2, <2>4 DEF CheckItem
    <3>3. worker'.item = worker.item
      BY <2>1, <3>2 DEF BusyWorker
    <3> QED BY <2>1, <2>2, <3>1, <3>3
  <2> QED BY <2>3, <2>4
<1>3. CASE OpenFile
  <2>1. worker \in BusyWorker /\ Busy
    BY <1>0, <1>3 DEF OpenFile, Working, WorkerIdle, Busy
  <2>2. worker' = [worker EXCEPT !.step = "fill"] /\ worker.item.rid # Own /\ queue' = queue
        /\ files' = [files EXCEPT ![worker.item.rid] = Torn]
    BY <1>3 DEF OpenFile, Working, Work
  <2>3. worker'.item = worker.item
    BY <2>1, <2>2 DEF BusyWorker
  <2> QED BY <1>0, <2>1, <2>2, <2>3
<1>4. CASE FillFile \/ RemoveFile
  <2>1. worker.item.rid # Own /\ queue' = queue /\ worker' = WorkerIdle
        /\ \/ files' = [files EXCEPT ![worker.item.rid] = worker.item.version]
           \/ files' = [files EXCEPT ![worker.item.rid] = Absent]
    BY <1>4 DEF FillFile, RemoveFile, Working, Work
  <2> QED BY <1>0, <2>1 DEF WorkerIdle, Busy
<1> QED BY <1>1, <1>2, <1>3, <1>4 DEF Worker

\* An object from outside joins the outsiders.
LEMMA OutsiderJoins ==
    ASSUME TypeInv, Outsiders, UNCHANGED worker,
           NEW rid \in Rids, NEW version \in Nat, Put(rid, version, TRUE)
    PROVE  Outsiders'
<1> DEFINE item == [rid |-> rid, version |-> version, remote |-> TRUE]
<1>1. item \in Item /\ item.remote
  BY DEF Item
<1>2. queue' = Append(queue, item)
  BY DEF Put
<1> HIDE DEF item
<1>3. queue \in Seq(Item)
  BY DEF TypeInv, StoreTypes
<1>4. /\ Len(queue) \in Nat /\ Len(queue') = Len(queue) + 1
      /\ \A i \in 1 .. Len(queue) : queue'[i] = queue[i]
      /\ queue'[Len(queue) + 1] = item
  BY <1>1, <1>2, <1>3
<1>5. \A i \in 1 .. Len(queue') : queue'[i].remote
  BY <1>1, <1>4 DEF Outsiders
<1> QED BY <1>5 DEF Outsiders, Busy

LEMMA OwnStep == TypeInv /\ StoreInv /\ OwnInv /\ [Next]_vars => OwnInv'
<1> SUFFICES ASSUME TypeInv, StoreInv, OwnInv, [Next]_vars PROVE OwnInv'
  OBVIOUS
<1> USE DEF OwnInv
<1>0. /\ self.profile \in Nat /\ self.profile > 0 /\ files \in [Rids -> Int]
      /\ files[Own] \in Int
  BY OwnIsARid DEF TypeInv, ProcessTypes, StoreTypes
<1>1. CASE Boot
  BY <1>1, OwnBoot
<1>2. CASE RefreshOwn
  <2>1. mode = "refresh" /\ queue = <<>> /\ worker = WorkerIdle
    BY <1>2, StartingIdle DEF RefreshOwn, Goes, Starting
  <2>2. UNCHANGED <<config, self, files, worker, hurt>> /\ mode' = "settle"
    BY <1>2 DEF RefreshOwn, Goes, history
  <2>3. queue' = Append(queue, OwnItem)
    BY <1>2 DEF RefreshOwn, Refreshes, Put, OwnItem
  <2>4. queue' = <<OwnItem>>
    BY <2>1, <2>3
  <2>5. Settling'
    BY <2>1, <2>2, <2>4 DEF Settling, OwnItem
  <2> QED BY <2>1, <2>2, <2>5
<1>3. CASE Settle
  <2>1. mode = "settle" /\ mode' = "up" /\ UNCHANGED <<config, self, files, queue, worker, hurt>>
    BY <1>3 DEF Settle, Goes, store, history
  <2>2. Len(queue) = 0 /\ ~Busy
    BY <1>3 DEF Settle, TypeInv, StoreTypes
  <2>3. queue = <<>> /\ worker = WorkerIdle /\ OwnDone
    BY <2>1, <2>2 DEF Settling, BusyWorker, Busy
  <2> QED BY <2>1, <2>3, NoneQueued DEF OwnDone, Outsiders, Busy
<1>4. CASE Stop
  <2>1. mode = "up" /\ mode' = "stopping" /\ UNCHANGED <<config, self, files, queue, worker>>
    BY <1>4 DEF Stop, Goes, store
  <2> QED BY <2>1 DEF Outsiders, Busy
<1>5. CASE Stopped
  <2>1. mode = "stopping" /\ mode' = "down" /\ UNCHANGED <<config, files>>
    BY <1>5 DEF Stopped, Goes, store
  <2> QED BY <2>1
<1>6. CASE Crash
  BY <1>6 DEF Crash
<1>7. CASE EditProfile
  <2>1. config \in [rid : Int, profile : Nat] /\ config # TornConfig
    BY <1>7 DEF EditProfile, TypeInv, ProcessTypes, TornConfig, Torn
  <2>2. config'.profile = config.profile + 1 /\ mode' = "down" /\ files' = files
    BY <1>7, <2>1 DEF EditProfile, store
  <2>3. files[Own] <= config.profile /\ config.profile \in Nat
    BY <2>1
  <2> QED BY <1>0, <2>2, <2>3
<1>8. CASE Receive
  <2>1. PICK e \in Inputs : Put(e.rid, e.version, TRUE)
    BY <1>8 DEF Receive
  <2>2. e.rid \in Rids /\ e.version \in Nat
    BY RidsAssumption
  <2>3. mode = "up" /\ UNCHANGED <<process, files, worker, hurt>>
    BY <1>8 DEF Receive, history
  <2>4. Outsiders'
    BY <2>1, <2>2, <2>3, OutsiderJoins
  <2> QED BY <2>3, <2>4 DEF process, OwnDone
<1>9. CASE Worker
  <2>1. UNCHANGED <<process, hurt>>
    BY <1>9, WorkerTypes DEF history
  <2>2. CASE mode = "settle"
    <3>1. config # TornConfig /\ config.profile = self.profile
      BY <2>2
    <3> QED BY <1>9, <2>1, <2>2, <3>1, OwnSettles DEF process
  <2>3. CASE mode \in {"up", "stopping"}
    <3>1. Outsiders' /\ files'[Own] = files[Own]
      BY <1>9, <2>3, OutsidersStay
    <3> QED BY <2>1, <2>3, <3>1 DEF process, OwnDone
  <2>4. CASE mode \notin {"settle", "up", "stopping"}
    <3>1. mode \in Starting => ~Busy /\ queue = <<>>
      BY DEF StoreInv
    <3>2. mode \notin Starting
      BY <1>9, <3>1 DEF Worker, TakeItem, CheckItem, OpenFile, FillFile, RemoveFile,
                         Working, Busy
    <3> QED BY <2>4, <3>2 DEF StoreInv
  <2> QED BY <2>2, <2>3, <2>4
<1>10. CASE Client \/ Fetch
  BY <1>10, ClientFrame, OwnFrame DEF store, history
<1>11. CASE ServeOne
  <2>1. PICK r \in request.todo : Serve(r)
    BY <1>11 DEF ServeOne
  <2>2. mode = "up" /\ UNCHANGED <<process, files, worker, hurt>>
    BY <1>11 DEF ServeOne, history
  <2>3. ~ReadsAsNothing(Own)
    BY <1>0, <2>2 DEF ReadsAsNothing, OwnDone, Absent, Torn
  <2>4. queue' = queue
    BY <2>1, <2>3 DEF Serve
  <2> QED BY <2>2, <2>4, OwnFrame
<1>12. CASE AskProvider
  <2>1. mode = "up" /\ UNCHANGED <<process, files, worker, hurt>>
    BY <1>12 DEF AskProvider, Looking, Look, history
  <2>2. CASE queue' = queue
    BY <2>1, <2>2, OwnFrame
  <2>3. CASE Put(Obj, 1, TRUE)
    <3>1. Outsiders'
      BY <2>1, <2>3, OutsiderJoins, OwnIsARid
    <3> QED BY <2>1, <3>1 DEF process, OwnDone
  <2> QED BY <1>12, <2>2, <2>3 DEF AskProvider
<1>13. CASE UNCHANGED vars
  BY <1>13, OwnFrame DEF vars, process, history
<1> QED BY <1>1, <1>2, <1>3, <1>4, <1>5, <1>6, <1>7, <1>8, <1>9, <1>10, <1>11, <1>12, <1>13
        DEF Next, Client

\* A node that is up has its profile as configured in its cache, whatever happened
\* in its earlier lives, unless a crash tore that very file.
THEOREM OwnIsCurrent == Spec => []OwnBundleIsCurrent
<1>1. Init => OwnInv
  BY OwnIsARid DEF Init, OwnInv, NoConfig, Absent
<1>2. OwnInv => OwnBundleIsCurrent
  BY DEF OwnInv, OwnDone, OwnBundleIsCurrent
<1> QED BY <1>1, <1>2, StoreInit, StoreStep, OwnStep, TypeInvariant, PTL DEF Spec

(***************************************************************************)
(* The lookup over the network.  A provider known all along that has the   *)
(* object is still to be read, or still to be asked.                       *)
(***************************************************************************)
LookupType ==
    [step : {"idle", "list", "read", "ask"}, names : SUBSET Peers,
     providers : SUBSET Peers, known : SUBSET Rids]

LookupInv ==
    /\ lookup \in LookupType
    /\ lookup.step = "read" =>
         /\ lookup.known \intersect holds \subseteq lookup.names \union lookup.providers
         /\ lookup.names = {} => lookup.providers = {}
    /\ lookup.step = "ask" => lookup.known \intersect holds \subseteq lookup.providers

LEMMA LookupFrame == LookupInv /\ UNCHANGED <<lookup, holds>> => LookupInv'
BY DEF LookupInv

LEMMA LookupEnds == lookup' = LookupIdle => LookupInv'
BY DEF LookupIdle, LookupType, LookupInv

LEMMA LookupStep == TypeInv /\ LookupInv /\ [Next]_vars => LookupInv'
<1> SUFFICES ASSUME TypeInv, LookupInv, [Next]_vars PROVE LookupInv'
  OBVIOUS
<1> USE DEF LookupInv, LookupType
<1>1. CASE Boot \/ RefreshOwn \/ Settle \/ Stop \/ Stopped \/ EditProfile \/ Receive
  BY <1>1, LookupFrame DEF Boot, RefreshOwn, Settle, Stop, Stopped, EditProfile, Receive,
     store, clients, history
<1>2. CASE Fetch \/ ServeOne \/ Answer
  BY <1>2, LookupFrame DEF Fetch, ServeOne, Answer, history
<1>3. CASE Crash
  BY <1>3, LookupEnds DEF Crash
<1>4. CASE Worker
  <2>1. /\ lookup' = lookup \/ lookup' = [lookup EXCEPT !.known = @ \ {worker.item.rid}]
        /\ holds' = holds
    BY <1>4 DEF Worker, TakeItem, CheckItem, OpenFile, FillFile, RemoveFile, Work, history
  <2> QED BY <2>1
<1>5. ASSUME NEW refresh \in BOOLEAN, Dereference(refresh) PROVE LookupInv'
  BY <1>5 DEF Dereference, Look, LookupIdle, history
<1>6. CASE ListNodes
  <2>1. lookup' = ListedNodes /\ holds' = holds
    BY <1>6 DEF ListNodes, Look, history
  <2>2. {p \in Peers : files[p] > 0} \subseteq Peers \intersect Cached
    BY DEF Cached, Rids, Absent
  <2> QED BY <2>1, <2>2 DEF ListedNodes, Rids
<1>7. CASE ReadNode
  <2>1. PICK p \in lookup.names :
          Look(IF files[p] <= 0 THEN LookupIdle
               ELSE [lookup EXCEPT !.names = @ \ {p},
                                   !.providers = @ \union {p},
                                   !.step = IF lookup.names = {p} THEN "ask" ELSE "read"])
    BY <1>7 DEF ReadNode
  <2>2. lookup.step = "read" /\ holds' = holds
    BY <1>7, <2>1 DEF ReadNode, Looking, Look, history
  <2>3. CASE lookup' = LookupIdle
    BY <2>3, LookupEnds
  <2>4. CASE lookup' = [lookup EXCEPT !.names = @ \ {p}, !.providers = @ \union {p},
                                      !.step = IF lookup.names = {p} THEN "ask" ELSE "read"]
    <3>1. CASE lookup.names = {p}
      BY <2>2, <2>4, <3>1
    <3>2. CASE lookup.names # {p}
      BY <2>2, <2>4, <3>2
    <3> QED BY <3>1, <3>2
  <2> QED BY <2>1, <2>3, <2>4 DEF Look
<1>8. CASE AskProvider
  <2>1. PICK p \in lookup.providers : Look(LookupIdle) \/ (p \notin holds /\ Look(AskNext(p)))
    BY <1>8 DEF AskProvider
  <2>2. lookup.step = "ask" /\ holds' = holds
    BY <1>8, <2>1 DEF AskProvider, Looking, Look, history
  <2>3. CASE lookup' = LookupIdle
    BY <2>3, LookupEnds
  <2>4. CASE p \notin holds /\ lookup' = [lookup EXCEPT !.providers = @ \ {p}]
    BY <2>2, <2>4
  <2> QED BY <2>1, <2>3, <2>4 DEF Look, AskNext
<1>9. CASE Miss
  BY <1>9, LookupEnds DEF Miss, Look
<1>10. CASE UNCHANGED vars
  BY <1>10, LookupFrame DEF vars, history
<1> QED BY <1>1, <1>2, <1>3, <1>4, <1>5, <1>6, <1>7, <1>8, <1>9, <1>10 DEF Next

\* A lookup that comes back empty has asked every provider that was known all
\* along, whatever the worker wrote and deleted meanwhile.
THEOREM MissIsTrue == Spec => MissMeansNobodyHas
<1>1. Init => LookupInv
  BY LookupEnds DEF Init, LookupIdle, LookupType, LookupInv
<1>2. LookupInv /\ [Next]_vars => [Miss => lookup.known \intersect holds = {}]_vars
  BY DEF LookupInv, Miss, Looking
<1> QED BY <1>1, <1>2, LookupStep, TypeInvariant, PTL DEF Spec, MissMeansNobodyHas
=============================================================================
