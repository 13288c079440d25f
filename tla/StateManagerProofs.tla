-------------------------- MODULE StateManagerProofs --------------------------
(***************************************************************************)
(* What holds of StateManager for any number of processes, workers, items, *)
(* changes and failures: no change is forgotten, Ok means saved, and a     *)
(* write leaves alone what its process has not changed.                    *)
(***************************************************************************)
EXTENDS StateManager, FiniteSetTheorems, WellFoundedInduction, TLAPS

(* The items a process may change.                                         *)
Own(m) == UNION {Owns[w] : w \in {w \in Workers : Home[w] = m}}

Op(task, change) == [task |-> task, change |-> change]

(* The newest operation of its task.                                       *)
Latest(ops, g) == \A h \in DOMAIN ops : ops[h].task = ops[g].task => h <= g

Recorded(m, w) == Home[w] = m /\ worker[w].step = "recorded"

(* A change that a worker has made and not marked, or that was marked after *)
(* the snapshot of keys.                                                   *)
Redone(m, key) == Unmarked(m, key) \/ (key \in DOMAIN pending[m] /\ pending[m][key] # saving[m].keys[key])

-----------------------------------------------------------------------------
(* A worker has an item of its own while it is at work, and nothing in a   *)
(* process that does not run.                                              *)
WorkerInv(w) ==
    /\ worker[w].step = "idle" => worker[w] = Quiet
    /\ Home[w] \notin live => worker[w] = Quiet
    /\ worker[w].item = {} <=> worker[w].change = 0
    /\ worker[w].item = {} => worker[w].step \notin Marking
    /\ worker[w].step = "recorded" <=> worker[w].generation # 0
    /\ worker[w].item \subseteq Owns[w]
    /\ \A item \in worker[w].item :
         \/ memory[Home[w]][item] = worker[w].change
         \/ item \in Tasks /\ memory[Home[w]][item] = 0
    /\ worker[w].step = "saved" => worker[w].change \in reached

(* One process writes at a time; the locks go with the persist.            *)
LockInv ==
    /\ \A m, n \in flock : m = n
    /\ \A m \in Managers :
         /\ saving[m].by = {w \in Workers : Home[w] = m /\ worker[w].step = "persisting"}
         /\ \A v, w \in saving[m].by : v = w
         /\ saving[m].step = "none" <=> saving[m] = NotSaving
         /\ saving[m].step \notin {"none", "locking"} => m \in flock
         /\ m \notin live => pending[m] = <<>> /\ history[m] = <<>> /\ saving[m] = NotSaving
         /\ saving[m].step = "write" => saving[m].base = disk

(* Generations are used once.                                              *)
GenerationInv(m) ==
    /\ \A k \in DOMAIN pending[m] : pending[m][k] < minted[m]
    /\ \A k \in DOMAIN saving[m].keys : saving[m].keys[k] < minted[m]
    /\ \A g \in DOMAIN history[m] \cup DOMAIN saving[m].ops : g < minted[m]
    /\ \A w \in Workers : Recorded(m, w) =>
         /\ worker[w].generation < minted[m]
         /\ \A k \in DOMAIN pending[m] : pending[m][k] # worker[w].generation
         /\ \A k \in DOMAIN saving[m].keys : saving[m].keys[k] # worker[w].generation
    /\ \A v, w \in Workers : Recorded(m, v) /\ Recorded(m, w)
                               /\ worker[v].generation = worker[w].generation => v = w

(* What is pending is the process's own.                                   *)
OwnInv(m) ==
    /\ \A k \in DOMAIN pending[m] \cup DOMAIN saving[m].keys : k \in Settings => k \in Own(m)
    /\ \A g \in DOMAIN history[m] : history[m][g].task \in Own(m)

(* Operations are in the order of their changes, the newest is in memory.   *)
Ordered(m, g) ==
    LET op == history[m][g]
    IN /\ memory[m][op.task] = 0 \/ op.change <= memory[m][op.task]
       /\ \A w \in Workers : Home[w] = m /\ worker[w].item = {op.task} =>
            /\ op.change <= worker[w].change
            /\ worker[w].step = "changed" => op.change < worker[w].change
            /\ worker[w].step = "recorded" /\ worker[w].generation = g => op.change = worker[w].change
OrderInv(m) ==
    /\ \A g, h \in DOMAIN history[m] : history[m][g].task = history[m][h].task /\ g < h
                                        => history[m][g].change < history[m][h].change
    /\ \A g \in DOMAIN history[m] : Ordered(m, g)
    /\ \A w \in Workers : Recorded(m, w) /\ worker[w].generation \in DOMAIN history[m]
                            => worker[w].item = {history[m][worker[w].generation].task}

(* What no file had yet is still to be written.                            *)
Unsaved == {"recorded", "calling", "persisting"}
TaskKept(m, task) ==
    \/ memory[m][task] \in reached
    \/ \E w \in Workers : /\ Home[w] = m /\ worker[w].item = {task} /\ worker[w].step = "changed"
                          /\ worker[w].change = memory[m][task]
    \/ \E g \in DOMAIN history[m] : history[m][g] = Op(task, memory[m][task])
ItemKept(m, item) ==
    memory[m][item] \in reached \/ Unmarked(m, item) \/ item \in DOMAIN pending[m]
OperationKept(m, g) ==
    Latest(history[m], g) /\ history[m][g].change \notin reached =>
       \/ TaskHistory \in DOMAIN pending[m]
       \/ \E w \in Workers : Recorded(m, w) /\ worker[w].generation = g
WorkerKept(m, w) ==
    \A task \in Tasks : worker[w].item = {task} /\ worker[w].step \in Unsaved =>
       \/ worker[w].change \in reached
       \/ \E g \in DOMAIN history[m] : history[m][g] = Op(task, worker[w].change)
PendingInv(m) ==
    /\ m \in live => \A task \in Tasks : TaskKept(m, task)
    /\ m \in live => \A item \in Settings \cup Secrets : ItemKept(m, item)
    /\ \A g \in DOMAIN history[m] : OperationKept(m, g)
    /\ \A w \in Workers : Home[w] = m => WorkerKept(m, w)

(* The snapshots of a persist.                                             *)
Writing == {"load", "write", "clear keys", "clear ops"}
SnapshotInv(m) ==
    /\ saving[m].step \in {"ops"} \cup Writing => DOMAIN saving[m].keys \cap Secrets = {}
    /\ saving[m].step \in Writing =>
         /\ DOMAIN saving[m].keys # {}
         /\ DOMAIN saving[m].ops \subseteq DOMAIN history[m]
         /\ \A g \in DOMAIN saving[m].ops : saving[m].ops[g] = history[m][g]
         /\ \A g \in DOMAIN saving[m].ops, h \in DOMAIN history[m] \ DOMAIN saving[m].ops : g < h
    /\ saving[m].step = "write" => DOMAIN saving[m].values = DOMAIN saving[m].keys \ {TaskHistory}
    /\ saving[m].step = "store" =>
         DOMAIN saving[m].values \subseteq DOMAIN saving[m].keys /\ DOMAIN saving[m].keys \subseteq Secrets

(* What came after the snapshots is not cleared with them.                 *)
MarkedSince(m, g) ==
    \/ \E w \in Workers : Recorded(m, w) /\ worker[w].generation = g
    \/ TaskHistory \in DOMAIN pending[m] /\ pending[m][TaskHistory] # saving[m].keys[TaskHistory]
ClearInv(m) ==
    /\ saving[m].step \in {"load", "write", "clear keys"} /\ TaskHistory \in DOMAIN saving[m].keys =>
         \A g \in DOMAIN history[m] \ DOMAIN saving[m].ops : MarkedSince(m, g)
    /\ saving[m].step \in {"clear keys", "clear ops"} =>
         \A g \in DOMAIN saving[m].ops : Latest(saving[m].ops, g) => saving[m].ops[g].change \in reached
    /\ saving[m].step = "write" =>
         \A k \in DOMAIN saving[m].keys \cap Settings :
            saving[m].values[k] = memory[m][k] \/ Redone(m, k)
    /\ saving[m].step = "clear keys" =>
         \A k \in DOMAIN saving[m].keys \cap Settings : memory[m][k] \in reached \/ Redone(m, k)
    /\ saving[m].step = "store" =>
         \A k \in DOMAIN saving[m].values : memory[m][k] \in reached \/ Redone(m, k)

(* What the caller of a persist waits for is taken along.                  *)
TakenAlong(m, item, change) ==
    /\ item \in Settings =>
         /\ saving[m].step \in {"ops", "load", "write"} => item \in DOMAIN saving[m].keys
         /\ saving[m].step = "write" => saving[m].values[item] = change
         /\ saving[m].step \notin {"clear keys", "clear ops", "secrets", "store"}
    /\ item \in Secrets =>
         (saving[m].step = "store" => item \in DOMAIN saving[m].keys \ DOMAIN saving[m].values)
    /\ item \in Tasks =>
         /\ saving[m].step \in {"ops", "load", "write"} => TaskHistory \in DOMAIN saving[m].keys
         /\ saving[m].step \in {"load", "write"} =>
              \E g \in DOMAIN saving[m].ops : saving[m].ops[g] = Op(item, change) /\ Latest(saving[m].ops, g)
         /\ saving[m].step \notin {"clear keys", "clear ops", "secrets", "store"}
CallerInv(m) ==
    \A w \in saving[m].by : worker[w].change \notin reached =>
      \A item \in worker[w].item : TakenAlong(m, item, worker[w].change)

-----------------------------------------------------------------------------
(* Where a change is, in a process or in the files.                         *)
StoredBy(m, item, change) ==
    \/ memory[m][item] = change
    \/ \E g \in DOMAIN history[m] : history[m][g] = Op(item, change)
    \/ \E g \in DOMAIN saving[m].ops : saving[m].ops[g] = Op(item, change)
    \/ item \in DOMAIN saving[m].values /\ saving[m].values[item] = change
Stored(item, change) ==
    \/ disk[item] = change
    \/ \E m \in Managers : StoredBy(m, item, change)
    \/ \E w \in Workers : worker[w].item = {item} /\ worker[w].change = change

(* No two items have the same change, and none is from the future.          *)
OneItem == \A i, j \in Items : \A c \in Changes \ {0} : Stored(i, c) /\ Stored(j, c) => i = j
AllMade == \A i \in Items : \A c \in Changes : Stored(i, c) => c <= now

(* A process mints one generation for each change, after making it.        *)
Making(m) == {w \in Workers : Home[w] = m /\ worker[w].step = "changed"}
CountInv == \A m \in Managers : IsFiniteSet(Making(m)) /\ minted[m] + Cardinality(Making(m)) <= now + 1

(* What a file has was written once.                                       *)
FilesReached == 0 \in reached /\ \A item \in Items : disk[item] \in reached

(* What is known of one process.                                           *)
LocalInv(m) == GenerationInv(m) /\ OwnInv(m) /\ OrderInv(m) /\ PendingInv(m)
                 /\ SnapshotInv(m) /\ ClearInv(m) /\ CallerInv(m)

-----------------------------------------------------------------------------
(* Types.                                                                  *)
Map(D, R) == UNION {[S -> R] : S \in SUBSET D}
Marks     == Map(Markers, Nat \ {0})
Ops       == Map(Nat \ {0}, [task : Tasks, change : Changes \ {0}])
Values    == Map(Settings \cup Secrets, Changes)
SaveSteps == {"none", "locking", "keys", "ops", "load", "write", "clear keys", "clear ops", "secrets", "store"}
WorkSteps == {"idle", "changed", "recorded", "calling", "persisting", "saved"}
SavingType == [step : SaveSteps, by : SUBSET Workers, keys : Marks, ops : Ops, values : Values,
               base : {<<>>} \cup [Items -> Changes]]
WorkerType == [step : WorkSteps, item : {{}} \cup {{item} : item \in Items}, change : Changes, generation : Nat]

CountersOK == now \in Changes /\ faults \in 0 .. MaxFaults /\ minted \in [Managers -> Nat \ {0}]
FilesOK    == disk \in [Items -> Changes] /\ memory \in [Managers -> [Items -> Changes]] /\ reached \subseteq Changes
ProcessOK  == live \subseteq Managers /\ flock \subseteq live
PendingOK  == pending \in [Managers -> Marks] /\ history \in [Managers -> Ops]
PersistOK  == worker \in [Workers -> WorkerType] /\ saving \in [Managers -> SavingType]
Types == CountersOK /\ FilesOK /\ ProcessOK /\ PendingOK /\ PersistOK

Inv == Types /\ (\A w \in Workers : WorkerInv(w)) /\ LockInv /\ FilesReached
         /\ (\A m \in Managers : LocalInv(m)) /\ OneItem /\ AllMade /\ CountInv

(* A partial function has its domain and its values in place.               *)
LEMMA MapType ==
    ASSUME NEW D, NEW R, NEW f
    PROVE  f \in Map(D, R) <=> DOMAIN f \subseteq D /\ f \in [DOMAIN f -> R]
BY DEF Map

(* The empty map has no key and is a map of any kind; the maps of pending   *)
(* keys and operations start so.                                            *)
LEMMA EmptyMap ==
    /\ DOMAIN <<>> = {}
    /\ \A D, R : <<>> \in Map(D, R)
    /\ \A D, R : \A f \in Map(D, R) : DOMAIN f = {} <=> f = <<>>
<1>1. DOMAIN <<>> = {}
  OBVIOUS
<1>2. \A f, R : f \in [{} -> R] => f = <<>>
  OBVIOUS
<1>3. \A R : <<>> \in [{} -> R]
  OBVIOUS
<1> QED BY <1>1, <1>2, <1>3, MapType

(* A process with no pending key has the empty map of marks.                *)
LEMMA EmptyMarks == <<>> \in Marks /\ \A f \in Marks : DOMAIN f = {} <=> f = <<>>
BY EmptyMap DEF Marks

(* What persist takes of a map as its snapshot is a map again, with the     *)
(* values it had.                                                           *)
LEMMA RestrictType ==
    ASSUME NEW D, NEW R, NEW S, NEW f, S \subseteq D, \A x \in S : f[x] \in R
    PROVE  Restrict(f, S) \in Map(D, R) /\ DOMAIN Restrict(f, S) = S /\ \A x \in S : Restrict(f, S)[x] = f[x]
BY MapType DEF Restrict

(* What clearing leaves of a map is a map again, with the values it had.    *)
LEMMA WithoutType ==
    ASSUME NEW D, NEW R, NEW f \in Map(D, R), NEW gone
    PROVE  /\ Without(f, gone) \in Map(D, R)
           /\ DOMAIN Without(f, gone) = DOMAIN f \ gone
           /\ \A x \in DOMAIN f \ gone : Without(f, gone)[x] = f[x]
BY MapType DEF Without

(* A map with one more key is a map of its kind (HashMap::insert).          *)
LEMMA WithType ==
    ASSUME NEW D, NEW R, NEW f \in Map(D, R), NEW x \in D, NEW value \in R
    PROVE  With(f, x, value) \in Map(D, R)
BY MapType DEF With

(* A history with one more operation (record_history_operation).            *)
LEMMA WithOps ==
    ASSUME NEW f \in Ops, NEW x \in Nat \ {0}, NEW value \in [task : Tasks, change : Changes \ {0}]
    PROVE  With(f, x, value) \in Ops
<1> DEFINE R == [task : Tasks, change : Changes \ {0}]
<1>1. Ops = Map(Nat \ {0}, R)
  BY DEF Ops
<1> HIDE DEF R
<1>2. x \in Nat \ {0} /\ value \in R
  BY DEF R
<1> QED BY <1>1, <1>2, WithType

(* Pending keys with one more mark (mark_global_key_pending_at).            *)
LEMMA WithMarks ==
    ASSUME NEW f \in Marks, NEW x \in Markers, NEW value \in Nat \ {0}
    PROVE  With(f, x, value) \in Marks
BY WithType DEF Marks

(* Stored secrets with one more (persist_secrets).                          *)
LEMMA WithValues ==
    ASSUME NEW f \in Values, NEW x \in Settings \cup Secrets, NEW value \in Changes
    PROVE  With(f, x, value) \in Values
BY WithType DEF Values

(* The limit takes tasks away and changes nothing else                      *)
(* (enforce_task_history_limit).                                            *)
LEMMA NewestType ==
    ASSUME NEW state \in [Items -> Changes]
    PROVE  /\ Newest(state) \in [Items -> Changes]
           /\ \A item \in Items : \/ Newest(state)[item] = state[item]
                                  \/ item \in Tasks /\ Newest(state)[item] = 0
<1> USE ParametersAssumption
<1> QED BY DEF Newest, Changes

-----------------------------------------------------------------------------
(* What each step does to the process that takes it.                       *)
Others(w)  == \A v \in Workers \ {w} : worker'[v] = worker[v]
AllStay(m) == \A w \in Workers : Home[w] = m => worker'[w] = worker[w]

Same(m) ==
    /\ memory'[m] = memory[m] /\ pending'[m] = pending[m] /\ history'[m] = history[m]
    /\ minted'[m] = minted[m] /\ saving'[m] = saving[m]
    /\ m \in live' <=> m \in live
    /\ AllStay(m)

ChangesItem(m, w, item) ==
    /\ Home[w] = m /\ m \in live /\ live' = live /\ worker[w].step = "idle" /\ item \in Owns[w]
    /\ item \in Secrets => ~ Storing(m)
    /\ now' = now + 1
    /\ memory'[m] = Newest([memory[m] EXCEPT ![item] = now + 1])
    /\ \A i \in Items : \/ memory'[m][i] = IF i = item THEN now + 1 ELSE memory[m][i]
                        \/ i \in Tasks /\ memory'[m][i] = 0
    /\ worker'[w] = [step |-> "changed", item |-> {item}, change |-> now + 1, generation |-> 0]
    /\ Others(w)
    /\ UNCHANGED <<pending[m], history[m], minted[m], saving[m]>>

Records(m, w, item) ==
    /\ Home[w] = m /\ m \in live /\ live' = live /\ worker[w].step = "changed" /\ worker[w].item = {item}
    /\ minted'[m] = minted[m] + 1
    /\ worker'[w].step = "recorded" /\ worker'[w].generation = minted[m]
    /\ worker'[w].item = {item} /\ worker'[w].change = worker[w].change
    /\ Others(w)
    /\ item \in Tasks =>
         /\ DOMAIN history'[m] = DOMAIN history[m] \cup {minted[m]}
         /\ history'[m][minted[m]] = Op(item, worker[w].change)
         /\ \A g \in DOMAIN history[m] \ {minted[m]} : history'[m][g] = history[m][g]
    /\ item \notin Tasks => history'[m] = history[m]
    /\ UNCHANGED <<memory[m], pending[m], saving[m]>>

MarksItem(m, w, item) ==
    /\ Home[w] = m /\ m \in live /\ live' = live /\ worker[w].step = "recorded" /\ worker[w].item = {item}
    /\ DOMAIN pending'[m] = DOMAIN pending[m] \cup {Marker(item)}
    /\ pending'[m][Marker(item)] = worker[w].generation
    /\ \A k \in DOMAIN pending[m] \ {Marker(item)} : pending'[m][k] = pending[m][k]
    /\ worker'[w].step = "calling" /\ worker'[w].generation = 0
    /\ worker'[w].item = {item} /\ worker'[w].change = worker[w].change
    /\ Others(w)
    /\ UNCHANGED <<memory[m], history[m], minted[m], saving[m]>>

(* Steps of a worker around its persist.                                   *)
Moves(m, w) ==
    /\ Home[w] = m /\ m \in live /\ live' = live /\ Others(w)
    /\ UNCHANGED <<memory[m], pending[m], history[m], minted[m]>>
    /\ \/ /\ worker[w].step = "idle" /\ saving'[m] = saving[m]
          /\ worker'[w].step = "calling" /\ worker'[w].item = worker[w].item
          /\ worker'[w].change = worker[w].change /\ worker'[w].generation = worker[w].generation
       \/ /\ worker[w].step = "calling" /\ saving[m] = NotSaving
          /\ worker'[w].step = "persisting" /\ worker'[w].item = worker[w].item
          /\ worker'[w].change = worker[w].change /\ worker'[w].generation = worker[w].generation
          /\ saving'[m] = [NotSaving EXCEPT !.step = "locking", !.by = {w}]
       \/ /\ worker[w].step = "persisting" /\ worker'[w] = Quiet
          /\ saving'[m] = [saving[m] EXCEPT !.by = {}]
       \/ worker[w].step = "saved" /\ worker'[w] = Quiet /\ saving'[m] = saving[m]

(* Steps of a persist.                                                     *)
Persists(m, from, to) ==
    /\ m \in live /\ live' = live /\ saving[m].step = from
    /\ saving'[m].step = to /\ saving'[m].by = saving[m].by
    /\ AllStay(m) /\ UNCHANGED <<memory[m], minted[m]>>
Snapshots(m) == UNCHANGED <<saving[m].keys, saving[m].ops, saving[m].values>>
Forgets(m, keys) ==
    /\ DOMAIN pending'[m] = {k \in DOMAIN pending[m] : k \in DOMAIN keys => pending[m][k] # keys[k]}
    /\ \A k \in DOMAIN pending'[m] : pending'[m][k] = pending[m][k]

TakesDisk(m) ==
    /\ Persists(m, "locking", "keys") /\ Snapshots(m) /\ UNCHANGED <<pending[m], history[m]>>

TakesKeys(m) ==
    /\ Persists(m, "keys", "ops") /\ UNCHANGED <<pending[m], history[m]>>
    /\ DOMAIN saving'[m].keys = DOMAIN pending[m] \ Secrets
    /\ \A k \in DOMAIN saving'[m].keys : saving'[m].keys[k] = pending[m][k]
    /\ UNCHANGED <<saving[m].ops, saving[m].values>>

TakesOps(m) ==
    /\ Persists(m, "ops", IF DOMAIN saving[m].keys = {} THEN "secrets" ELSE "load")
    /\ saving'[m].ops = history[m]
    /\ UNCHANGED <<pending[m], history[m], saving[m].keys, saving[m].values>>

Loads(m) ==
    /\ Persists(m, "load", "write") /\ UNCHANGED <<pending[m], history[m], saving[m].keys, saving[m].ops>>
    /\ DOMAIN saving'[m].values = DOMAIN saving[m].keys \ {TaskHistory}
    /\ \A k \in DOMAIN saving'[m].values : saving'[m].values[k] = memory[m][k]
    /\ saving'[m].base = disk

Writes(m) ==
    /\ Persists(m, "write", "clear keys") /\ Snapshots(m) /\ UNCHANGED <<pending[m], history[m]>>
    /\ disk' = Newest(Merged(saving[m]))
    /\ reached' = reached \cup Range(Merged(saving[m]))

ClearsKeys(m) ==
    /\ Persists(m, "clear keys", "clear ops") /\ Snapshots(m) /\ history'[m] = history[m]
    /\ Forgets(m, saving[m].keys)

ClearsOps(m) ==
    /\ Persists(m, "clear ops", "secrets") /\ pending'[m] = pending[m]
    /\ DOMAIN history'[m] = DOMAIN history[m] \ DOMAIN saving[m].ops
    /\ \A g \in DOMAIN history'[m] : history'[m][g] = history[m][g]
    /\ saving'[m].keys = <<>> /\ saving'[m].ops = <<>> /\ saving'[m].values = <<>>

TakesSecrets(m) ==
    /\ Persists(m, "secrets", "store") /\ UNCHANGED <<pending[m], history[m]>>
    /\ DOMAIN saving'[m].keys = DOMAIN pending[m] \cap Secrets
    /\ \A k \in DOMAIN saving'[m].keys : saving'[m].keys[k] = pending[m][k]
    /\ saving'[m].ops = <<>> /\ saving'[m].values = <<>>

Stores(m, key) ==
    /\ Persists(m, "store", "store") /\ UNCHANGED <<pending[m], history[m], saving[m].keys, saving[m].ops>>
    /\ key \in Secrets /\ key \in DOMAIN saving[m].keys \ DOMAIN saving[m].values
    /\ disk' = [disk EXCEPT ![key] = memory[m][key]]
    /\ reached' = reached \cup {memory[m][key]}
    /\ DOMAIN saving'[m].values = DOMAIN saving[m].values \cup {key}
    /\ saving'[m].values[key] = memory[m][key]
    /\ \A k \in DOMAIN saving[m].values : saving'[m].values[k] = saving[m].values[k]

Ends(m, answer) ==
    /\ m \in live /\ live' = live /\ saving'[m] = NotSaving
    /\ UNCHANGED <<memory[m], minted[m], history[m]>>
    /\ \A w \in Workers : IF w \notin saving[m].by THEN worker'[w] = worker[w]
         ELSE IF answer = "failed" THEN worker'[w] = Quiet
         ELSE /\ worker'[w].step = "saved" /\ worker'[w].item = worker[w].item
              /\ worker'[w].change = worker[w].change /\ worker'[w].generation = worker[w].generation
    /\ \/ answer = "failed" /\ pending'[m] = pending[m]
          /\ saving[m].step \in {"locking", "load", "write", "store"}
       \/ /\ answer = "ok" /\ saving[m].step = "secrets"
          /\ DOMAIN pending[m] \cap Secrets = {} /\ pending'[m] = pending[m]
       \/ /\ answer = "ok" /\ saving[m].step = "store"
          /\ DOMAIN saving[m].values = DOMAIN saving[m].keys
          /\ Forgets(m, saving[m].keys)

Crashes(m) ==
    /\ m \in live /\ live' = live \ {m} /\ UNCHANGED <<memory[m], minted[m]>>
    /\ saving'[m] = NotSaving /\ pending'[m] = <<>> /\ history'[m] = <<>>
    /\ \A w \in Workers : worker'[w] = IF Home[w] = m THEN Quiet ELSE worker[w]

Starts(m) ==
    /\ m \notin live /\ live' = live \cup {m} /\ flock = {}
    /\ memory'[m] = Newest(disk) /\ minted'[m] = 1
    /\ UNCHANGED <<pending[m], history[m], saving[m]>> /\ AllStay(m)

Calls(m) ==
    \E w \in Workers : (\E item \in Items : Records(m, w, item) \/ MarksItem(m, w, item)) \/ Moves(m, w)
Takes(m) ==
    TakesKeys(m) \/ TakesOps(m) \/ Loads(m) \/ ClearsKeys(m) \/ ClearsOps(m) \/ TakesSecrets(m)

(* The step of a process, with what it does to what all of them share.     *)
ProcessStep(m) ==
    \/ (\E w \in Workers, item \in Items : ChangesItem(m, w, item)) /\ UNCHANGED <<disk, reached, flock>>
    \/ (Calls(m) \/ Takes(m) \/ Starts(m)) /\ UNCHANGED <<now, disk, reached, flock>>
    \/ TakesDisk(m) /\ flock = {} /\ flock' = {m} /\ UNCHANGED <<now, disk, reached>>
    \/ (Writes(m) \/ \E key \in Secrets : Stores(m, key)) /\ UNCHANGED <<now, flock>>
    \/ (Ends(m, "ok") \/ Ends(m, "failed") \/ Crashes(m)) /\ flock' = flock \ {m} /\ UNCHANGED <<now, disk, reached>>

OneStep ==
    \/ (\A m \in Managers : Same(m)) /\ UNCHANGED <<now, disk, reached, flock>>
    \/ \E m \in Managers : ProcessStep(m) /\ \A n \in Managers \ {m} : Same(n)

(* What a worker and a persist are before they begin have their types.      *)
LEMMA QuietType == Quiet \in WorkerType /\ NotSaving \in SavingType
BY ParametersAssumption, EmptyMap DEF Quiet, NotSaving, WorkerType, WorkSteps, SavingType, SaveSteps, Changes, Marks, Ops, Values

(* A worker is a process's and changes items.                               *)
LEMMA HomeType == \A w \in Workers : Home[w] \in Managers /\ Owns[w] \subseteq Items
BY ParametersAssumption

(* A worker moves.                                                         *)
LEMMA ChangeEffect ==
    ASSUME Types, NEW w \in Workers, NEW item \in Items, Change(w, item)
    PROVE  Types' /\ ChangesItem(Home[w], w, item) /\ \A n \in Managers \ {Home[w]} : Same(n)
<1> DEFINE m == Home[w]
           set == [memory[m] EXCEPT ![item] = now + 1]
<1>0. m \in Managers /\ now + 1 \in Changes /\ now' = now + 1
  BY HomeType, ParametersAssumption DEF Change, Types, CountersOK, Changes
<1>1. memory \in [Managers -> [Items -> Changes]] /\ set \in [Items -> Changes]
  BY <1>0 DEF Types, FilesOK
<1>2. memory' = [memory EXCEPT ![m] = Newest(set)]
  BY <1>0, <1>1 DEF Change
<1>3. Newest(set) \in [Items -> Changes]
      /\ \A i \in Items : Newest(set)[i] = set[i] \/ (i \in Tasks /\ Newest(set)[i] = 0)
  BY <1>1, NewestType
<1>4. memory'[m] = Newest(set) /\ memory' \in [Managers -> [Items -> Changes]]
      /\ \A n \in Managers \ {m} : memory'[n] = memory[n]
  BY <1>0, <1>1, <1>2, <1>3
<1>5. \A i \in Items : set[i] = IF i = item THEN now + 1 ELSE memory[m][i]
  BY <1>0, <1>1
<1> HIDE DEF set
<1>6. worker' \in [Workers -> WorkerType] /\ Others(w)
      /\ worker'[w] = [step |-> "changed", item |-> {item}, change |-> now + 1, generation |-> 0]
  BY <1>0 DEF Change, Types, PersistOK, WorkerType, WorkSteps, Others
<1>7. Types'
  BY <1>0, <1>4, <1>6 DEF Change, Types, CountersOK, FilesOK, ProcessOK, PendingOK, PersistOK
<1>8. ChangesItem(m, w, item)
  BY <1>0, <1>3, <1>4, <1>5, <1>6 DEF Change, ChangesItem, At, set
<1>9. \A n \in Managers \ {m} : Same(n)
  BY <1>4, <1>6 DEF Change, Same, AllStay, Others
<1> QED BY <1>7, <1>8, <1>9

(* Record mints a generation and, of a task, adds the operation             *)
(* (record_history_operation).                                              *)
LEMMA RecordEffect ==
    ASSUME Types, NEW w \in Workers, WorkerInv(w), Record(w)
    PROVE  /\ Types'
           /\ \E item \in Items : Records(Home[w], w, item)
           /\ \A n \in Managers \ {Home[w]} : Same(n)
<1> DEFINE m == Home[w]
<1>0. m \in Managers /\ worker[w] \in WorkerType /\ worker[w].step = "changed" /\ m \in live
  BY HomeType DEF Record, At, Types, PersistOK
<1>1. PICK item \in Items : worker[w].item = {item}
  BY <1>0 DEF WorkerInv, WorkerType, Marking
<1>2. ItemOf(w) = item
  BY <1>1 DEF ItemOf
<1>3. minted \in [Managers -> Nat \ {0}] /\ history \in [Managers -> Ops] /\ worker[w].change \in Changes
  BY <1>0 DEF Types, CountersOK, PendingOK, WorkerType
<1>4. minted' = [minted EXCEPT ![m] = @ + 1]
      /\ worker' = [worker EXCEPT ![w].generation = minted[m], ![w].step = "recorded"]
      /\ history' = IF item \in Tasks
                    THEN [history EXCEPT ![m] = With(@, minted[m], Op(item, worker[w].change))] ELSE history
  BY <1>2 DEF Record, Op
<1>5. minted' \in [Managers -> Nat \ {0}] /\ minted'[m] = minted[m] + 1
      /\ \A n \in Managers \ {m} : minted'[n] = minted[n]
  BY <1>0, <1>3, <1>4
<1>6. /\ worker'[w].step = "recorded" /\ worker'[w].generation = minted[m]
      /\ worker'[w].item = {item} /\ worker'[w].change = worker[w].change
      /\ Others(w) /\ worker' \in [Workers -> WorkerType]
  BY <1>0, <1>1, <1>3, <1>4 DEF Types, PersistOK, Others, WorkerType, WorkSteps
<1>7. item \in Tasks =>
         /\ history' \in [Managers -> Ops]
         /\ DOMAIN history'[m] = DOMAIN history[m] \cup {minted[m]}
         /\ history'[m][minted[m]] = Op(item, worker[w].change)
         /\ \A g \in DOMAIN history[m] \ {minted[m]} : history'[m][g] = history[m][g]
         /\ \A n \in Managers \ {m} : history'[n] = history[n]
  <2> SUFFICES ASSUME item \in Tasks PROVE
         /\ history' \in [Managers -> Ops]
         /\ DOMAIN history'[m] = DOMAIN history[m] \cup {minted[m]}
         /\ history'[m][minted[m]] = Op(item, worker[w].change)
         /\ \A g \in DOMAIN history[m] \ {minted[m]} : history'[m][g] = history[m][g]
         /\ \A n \in Managers \ {m} : history'[n] = history[n]
    OBVIOUS
  <2>1. Op(item, worker[w].change) \in [task : Tasks, change : Changes \ {0}] /\ minted[m] \in Nat \ {0}
    BY <1>0, <1>1, <1>3 DEF Op, WorkerInv
  <2> DEFINE new == With(history[m], minted[m], Op(item, worker[w].change))
  <2>2. /\ new \in Ops /\ DOMAIN new = DOMAIN history[m] \cup {minted[m]}
        /\ new[minted[m]] = Op(item, worker[w].change)
        /\ \A g \in DOMAIN history[m] \ {minted[m]} : new[g] = history[m][g]
    <3>1. history[m] \in Ops
      BY <1>0, <1>3
    <3>2. new \in Ops
      BY <2>1, <3>1, WithOps
    <3> QED BY <3>2 DEF With
  <2> HIDE DEF new
  <2>3. history' = [history EXCEPT ![m] = new]
    BY <1>4, <1>0, <1>3 DEF new
  <2> QED BY <1>0, <1>3, <2>2, <2>3
<1>8. item \notin Tasks => history' = history
  BY <1>4
<1>9. Types'
  BY <1>3, <1>5, <1>6, <1>7, <1>8 DEF Record, Types, CountersOK, FilesOK, ProcessOK, PendingOK, PersistOK
<1>10. Records(m, w, item)
  BY <1>0, <1>1, <1>5, <1>6, <1>7, <1>8 DEF Record, Records
<1>11. \A n \in Managers \ {m} : Same(n)
  BY <1>5, <1>6, <1>7, <1>8 DEF Record, Same, AllStay, Others
<1> QED BY <1>9, <1>10, <1>11

(* Mark puts the item's marker under the worker's generation                *)
(* (mark_global_key_pending_at).                                            *)
LEMMA MarkEffect ==
    ASSUME Types, NEW w \in Workers, WorkerInv(w), Mark(w)
    PROVE  /\ Types'
           /\ \E item \in Items : MarksItem(Home[w], w, item)
           /\ \A n \in Managers \ {Home[w]} : Same(n)
<1> DEFINE m == Home[w]
<1>0. m \in Managers /\ worker[w] \in WorkerType /\ worker[w].step = "recorded" /\ m \in live
  BY HomeType DEF Mark, At, Types, PersistOK
<1>1. PICK item \in Items : worker[w].item = {item}
  BY <1>0 DEF WorkerInv, WorkerType, Marking
<1>2. ItemOf(w) = item
  BY <1>1 DEF ItemOf
<1>3. pending \in [Managers -> Marks] /\ worker[w].generation \in Nat \ {0} /\ Marker(item) \in Markers
  BY <1>0 DEF Types, PendingOK, WorkerType, Marker, Markers, Items, WorkerInv
<1> DEFINE new == With(pending[m], Marker(item), worker[w].generation)
<1>4. /\ new \in Marks /\ DOMAIN new = DOMAIN pending[m] \cup {Marker(item)}
      /\ new[Marker(item)] = worker[w].generation
      /\ \A k \in DOMAIN pending[m] \ {Marker(item)} : new[k] = pending[m][k]
  <2>1. pending[m] \in Marks
    BY <1>0, <1>3
  <2>2. new \in Marks
    BY <1>3, <2>1, WithMarks
  <2> QED BY <2>2 DEF With
<1>5. pending' = [pending EXCEPT ![m] = new]
  BY <1>0, <1>2, <1>3 DEF Mark
<1> HIDE DEF new
<1>6. /\ pending' \in [Managers -> Marks] /\ pending'[m] = new
      /\ \A n \in Managers \ {m} : pending'[n] = pending[n]
  BY <1>0, <1>3, <1>4, <1>5
<1>7. /\ worker'[w].step = "calling" /\ worker'[w].generation = 0
      /\ worker'[w].item = {item} /\ worker'[w].change = worker[w].change
      /\ Others(w) /\ worker' \in [Workers -> WorkerType]
  BY <1>0, <1>1 DEF Mark, Types, PersistOK, Others, WorkerType, WorkSteps
<1>8. Types'
  BY <1>6, <1>7 DEF Mark, Types, CountersOK, FilesOK, ProcessOK, PendingOK, PersistOK
<1>9. MarksItem(m, w, item)
  BY <1>0, <1>1, <1>4, <1>6, <1>7 DEF Mark, MarksItem
<1>10. \A n \in Managers \ {m} : Same(n)
  BY <1>6, <1>7 DEF Mark, Same, AllStay, Others
<1> QED BY <1>8, <1>9, <1>10

(* A worker asks for a persist, takes its lock, is dropped while it waits,  *)
(* or hears Ok, and no more.                                                *)
LEMMA MoveEffect ==
    ASSUME Types, NEW w \in Workers, JustPersist(w) \/ TakeOwnLock(w) \/ Abandon(w) \/ Return(w)
    PROVE  Types' /\ Moves(Home[w], w) /\ \A n \in Managers \ {Home[w]} : Same(n)
<1> DEFINE m == Home[w]
<1>0. m \in Managers /\ worker[w] \in WorkerType /\ saving[m] \in SavingType
      /\ worker \in [Workers -> WorkerType] /\ saving \in [Managers -> SavingType]
  BY HomeType DEF Types, PersistOK
<1>1. CASE JustPersist(w) \/ Return(w)
  <2>1. worker' \in [Workers -> WorkerType] /\ Others(w)
    BY <1>0, <1>1, QuietType DEF JustPersist, Return, Goes, Others, WorkerType, WorkSteps
  <2>2. saving' = saving /\ m \in live /\ UNCHANGED <<memory, pending, history, minted, live>>
    BY <1>1 DEF JustPersist, Return, Unmoved, At
  <2>3. Types'
    BY <1>1, <2>1 DEF JustPersist, Return, Unmoved, Types, CountersOK, FilesOK, ProcessOK, PendingOK, PersistOK
  <2>4. Moves(m, w)
    BY <1>0, <1>1, <2>1, <2>2 DEF JustPersist, Return, Goes, At, Moves, WorkerType
  <2> QED BY <2>1, <2>2, <2>3, <2>4 DEF Same, AllStay, Others
<1>2. CASE TakeOwnLock(w)
  <2>1. worker' \in [Workers -> WorkerType] /\ Others(w)
    BY <1>0, <1>2 DEF TakeOwnLock, Goes, Others, WorkerType, WorkSteps
  <2>2. saving'[m] = [NotSaving EXCEPT !.step = "locking", !.by = {w}]
    BY <1>0, <1>2 DEF TakeOwnLock
  <2>3. saving'[m] \in SavingType
    <3>1. {w} \in SUBSET Workers /\ "locking" \in SaveSteps
      BY DEF SaveSteps
    <3> QED BY <2>2, <3>1, QuietType DEF SavingType
  <2>4. saving' \in [Managers -> SavingType] /\ \A n \in Managers \ {m} : saving'[n] = saving[n]
    BY <1>0, <1>2, <2>3 DEF TakeOwnLock
  <2>5. Types'
    BY <1>2, <2>1, <2>4 DEF TakeOwnLock, Unmoved, Types, CountersOK, FilesOK, ProcessOK, PendingOK, PersistOK
  <2>6. Moves(m, w)
    BY <1>0, <1>2, <2>1, <2>2 DEF TakeOwnLock, Goes, At, Unmoved, Moves, WorkerType
  <2> QED BY <1>2, <2>1, <2>4, <2>5, <2>6 DEF TakeOwnLock, Unmoved, Same, AllStay, Others
<1>3. CASE Abandon(w)
  <2>1. worker' \in [Workers -> WorkerType] /\ Others(w) /\ worker'[w] = Quiet
    BY <1>0, <1>3, QuietType DEF Abandon, Others
  <2>2. saving'[m] = [saving[m] EXCEPT !.by = {}]
    BY <1>0, <1>3 DEF Abandon
  <2>3. saving'[m] \in SavingType
    BY <1>0, <2>2 DEF SavingType
  <2>4. saving' \in [Managers -> SavingType] /\ \A n \in Managers \ {m} : saving'[n] = saving[n]
    BY <1>0, <1>3, <2>3 DEF Abandon
  <2>5. Types'
    BY <1>3, <2>1, <2>4 DEF Abandon, Unmoved, Types, CountersOK, FilesOK, ProcessOK, PendingOK, PersistOK
  <2>6. Moves(m, w)
    BY <1>0, <1>3, <2>1, <2>2 DEF Abandon, At, Unmoved, Moves, WorkerType
  <2> QED BY <1>3, <2>1, <2>4, <2>5, <2>6 DEF Abandon, Unmoved, Same, AllStay, Others
<1> QED BY <1>1, <1>2, <1>3

(* A persist takes a step.                                                 *)
LEMMA SavingUpdate ==
    ASSUME Types, NEW m \in Managers, NEW r \in SavingType, saving' = [saving EXCEPT ![m] = r]
    PROVE  /\ saving' \in [Managers -> SavingType] /\ saving'[m] = r
           /\ \A n \in Managers \ {m} : saving'[n] = saving[n]
BY DEF Types, PersistOK

(* The types of one process's variables.                                    *)
LEMMA RecordOf ==
    ASSUME Types, NEW m \in Managers
    PROVE  /\ saving[m] \in SavingType /\ pending[m] \in Marks /\ history[m] \in Ops /\ memory[m] \in [Items -> Changes]
           /\ saving[m].keys \in Marks /\ saving[m].ops \in Ops /\ saving[m].values \in Values
           /\ saving[m].by \subseteq Workers
BY DEF Types, PersistOK, PendingOK, FilesOK, SavingType

(* A mark is of a known key and has a generation.                           *)
LEMMA MarksOf ==
    ASSUME NEW f \in Marks
    PROVE  DOMAIN f \subseteq Markers /\ f \in [DOMAIN f -> Nat \ {0}] /\ \A k \in DOMAIN f : f[k] \in Nat \ {0}
BY MapType DEF Marks

(* A snapshot of values is of settings and secrets.                         *)
LEMMA ValuesOf ==
    ASSUME NEW f \in Values
    PROVE  DOMAIN f \subseteq Settings \cup Secrets /\ f \in [DOMAIN f -> Changes] /\ \A k \in DOMAIN f : f[k] \in Changes
BY MapType DEF Values

(* An operation has a generation and brings a change of a task.             *)
LEMMA OpsOf ==
    ASSUME NEW f \in Ops
    PROVE  /\ DOMAIN f \subseteq Nat /\ 0 \notin DOMAIN f
           /\ \A g \in DOMAIN f : /\ f[g].task \in Tasks /\ f[g].change \in Changes \ {0}
                                  /\ f[g] = Op(f[g].task, f[g].change)
<1>1. DOMAIN f \subseteq Nat \ {0} /\ f \in [DOMAIN f -> [task : Tasks, change : Changes \ {0}]]
  BY MapType DEF Ops
<1> QED BY <1>1 DEF Op

(* The snapshot of the pending keys are marks.                              *)
LEMMA RestrictMarks ==
    ASSUME NEW f \in Marks, NEW S, S \subseteq DOMAIN f
    PROVE  Restrict(f, S) \in Marks
<1>1. S \subseteq Markers /\ \A k \in S : f[k] \in Nat \ {0}
  BY MarksOf
<1> QED BY <1>1, RestrictType DEF Marks

(* What is left of marks are marks.                                         *)
LEMMA WithoutMarks ==
    ASSUME NEW f \in Marks, NEW gone
    PROVE  Without(f, gone) \in Marks
BY WithoutType DEF Marks

(* What is left of operations are operations.                               *)
LEMMA WithoutOps ==
    ASSUME NEW f \in Ops, NEW gone
    PROVE  Without(f, gone) \in Ops
<1> DEFINE R == [task : Tasks, change : Changes \ {0}]
<1>1. Ops = Map(Nat \ {0}, R)
  BY DEF Ops
<1> HIDE DEF R
<1> QED BY <1>1, WithoutType

(* The steps of persist up to the file that is read change its record       *)
(* alone, each to what its name says.                                       *)
LEMMA KeysEffect ==
    ASSUME Types, NEW m \in Managers,
           TakeDiskLock(m) \/ SnapshotKeys(m) \/ SnapshotOps(m) \/ Load(m)
    PROVE  /\ Types'
           /\ TakesDisk(m) \/ TakesKeys(m) \/ TakesOps(m) \/ Loads(m)
           /\ \A n \in Managers \ {m} : Same(n)
<1>0. /\ saving \in [Managers -> SavingType] /\ saving[m] \in SavingType /\ pending[m] \in Marks /\ history[m] \in Ops
      /\ memory[m] \in [Items -> Changes] /\ saving[m].keys \in Marks /\ m \in live
  BY RecordOf DEF Types, PersistOK, TakeDiskLock, SnapshotKeys, SnapshotOps, Load, Saves
<1>1. UNCHANGED <<memory, minted, live, pending, history, worker, disk, reached, now, faults>>
  BY DEF TakeDiskLock, SnapshotKeys, SnapshotOps, Load, Unmoved
<1>a. ASSUME NEW r \in SavingType, saving' = [saving EXCEPT ![m] = r],
             flock' \subseteq live
      PROVE  Types' /\ saving'[m] = r /\ \A n \in Managers \ {m} : Same(n)
  <2>1. /\ saving' \in [Managers -> SavingType] /\ saving'[m] = r
        /\ \A n \in Managers \ {m} : saving'[n] = saving[n]
    BY <1>a, SavingUpdate
  <2>2. Types'
    BY <1>1, <1>a, <2>1 DEF Types, CountersOK, FilesOK, ProcessOK, PendingOK, PersistOK
  <2> QED BY <1>1, <2>1, <2>2 DEF Same, AllStay
<1>2. CASE TakeDiskLock(m)
  <2> DEFINE r == [saving[m] EXCEPT !.step = "keys"]
  <2>1. r \in SavingType
    BY <1>0 DEF SavingType, SaveSteps
  <2>2. saving' = [saving EXCEPT ![m] = r] /\ saving[m].step = "locking" /\ flock' \subseteq live
    BY <1>0, <1>2 DEF TakeDiskLock, Proceeds, Saves, Types, ProcessOK
  <2>3. r.step = "keys" /\ r.by = saving[m].by /\ r.keys = saving[m].keys /\ r.ops = saving[m].ops /\ r.values = saving[m].values
    BY <1>0 DEF SavingType
  <2> HIDE DEF r
  <2>4. Types' /\ saving'[m] = r /\ \A n \in Managers \ {m} : Same(n)
    BY <1>a, <2>1, <2>2
  <2> QED BY <1>0, <1>1, <2>2, <2>3, <2>4 DEF TakesDisk, Persists, AllStay, Snapshots
<1>3. CASE SnapshotKeys(m)
  <2> DEFINE keys == Restrict(pending[m], DOMAIN pending[m] \ Secrets)
             r == [saving[m] EXCEPT !.keys = keys, !.step = "ops"]
  <2>0. keys \in Marks /\ DOMAIN keys = DOMAIN pending[m] \ Secrets /\ \A k \in DOMAIN keys : keys[k] = pending[m][k]
    <3>1. keys \in Marks
      BY <1>0, RestrictMarks
    <3> QED BY <3>1 DEF Restrict
  <2>r. saving' = [saving EXCEPT ![m] = r]
    BY <1>0, <1>3 DEF SnapshotKeys
  <2> HIDE DEF keys
  <2>1. r \in SavingType
    BY <1>0, <2>0 DEF SavingType, SaveSteps
  <2>2. saving[m].step = "keys" /\ flock' \subseteq live
    BY <1>0, <1>3 DEF SnapshotKeys, Saves, Types, ProcessOK
  <2>3. r.step = "ops" /\ r.by = saving[m].by /\ r.keys = keys /\ r.ops = saving[m].ops /\ r.values = saving[m].values
    BY <1>0 DEF SavingType
  <2> HIDE DEF r
  <2>4. Types' /\ saving'[m] = r /\ \A n \in Managers \ {m} : Same(n)
    BY <1>a, <2>1, <2>2, <2>r
  <2> QED BY <1>0, <1>1, <2>0, <2>2, <2>3, <2>4 DEF TakesKeys, Persists, AllStay
<1>4. CASE SnapshotOps(m)
  <2> DEFINE to == IF saving[m].keys = <<>> THEN "secrets" ELSE "load"
             r == [saving[m] EXCEPT !.ops = history[m], !.step = to]
  <2>r. saving' = [saving EXCEPT ![m] = r]
    BY <1>0, <1>4 DEF SnapshotOps
  <2>0. to = (IF DOMAIN saving[m].keys = {} THEN "secrets" ELSE "load") /\ to \in SaveSteps
    BY <1>0, EmptyMarks DEF SaveSteps
  <2> HIDE DEF to
  <2>1. r \in SavingType
    BY <1>0, <2>0 DEF SavingType
  <2>2. saving[m].step = "ops" /\ flock' \subseteq live
    BY <1>0, <1>4 DEF SnapshotOps, Saves, Types, ProcessOK
  <2>3. r.step = to /\ r.by = saving[m].by /\ r.keys = saving[m].keys /\ r.ops = history[m] /\ r.values = saving[m].values
    BY <1>0 DEF SavingType
  <2> HIDE DEF r
  <2>4. Types' /\ saving'[m] = r /\ \A n \in Managers \ {m} : Same(n)
    BY <1>a, <2>1, <2>2, <2>r
  <2> QED BY <1>0, <1>1, <2>0, <2>2, <2>3, <2>4 DEF TakesOps, Persists, AllStay
<1>5. CASE Load(m)
  <2> DEFINE values == Restrict(memory[m], DOMAIN saving[m].keys \ {TaskHistory})
             r == [saving[m] EXCEPT !.values = values, !.base = disk, !.step = "write"]
  <2>r. saving' = [saving EXCEPT ![m] = r]
    BY <1>0, <1>5 DEF Load
  <2>0. values \in Values /\ DOMAIN values = DOMAIN saving[m].keys \ {TaskHistory}
        /\ \A k \in DOMAIN values : values[k] = memory[m][k]
    <3>1. DOMAIN saving[m].keys \ {TaskHistory} \subseteq Settings \cup Secrets
      BY <1>0, MarksOf DEF Markers
    <3>2. values \in Values
      BY <1>0, <3>1, RestrictType DEF Values, Items
    <3> QED BY <3>2 DEF Restrict
  <2> HIDE DEF values
  <2>1. r \in SavingType
    BY <1>0, <2>0 DEF SavingType, SaveSteps, Types, FilesOK
  <2>2. saving[m].step = "load" /\ flock' \subseteq live
    BY <1>0, <1>5 DEF Load, Saves, Types, ProcessOK
  <2>3. r.step = "write" /\ r.by = saving[m].by /\ r.keys = saving[m].keys /\ r.ops = saving[m].ops
        /\ r.values = values /\ r.base = disk
    BY <1>0 DEF SavingType
  <2> HIDE DEF r
  <2>4. Types' /\ saving'[m] = r /\ \A n \in Managers \ {m} : Same(n)
    BY <1>a, <2>1, <2>2, <2>r
  <2> QED BY <1>0, <1>1, <2>0, <2>2, <2>3, <2>4 DEF Loads, Persists, AllStay
<1> QED BY <1>2, <1>3, <1>4, <1>5

(* A set of numbers has a least one.                                        *)
LEMMA LeastNatural ==
    ASSUME NEW T, T \subseteq Nat, T # {}
    PROVE  \E x \in T : \A y \in T : x <= y
<1> DEFINE R == {ss \in Nat \X Nat : ss[1] < ss[2]}
<1>1. IsWellFoundedOn(R, Nat)
  BY NatLessThanWellFounded DEF OpToRel
<1>2. \A x, y \in Nat : <<y, x>> \in R <=> y < x
  OBVIOUS
<1> HIDE DEF R
<1>3. PICK x \in T : \A y \in T : ~ (<<y, x>> \in R)
  BY <1>1, WFMin
<1>4. \A y \in T : ~ (y < x)
  BY <1>2, <1>3
<1> QED BY <1>3, <1>4

(* A set of numbers below a bound has a greatest one, which Max finds.      *)
LEMMA MaxOf ==
    ASSUME NEW S, S \subseteq Nat, S # {}, NEW n \in Nat, \A x \in S : x < n
    PROVE  Max(S) \in S /\ \A y \in S : y <= Max(S)
<1> DEFINE T == {i \in Nat : n - i \in S}
<1>1. T \in SUBSET Nat /\ T # {}
  <2>1. PICK x \in S : TRUE
    OBVIOUS
  <2>2. n - x \in Nat /\ n - (n - x) = x
    BY <2>1
  <2> QED BY <2>1, <2>2
<1> HIDE DEF T
<1>2. PICK i \in T : \A j \in T : i <= j
  BY <1>1, LeastNatural
<1>t. i \in Nat /\ n - i \in S
  BY <1>2 DEF T
<1>3. n - i \in S /\ \A y \in S : n - i >= y
  <2> SUFFICES ASSUME NEW y \in S PROVE n - i >= y
    BY <1>t
  <2>1. y \in Nat /\ y < n
    OBVIOUS
  <2>2. n - y \in Nat /\ n - (n - y) = y
    BY <2>1
  <2>3. n - y \in T
    BY <2>2 DEF T
  <2>4. i <= n - y
    BY <1>2, <2>3
  <2> QED BY <1>t, <2>1, <2>4
<1>4. \E x \in S : \A y \in S : x >= y
  BY <1>3
<1>5. Max(S) \in S /\ \A y \in S : Max(S) >= y
  BY <1>4 DEF Max
<1> QED BY <1>5

(* The newest operation of a task is what the history gets.                *)
LEMMA UpsertedOf ==
    ASSUME NEW state \in [Items -> Changes], NEW ops \in Ops,
           NEW n \in Nat, \A g \in DOMAIN ops : g < n, NEW item \in Items
    PROVE  \/ /\ Upserted(state, ops)[item] = state[item]
              /\ item \in Tasks => \A g \in DOMAIN ops : ops[g].task # item
           \/ /\ item \in Tasks
              /\ \E g \in DOMAIN ops : /\ ops[g].task = item /\ Latest(ops, g)
                                       /\ Upserted(state, ops)[item] = ops[g].change
<1> DEFINE L == {g \in DOMAIN ops : ops[g].task = item}
<1>1. Upserted(state, ops)[item] = IF item \in Tasks /\ L # {} THEN ops[Max(L)].change ELSE state[item]
  BY DEF Upserted
<1>2. CASE ~ (item \in Tasks /\ L # {})
  BY <1>1, <1>2
<1>3. CASE item \in Tasks /\ L # {}
  <2>1. L \subseteq Nat /\ \A g \in L : g < n
    BY OpsOf
  <2>2. Max(L) \in L /\ \A g \in L : g <= Max(L)
    BY <1>3, <2>1, MaxOf
  <2>3. Latest(ops, Max(L))
    BY <2>2 DEF Latest
  <2> HIDE DEF L
  <2>4. Max(L) \in DOMAIN ops /\ ops[Max(L)].task = item
    BY <2>2 DEF L
  <2> QED BY <1>1, <1>3, <2>3, <2>4
<1> QED BY <1>2, <1>3

(* What a persist of whole types writes.                                   *)
Whole(save) ==
    /\ save.keys \in Marks /\ save.ops \in Ops /\ save.values \in Values
    /\ save.base \in [Items -> Changes] /\ \E n \in Nat : \A g \in DOMAIN save.ops : g < n

State(save) == [item \in Items |-> IF item \in DOMAIN save.values THEN save.values[item] ELSE save.base[item]]

(* The file to be written has of an item the snapshot's value, or the       *)
(* file's, or that of the newest operation of its task                      *)
(* (persist_global_state).                                                  *)
LEMMA MergedOf ==
    ASSUME NEW save, Whole(save), NEW item \in Items
    PROVE  /\ State(save) \in [Items -> Changes] /\ DOMAIN Merged(save) = Items
           /\ \/ /\ Merged(save)[item] = State(save)[item]
                 /\ TaskHistory \in DOMAIN save.keys /\ item \in Tasks => \A g \in DOMAIN save.ops : save.ops[g].task # item
              \/ /\ TaskHistory \in DOMAIN save.keys /\ item \in Tasks
                 /\ \E g \in DOMAIN save.ops : /\ save.ops[g].task = item /\ Latest(save.ops, g)
                                               /\ Merged(save)[item] = save.ops[g].change
<1>1. State(save) \in [Items -> Changes]
  BY ValuesOf DEF State, Whole
<1>2. PICK n \in Nat : \A g \in DOMAIN save.ops : g < n
  BY DEF Whole
<1>3. Merged(save) = IF TaskHistory \in DOMAIN save.keys THEN Upserted(State(save), save.ops) ELSE State(save)
  BY DEF Merged, State
<1>4. DOMAIN Merged(save) = Items
  BY <1>3 DEF State, Upserted
<1>5. CASE TaskHistory \notin DOMAIN save.keys
  BY <1>1, <1>3, <1>4, <1>5
<1>6. CASE TaskHistory \in DOMAIN save.keys
  <2>1. save.ops \in Ops
    BY DEF Whole
  <2>2. Merged(save) = Upserted(State(save), save.ops)
    BY <1>3, <1>6
  <2> QED BY <1>1, <1>2, <1>4, <1>6, <2>1, <2>2, UpsertedOf
<1> QED BY <1>5, <1>6

(* The file to be written is a file.                                        *)
LEMMA MergedType ==
    ASSUME NEW save, Whole(save)
    PROVE  Merged(save) \in [Items -> Changes]
<1>1. save.ops \in Ops
  BY DEF Whole
<1>2. \A item \in Items : Merged(save)[item] \in Changes
  BY <1>1, MergedOf, OpsOf
<1>3. Merged(save) = [item \in Items |-> Merged(save)[item]]
  BY DEF Merged, Upserted
<1> QED BY <1>2, <1>3

(* Write replaces the file by the merged one, cut to the limit, and goes on *)
(* to clear.                                                                *)
LEMMA WriteEffect ==
    ASSUME Types, NEW m \in Managers, Whole(saving[m]), Write(m)
    PROVE  Types' /\ Writes(m) /\ \A n \in Managers \ {m} : Same(n)
<1>0. /\ saving[m] \in SavingType /\ m \in live /\ saving[m].step = "write" /\ disk \in [Items -> Changes]
      /\ UNCHANGED <<memory, minted, live, pending, history, worker, flock, faults, now>>
      /\ disk' = Newest(Merged(saving[m])) /\ reached' = reached \cup Range(Merged(saving[m]))
  BY RecordOf DEF Types, FilesOK, Write, Saves, Unmoved
<1> DEFINE r == [saving[m] EXCEPT !.step = "clear keys"]
<1>1. r \in SavingType
  BY <1>0 DEF SavingType, SaveSteps
<1>2. saving' = [saving EXCEPT ![m] = r]
  BY <1>0 DEF Write, Proceeds, Types, PersistOK
<1>3. r.step = "clear keys" /\ r.by = saving[m].by /\ r.keys = saving[m].keys /\ r.ops = saving[m].ops
      /\ r.values = saving[m].values
  BY <1>0 DEF SavingType
<1> HIDE DEF r
<1>4. /\ saving' \in [Managers -> SavingType] /\ saving'[m] = r
      /\ \A n \in Managers \ {m} : saving'[n] = saving[n]
  BY <1>1, <1>2, SavingUpdate
<1>5. Merged(saving[m]) \in [Items -> Changes]
  BY MergedType
<1>6. disk' \in [Items -> Changes] /\ Range(Merged(saving[m])) \subseteq Changes
  BY <1>0, <1>5, NewestType DEF Range
<1>7. Types'
  BY <1>0, <1>4, <1>6 DEF Types, CountersOK, FilesOK, ProcessOK, PendingOK, PersistOK
<1>8. Writes(m)
  BY <1>0, <1>3, <1>4 DEF Writes, Persists, AllStay, Snapshots
<1> QED BY <1>0, <1>4, <1>7, <1>8 DEF Same, AllStay

(* A marker is cleared if its generation is the one that was written        *)
(* (clear_global_pending).                                                  *)
LEMMA ClearedOf ==
    ASSUME NEW f \in Marks, NEW keys
    PROVE  /\ Cleared(f, keys) \in Marks
           /\ DOMAIN Cleared(f, keys) = {k \in DOMAIN f : k \in DOMAIN keys => f[k] # keys[k]}
           /\ \A k \in DOMAIN Cleared(f, keys) : Cleared(f, keys)[k] = f[k]
<1>1. Cleared(f, keys) \in Marks
  BY WithoutMarks DEF Cleared
<1> QED BY <1>1 DEF Cleared, Without

(* The pending keys of a process after one of the two clearings; those of   *)
(* the others stay.                                                         *)
LEMMA PendingCleared ==
    ASSUME Types, NEW m \in Managers, NEW keys, pending' = [pending EXCEPT ![m] = Cleared(@, keys)]
    PROVE  /\ pending' \in [Managers -> Marks] /\ Forgets(m, keys)
           /\ \A n \in Managers \ {m} : pending'[n] = pending[n]
<1>1. pending[m] \in Marks /\ pending \in [Managers -> Marks]
  BY RecordOf DEF Types, PendingOK
<1> DEFINE new == Cleared(pending[m], keys)
<1>2. /\ new \in Marks
      /\ DOMAIN new = {k \in DOMAIN pending[m] : k \in DOMAIN keys => pending[m][k] # keys[k]}
      /\ \A k \in DOMAIN new : new[k] = pending[m][k]
  BY <1>1, ClearedOf
<1>3. pending' = [pending EXCEPT ![m] = new]
  BY <1>1
<1> HIDE DEF new
<1>4. pending'[m] = new
  BY <1>1, <1>3
<1> QED BY <1>1, <1>2, <1>3, <1>4 DEF Forgets

(* The clearings after a write touch the pending keys and the operations of *)
(* their process alone.                                                     *)
LEMMA ClearEffect ==
    ASSUME Types, NEW m \in Managers, ClearKeys(m) \/ ClearOps(m)
    PROVE  Types' /\ (ClearsKeys(m) \/ ClearsOps(m)) /\ \A n \in Managers \ {m} : Same(n)
<1>0. /\ saving[m] \in SavingType /\ saving \in [Managers -> SavingType] /\ m \in live /\ history[m] \in Ops
      /\ history \in [Managers -> Ops]
      /\ UNCHANGED <<memory, minted, live, worker, flock, faults, now, disk, reached>>
  BY RecordOf DEF Types, PersistOK, PendingOK, ClearKeys, ClearOps, Saves, Unmoved
<1>1. CASE ClearKeys(m)
  <2> DEFINE r == [saving[m] EXCEPT !.step = "clear ops"]
  <2>1. r \in SavingType
    BY <1>0 DEF SavingType, SaveSteps
  <2>2. saving' = [saving EXCEPT ![m] = r] /\ saving[m].step = "clear keys" /\ history' = history
    BY <1>0, <1>1 DEF ClearKeys, Proceeds, Saves
  <2>3. r.step = "clear ops" /\ r.by = saving[m].by /\ r.keys = saving[m].keys /\ r.ops = saving[m].ops
        /\ r.values = saving[m].values
    BY <1>0 DEF SavingType
  <2> HIDE DEF r
  <2>4. /\ saving' \in [Managers -> SavingType] /\ saving'[m] = r
        /\ \A n \in Managers \ {m} : saving'[n] = saving[n]
    BY <2>1, <2>2, SavingUpdate
  <2>5. pending' \in [Managers -> Marks] /\ Forgets(m, saving[m].keys)
        /\ \A n \in Managers \ {m} : pending'[n] = pending[n]
    BY <1>1, PendingCleared DEF ClearKeys
  <2>6. Types'
    BY <1>0, <2>2, <2>4, <2>5 DEF Types, CountersOK, FilesOK, ProcessOK, PendingOK, PersistOK
  <2>7. ClearsKeys(m)
    BY <1>0, <2>2, <2>3, <2>4, <2>5 DEF ClearsKeys, Persists, AllStay, Snapshots
  <2> QED BY <1>0, <2>2, <2>4, <2>5, <2>6, <2>7 DEF Same, AllStay
<1>2. CASE ClearOps(m)
  <2> DEFINE r == [NotSaving EXCEPT !.step = "secrets", !.by = saving[m].by]
             new == Without(history[m], DOMAIN saving[m].ops)
  <2>1. r \in SavingType
    <3>1. saving[m].by \in SUBSET Workers /\ "secrets" \in SaveSteps
      BY <1>0 DEF SavingType, SaveSteps
    <3> QED BY <3>1, QuietType DEF SavingType
  <2>2. saving' = [saving EXCEPT ![m] = r] /\ saving[m].step = "clear ops" /\ pending' = pending
    BY <1>0, <1>2 DEF ClearOps, Saves
  <2>3. r.step = "secrets" /\ r.by = saving[m].by /\ r.keys = <<>> /\ r.ops = <<>> /\ r.values = <<>>
    BY DEF NotSaving
  <2>4. /\ saving' \in [Managers -> SavingType] /\ saving'[m] = r
        /\ \A n \in Managers \ {m} : saving'[n] = saving[n]
    <3> HIDE DEF r
    <3> QED BY <2>1, <2>2, SavingUpdate
  <2>5. /\ new \in Ops /\ DOMAIN new = DOMAIN history[m] \ DOMAIN saving[m].ops
        /\ \A g \in DOMAIN new : new[g] = history[m][g]
    <3>1. new \in Ops
      BY <1>0, WithoutOps
    <3> QED BY <3>1 DEF Without
  <2>6. history' = [history EXCEPT ![m] = new]
    BY <1>0, <1>2 DEF ClearOps, OpsLeft
  <2> HIDE DEF new, r
  <2>7. history' \in [Managers -> Ops] /\ history'[m] = new /\ \A n \in Managers \ {m} : history'[n] = history[n]
    BY <1>0, <2>5, <2>6
  <2>8. Types'
    BY <1>0, <2>2, <2>4, <2>7 DEF Types, CountersOK, FilesOK, ProcessOK, PendingOK, PersistOK
  <2>9. ClearsOps(m)
    BY <1>0, <2>2, <2>3, <2>4, <2>5, <2>7 DEF ClearsOps, Persists, AllStay
  <2> QED BY <1>0, <2>2, <2>4, <2>7, <2>8, <2>9 DEF Same, AllStay
<1> QED BY <1>1, <1>2

(* The end of a persist releases its locks and answers the worker that      *)
(* waits, if it still does.                                                 *)
LEMMA AnswerEffect ==
    ASSUME Types, NEW m \in Managers, NEW answer, Answered(m, answer),
           saving[m].by \subseteq {w \in Workers : Home[w] = m}
    PROVE  /\ worker' \in [Workers -> WorkerType] /\ saving' \in [Managers -> SavingType]
           /\ saving'[m] = NotSaving /\ flock' \subseteq live
           /\ \A w \in Workers : IF w \notin saving[m].by THEN worker'[w] = worker[w]
                ELSE IF answer = "failed" THEN worker'[w] = Quiet
                ELSE /\ worker'[w].step = "saved" /\ worker'[w].item = worker[w].item
                     /\ worker'[w].change = worker[w].change /\ worker'[w].generation = worker[w].generation
           /\ \A n \in Managers \ {m} : saving'[n] = saving[n] /\ AllStay(n)
<1>0. worker \in [Workers -> WorkerType] /\ saving \in [Managers -> SavingType] /\ flock \subseteq live
  BY DEF Types, PersistOK, ProcessOK
<1>1. \A w \in Workers : /\ worker'[w] = IF w \notin saving[m].by THEN worker[w]
                                         ELSE IF answer = "failed" THEN Quiet
                                         ELSE [worker[w] EXCEPT !.step = "saved"]
                         /\ [worker[w] EXCEPT !.step = "saved"] \in WorkerType
                         /\ [worker[w] EXCEPT !.step = "saved"].step = "saved"
                         /\ [worker[w] EXCEPT !.step = "saved"].item = worker[w].item
                         /\ [worker[w] EXCEPT !.step = "saved"].change = worker[w].change
                         /\ [worker[w] EXCEPT !.step = "saved"].generation = worker[w].generation
  BY <1>0 DEF Answered, WorkerType, WorkSteps
<1>2. worker' \in [Workers -> WorkerType]
  <2>1. \A w \in Workers : worker'[w] \in WorkerType
    BY <1>0, <1>1, QuietType
  <2>2. worker' = [w \in Workers |-> worker'[w]]
    BY DEF Answered
  <2> QED BY <2>1, <2>2
<1>3. saving' \in [Managers -> SavingType] /\ saving'[m] = NotSaving /\ \A n \in Managers \ {m} : saving'[n] = saving[n]
  BY SavingUpdate, QuietType DEF Answered
<1>4. \A n \in Managers \ {m} : AllStay(n)
  BY <1>1 DEF AllStay
<1> QED BY <1>0, <1>1, <1>2, <1>3, <1>4 DEF Answered

(* A failure, the end with no secret pending and the end after the last     *)
(* secret answer the caller; with secrets pending they are taken as the     *)
(* next snapshot.                                                           *)
LEMMA EndEffect ==
    ASSUME Types, NEW m \in Managers, saving[m].by \subseteq {w \in Workers : Home[w] = m},
           Fail(m) \/ ClearSecrets(m) \/ SnapshotSecrets(m)
    PROVE  /\ Types'
           /\ Ends(m, "ok") \/ Ends(m, "failed") \/ TakesSecrets(m)
           /\ \A n \in Managers \ {m} : Same(n)
<1>0. /\ saving[m] \in SavingType /\ m \in live /\ pending[m] \in Marks
      /\ UNCHANGED <<memory, minted, live, history, now, disk, reached>>
      /\ faults' \in 0 .. MaxFaults
  BY RecordOf, ParametersAssumption
     DEF Fail, ClearSecrets, SnapshotSecrets, Saves, Unmoved, Failing, Types, CountersOK
<1>1. CASE Fail(m)
  <2>1. Answered(m, "failed") /\ saving[m].step \in {"locking", "load", "write", "store"} /\ pending' = pending
    BY <1>1 DEF Fail
  <2>2. /\ worker' \in [Workers -> WorkerType] /\ saving' \in [Managers -> SavingType]
        /\ saving'[m] = NotSaving /\ flock' \subseteq live
        /\ \A w \in Workers : IF w \notin saving[m].by THEN worker'[w] = worker[w] ELSE worker'[w] = Quiet
        /\ \A n \in Managers \ {m} : saving'[n] = saving[n] /\ AllStay(n)
    BY <2>1, AnswerEffect
  <2>3. Types'
    BY <1>0, <2>1, <2>2 DEF Types, CountersOK, FilesOK, ProcessOK, PendingOK, PersistOK
  <2>4. Ends(m, "failed")
    BY <1>0, <2>1, <2>2 DEF Ends
  <2> QED BY <1>0, <2>1, <2>2, <2>3, <2>4 DEF Same
<1>2. CASE ClearSecrets(m)
  <2>1. Answered(m, "ok") /\ saving[m].step = "store" /\ DOMAIN saving[m].values = DOMAIN saving[m].keys
    BY <1>2 DEF ClearSecrets, Saves
  <2>2. /\ worker' \in [Workers -> WorkerType] /\ saving' \in [Managers -> SavingType]
        /\ saving'[m] = NotSaving /\ flock' \subseteq live
        /\ \A w \in Workers : IF w \notin saving[m].by THEN worker'[w] = worker[w]
             ELSE /\ worker'[w].step = "saved" /\ worker'[w].item = worker[w].item
                  /\ worker'[w].change = worker[w].change /\ worker'[w].generation = worker[w].generation
        /\ \A n \in Managers \ {m} : saving'[n] = saving[n] /\ AllStay(n)
    BY <2>1, AnswerEffect
  <2>3. pending' \in [Managers -> Marks] /\ Forgets(m, saving[m].keys)
        /\ \A n \in Managers \ {m} : pending'[n] = pending[n]
    BY <1>2, PendingCleared DEF ClearSecrets
  <2>4. Types'
    BY <1>0, <2>2, <2>3 DEF Types, CountersOK, FilesOK, ProcessOK, PendingOK, PersistOK
  <2>5. Ends(m, "ok")
    BY <1>0, <2>1, <2>2, <2>3 DEF Ends
  <2> QED BY <1>0, <2>2, <2>3, <2>4, <2>5 DEF Same
<1>3. CASE SnapshotSecrets(m)
  <2> DEFINE keys == Restrict(pending[m], DOMAIN pending[m] \cap Secrets)
             r == [NotSaving EXCEPT !.step = "store", !.keys = keys, !.by = saving[m].by]
  <2>1. keys \in Marks /\ DOMAIN keys = DOMAIN pending[m] \cap Secrets /\ \A k \in DOMAIN keys : keys[k] = pending[m][k]
    <3>1. keys \in Marks
      BY <1>0, RestrictMarks
    <3> QED BY <3>1 DEF Restrict
  <2>2. /\ saving[m].step = "secrets" /\ pending' = pending
        /\ IF keys = <<>> THEN Answered(m, "ok")
           ELSE saving' = [saving EXCEPT ![m] = r] /\ UNCHANGED <<worker, flock>>
    BY <1>3 DEF SnapshotSecrets, Saves
  <2> HIDE DEF keys
  <2>3. CASE keys = <<>>
    <3>1. DOMAIN pending[m] \cap Secrets = {} /\ Answered(m, "ok")
      BY <2>1, <2>2, <2>3, EmptyMarks
    <3>2. /\ worker' \in [Workers -> WorkerType] /\ saving' \in [Managers -> SavingType]
          /\ saving'[m] = NotSaving /\ flock' \subseteq live
          /\ \A w \in Workers : IF w \notin saving[m].by THEN worker'[w] = worker[w]
               ELSE /\ worker'[w].step = "saved" /\ worker'[w].item = worker[w].item
                    /\ worker'[w].change = worker[w].change /\ worker'[w].generation = worker[w].generation
          /\ \A n \in Managers \ {m} : saving'[n] = saving[n] /\ AllStay(n)
      BY <3>1, AnswerEffect
    <3>3. Types'
      BY <1>0, <2>2, <3>2 DEF Types, CountersOK, FilesOK, ProcessOK, PendingOK, PersistOK
    <3>4. Ends(m, "ok")
      BY <1>0, <2>2, <3>1, <3>2 DEF Ends
    <3> QED BY <1>0, <2>2, <3>2, <3>3, <3>4 DEF Same
  <2>4. CASE keys # <<>>
    <3>1. r \in SavingType
      <4>1. saving[m].by \in SUBSET Workers /\ "store" \in SaveSteps
        BY <1>0 DEF SavingType, SaveSteps
      <4> QED BY <2>1, <4>1, QuietType DEF SavingType
    <3>2. r.step = "store" /\ r.by = saving[m].by /\ r.keys = keys /\ r.ops = <<>> /\ r.values = <<>>
      BY DEF NotSaving
    <3>3. saving' = [saving EXCEPT ![m] = r] /\ UNCHANGED <<worker, flock>>
      BY <2>2, <2>4
    <3> HIDE DEF r
    <3>4. /\ saving' \in [Managers -> SavingType] /\ saving'[m] = r
          /\ \A n \in Managers \ {m} : saving'[n] = saving[n]
      BY <3>1, <3>3, SavingUpdate
    <3>5. Types'
      BY <1>0, <2>2, <3>3, <3>4 DEF Types, CountersOK, FilesOK, ProcessOK, PendingOK, PersistOK
    <3>6. TakesSecrets(m)
      BY <1>0, <2>1, <2>2, <3>2, <3>3, <3>4 DEF TakesSecrets, Persists, AllStay
    <3> QED BY <1>0, <2>2, <3>3, <3>4, <3>5, <3>6 DEF Same, AllStay
  <2> QED BY <2>3, <2>4
<1> QED BY <1>1, <1>2, <1>3

(* StoreSecret writes one secret and nothing else (persist_secrets).        *)
LEMMA StoreEffect ==
    ASSUME Types, NEW m \in Managers, NEW key \in Secrets, StoreSecret(m, key)
    PROVE  Types' /\ Stores(m, key) /\ \A n \in Managers \ {m} : Same(n)
<1>0. /\ saving[m] \in SavingType /\ m \in live /\ memory[m] \in [Items -> Changes] /\ disk \in [Items -> Changes]
      /\ saving[m].values \in Values /\ reached \subseteq Changes
      /\ UNCHANGED <<memory, minted, live, history, pending, worker, flock, now, faults>>
  BY RecordOf DEF Types, FilesOK, StoreSecret, Saves, Unmoved
<1>1. memory[m][key] \in Changes /\ key \in Settings \cup Secrets
  BY <1>0 DEF Items
<1> DEFINE new == With(saving[m].values, key, memory[m][key])
           r == [saving[m] EXCEPT !.values = new]
<1>2. /\ new \in Values /\ DOMAIN new = DOMAIN saving[m].values \cup {key} /\ new[key] = memory[m][key]
      /\ \A k \in DOMAIN saving[m].values \ {key} : new[k] = saving[m].values[k]
  <2>1. new \in Values
    BY <1>0, <1>1, WithValues
  <2> QED BY <2>1 DEF With
<1>3. saving' = [saving EXCEPT ![m] = r]
  BY <1>0 DEF StoreSecret, Types, PersistOK
<1> HIDE DEF new
<1>4. r \in SavingType
  BY <1>0, <1>2 DEF SavingType
<1>5. r.step = saving[m].step /\ r.by = saving[m].by /\ r.keys = saving[m].keys /\ r.ops = saving[m].ops /\ r.values = new
  BY <1>0 DEF SavingType
<1> HIDE DEF r
<1>6. /\ saving' \in [Managers -> SavingType] /\ saving'[m] = r
      /\ \A n \in Managers \ {m} : saving'[n] = saving[n]
  BY <1>3, <1>4, SavingUpdate
<1>7. /\ disk' = [disk EXCEPT ![key] = memory[m][key]] /\ reached' = reached \cup {memory[m][key]}
      /\ saving[m].step = "store" /\ key \in DOMAIN saving[m].keys \ DOMAIN saving[m].values
  BY DEF StoreSecret, Saves
<1>8. Types'
  BY <1>0, <1>1, <1>6, <1>7 DEF Types, CountersOK, FilesOK, ProcessOK, PendingOK, PersistOK, Items
<1>9. Stores(m, key)
  BY <1>0, <1>2, <1>5, <1>6, <1>7 DEF Stores, Persists, AllStay
<1> QED BY <1>0, <1>6, <1>8, <1>9 DEF Same, AllStay

(* A crash takes a process's pending changes and its persist along, a start *)
(* reads the file; the other processes do not move.                         *)
LEMMA ProcessEffect ==
    ASSUME Types, NEW m \in Managers, Crash(m) \/ Start(m)
    PROVE  Types' /\ (Crashes(m) \/ Starts(m)) /\ \A n \in Managers \ {m} : Same(n)
<1>0. /\ worker \in [Workers -> WorkerType] /\ saving \in [Managers -> SavingType] /\ memory \in [Managers -> [Items -> Changes]]
      /\ pending \in [Managers -> Marks] /\ history \in [Managers -> Ops] /\ minted \in [Managers -> Nat \ {0}]
      /\ disk \in [Items -> Changes] /\ live \subseteq Managers /\ flock \subseteq live
  BY DEF Types, PersistOK, PendingOK, CountersOK, FilesOK, ProcessOK
<1>1. CASE Crash(m)
  <2>1. /\ m \in live /\ live' = live \ {m} /\ flock' = flock \ {m} /\ faults' \in 0 .. MaxFaults
        /\ UNCHANGED <<now, memory, disk, minted, reached>>
    BY <1>1, ParametersAssumption DEF Crash, Failing, Types, CountersOK
  <2>2. /\ saving' \in [Managers -> SavingType] /\ saving'[m] = NotSaving
        /\ \A n \in Managers \ {m} : saving'[n] = saving[n]
    BY <1>1, SavingUpdate, QuietType DEF Crash
  <2>3. /\ pending' \in [Managers -> Marks] /\ pending'[m] = <<>> /\ \A n \in Managers \ {m} : pending'[n] = pending[n]
    BY <1>0, <1>1, EmptyMarks DEF Crash
  <2>4. /\ history' \in [Managers -> Ops] /\ history'[m] = <<>> /\ \A n \in Managers \ {m} : history'[n] = history[n]
    <3>1. <<>> \in Ops
      BY EmptyMap DEF Ops
    <3> QED BY <1>0, <1>1, <3>1 DEF Crash
  <2>5. worker' \in [Workers -> WorkerType] /\ \A w \in Workers : worker'[w] = IF Home[w] = m THEN Quiet ELSE worker[w]
    BY <1>0, <1>1, QuietType DEF Crash
  <2>6. Types'
    BY <1>0, <2>1, <2>2, <2>3, <2>4, <2>5 DEF Types, CountersOK, FilesOK, ProcessOK, PendingOK, PersistOK
  <2>7. Crashes(m)
    BY <2>1, <2>2, <2>3, <2>4, <2>5 DEF Crashes
  <2> QED BY <2>1, <2>2, <2>3, <2>4, <2>5, <2>6, <2>7 DEF Same, AllStay
<1>2. CASE Start(m)
  <2>1. /\ m \notin live /\ live' = live \cup {m} /\ flock = {}
        /\ UNCHANGED <<now, disk, pending, history, worker, saving, flock, reached, faults>>
    BY <1>2 DEF Start, DiskLockFree
  <2>2. Newest(disk) \in [Items -> Changes]
    BY <1>0, NewestType
  <2>3. /\ memory' \in [Managers -> [Items -> Changes]] /\ memory'[m] = Newest(disk)
        /\ \A n \in Managers \ {m} : memory'[n] = memory[n]
    BY <1>0, <1>2, <2>2 DEF Start
  <2>4. /\ minted' \in [Managers -> Nat \ {0}] /\ minted'[m] = 1
        /\ \A n \in Managers \ {m} : minted'[n] = minted[n]
    BY <1>0, <1>2 DEF Start
  <2>5. Types'
    BY <1>0, <2>1, <2>3, <2>4 DEF Types, CountersOK, FilesOK, ProcessOK, PendingOK, PersistOK
  <2>6. Starts(m)
    BY <2>1, <2>3, <2>4 DEF Starts, AllStay
  <2> QED BY <2>1, <2>3, <2>4, <2>5, <2>6 DEF Same, AllStay
<1> QED BY <1>1, <1>2

(* A persist that is about to write has all of its snapshots.               *)
LEMMA WholeSaving ==
    ASSUME Types, LockInv, NEW m \in Managers, SnapshotInv(m), GenerationInv(m), saving[m].step = "write"
    PROVE  Whole(saving[m])
<1>1. saving[m].keys \in Marks /\ saving[m].ops \in Ops /\ saving[m].values \in Values /\ saving[m].base = disk
  BY RecordOf DEF LockInv
<1>2. disk \in [Items -> Changes] /\ minted[m] \in Nat
  BY DEF Types, FilesOK, CountersOK
<1>3. \A g \in DOMAIN saving[m].ops : g < minted[m]
  BY DEF SnapshotInv, GenerationInv, Writing
<1> QED BY <1>1, <1>2, <1>3 DEF Whole

(* Every step is one of these.                                             *)
LEMMA StepEffect ==
    ASSUME Types, LockInv, \A w \in Workers : WorkerInv(w),
           \A m \in Managers : SnapshotInv(m) /\ GenerationInv(m), [Next]_vars
    PROVE  Types' /\ OneStep
<1>0. \A m \in Managers : saving[m].by \subseteq {w \in Workers : Home[w] = m}
  BY DEF LockInv
<1>1. CASE UNCHANGED vars
  <2>1. Types'
    BY <1>1 DEF vars, Types, CountersOK, FilesOK, ProcessOK, PendingOK, PersistOK
  <2> QED BY <1>1, <2>1 DEF vars, OneStep, Same, AllStay
<1>2. ASSUME NEW w \in Workers, NEW item \in Items, Change(w, item) PROVE Types' /\ OneStep
  <2>1. Types' /\ ChangesItem(Home[w], w, item) /\ \A n \in Managers \ {Home[w]} : Same(n)
    BY <1>2, ChangeEffect
  <2>2. Home[w] \in Managers /\ UNCHANGED <<disk, reached, flock>>
    BY <1>2, HomeType DEF Change
  <2> QED BY <2>1, <2>2 DEF OneStep, ProcessStep
<1>3. ASSUME NEW w \in Workers, Record(w) \/ Mark(w) \/ JustPersist(w) \/ TakeOwnLock(w) \/ Abandon(w) \/ Return(w)
      PROVE  Types' /\ OneStep
  <2>1. Types' /\ Calls(Home[w]) /\ \A n \in Managers \ {Home[w]} : Same(n)
    BY <1>3, RecordEffect, MarkEffect, MoveEffect DEF Calls
  <2>2. Home[w] \in Managers /\ UNCHANGED <<now, disk, reached, flock>>
    BY <1>3, HomeType DEF Record, Mark, JustPersist, TakeOwnLock, Abandon, Return, Unmoved
  <2> QED BY <2>1, <2>2 DEF OneStep, ProcessStep
<1>4. ASSUME NEW m \in Managers, TakeDiskLock(m) PROVE Types' /\ OneStep
  <2>1. Types' /\ (TakesDisk(m) \/ TakesKeys(m) \/ TakesOps(m) \/ Loads(m)) /\ \A n \in Managers \ {m} : Same(n)
    BY <1>4, KeysEffect
  <2>2. saving[m].step = "locking" /\ flock = {} /\ flock' = {m} /\ UNCHANGED <<now, disk, reached>>
    BY <1>4 DEF TakeDiskLock, Saves, DiskLockFree, Unmoved
  <2>3. TakesDisk(m)
    BY <2>1, <2>2 DEF TakesKeys, TakesOps, Loads, Persists
  <2> QED BY <2>1, <2>2, <2>3 DEF OneStep, ProcessStep
<1>5. ASSUME NEW m \in Managers, SnapshotKeys(m) \/ SnapshotOps(m) \/ Load(m) PROVE Types' /\ OneStep
  <2>1. Types' /\ (TakesDisk(m) \/ TakesKeys(m) \/ TakesOps(m) \/ Loads(m)) /\ \A n \in Managers \ {m} : Same(n)
    BY <1>5, KeysEffect
  <2>2. saving[m].step # "locking" /\ UNCHANGED <<now, disk, reached, flock>>
    BY <1>5 DEF SnapshotKeys, SnapshotOps, Load, Saves, Unmoved
  <2>3. Takes(m)
    BY <2>1, <2>2 DEF TakesDisk, Persists, Takes
  <2> QED BY <2>1, <2>2, <2>3 DEF OneStep, ProcessStep
<1>6. ASSUME NEW m \in Managers, Write(m) PROVE Types' /\ OneStep
  <2>1. Types' /\ Writes(m) /\ \A n \in Managers \ {m} : Same(n)
    BY <1>6, WriteEffect, WholeSaving DEF Write, Saves
  <2>2. UNCHANGED <<now, flock>>
    BY <1>6 DEF Write, Unmoved
  <2> QED BY <2>1, <2>2 DEF OneStep, ProcessStep
<1>7. ASSUME NEW m \in Managers, ClearKeys(m) \/ ClearOps(m) PROVE Types' /\ OneStep
  <2>1. Types' /\ Takes(m) /\ \A n \in Managers \ {m} : Same(n)
    BY <1>7, ClearEffect DEF Takes
  <2>2. UNCHANGED <<now, disk, reached, flock>>
    BY <1>7 DEF ClearKeys, ClearOps, Unmoved
  <2> QED BY <2>1, <2>2 DEF OneStep, ProcessStep
<1>8. ASSUME NEW m \in Managers, Fail(m) \/ ClearSecrets(m) \/ SnapshotSecrets(m) PROVE Types' /\ OneStep
  <2>1. /\ Types'
        /\ Ends(m, "ok") \/ Ends(m, "failed") \/ TakesSecrets(m)
        /\ \A n \in Managers \ {m} : Same(n)
    BY <1>0, <1>8, EndEffect
  <2>0. UNCHANGED <<now, disk, reached>>
    BY <1>8 DEF Fail, ClearSecrets, SnapshotSecrets, Unmoved
  <2>2. \/ saving'[m] = NotSaving /\ flock' = flock \ {m}
        \/ flock' = flock /\ saving'[m].step = "store"
    <3>1. saving \in [Managers -> SavingType]
      BY DEF Types, PersistOK
    <3>3. \A answer : Answered(m, answer) => saving'[m] = NotSaving /\ flock' = flock \ {m}
      BY <3>1 DEF Answered
    <3>4. CASE Fail(m) \/ ClearSecrets(m)
      BY <3>3, <3>4 DEF Fail, ClearSecrets
    <3>5. CASE SnapshotSecrets(m)
      <4> DEFINE keys == Restrict(pending[m], DOMAIN pending[m] \cap Secrets)
      <4>1. CASE keys = <<>>
        BY <3>3, <3>5, <4>1 DEF SnapshotSecrets
      <4>2. CASE keys # <<>>
        <5>1. saving' = [saving EXCEPT ![m] = [NotSaving EXCEPT !.step = "store", !.keys = keys, !.by = saving[m].by]]
              /\ flock' = flock
          BY <3>5, <4>2 DEF SnapshotSecrets
        <5> HIDE DEF keys
        <5>2. saving'[m].step = "store"
          BY <3>1, <5>1 DEF NotSaving
        <5> QED BY <5>1, <5>2
      <4> QED BY <4>1, <4>2
    <3> QED BY <1>8, <3>4, <3>5
  <2>3. NotSaving.step = "none"
    BY DEF NotSaving
  <2>4. CASE TakesSecrets(m)
    <3>1. saving'[m].step = "store"
      BY <2>4 DEF TakesSecrets, Persists
    <3>2. flock' = flock
      BY <2>2, <2>3, <3>1
    <3>3. Takes(m) /\ UNCHANGED <<now, disk, reached, flock>>
      BY <2>0, <2>4, <3>2 DEF Takes
    <3> QED BY <2>1, <3>3 DEF OneStep, ProcessStep
  <2>5. CASE Ends(m, "ok") \/ Ends(m, "failed")
    <3>1. saving'[m] = NotSaving
      BY <2>5 DEF Ends
    <3>2. flock' = flock \ {m}
      BY <2>2, <2>3, <3>1
    <3> QED BY <2>0, <2>1, <2>5, <3>2 DEF OneStep, ProcessStep
  <2> QED BY <2>1, <2>4, <2>5
<1>9. ASSUME NEW m \in Managers, NEW key \in Secrets, StoreSecret(m, key) PROVE Types' /\ OneStep
  <2>1. Types' /\ Stores(m, key) /\ \A n \in Managers \ {m} : Same(n)
    BY <1>9, StoreEffect
  <2>2. UNCHANGED <<now, flock>>
    BY <1>9 DEF StoreSecret, Unmoved
  <2> QED BY <2>1, <2>2 DEF OneStep, ProcessStep
<1>10. ASSUME NEW m \in Managers, Crash(m) \/ Start(m) PROVE Types' /\ OneStep
  <2>1. Types' /\ (Crashes(m) \/ Starts(m)) /\ \A n \in Managers \ {m} : Same(n)
    BY <1>10, ProcessEffect
  <2>2. UNCHANGED <<now, disk, reached>> /\ (Crash(m) => m \in live /\ flock' = flock \ {m}) /\ (Start(m) => m \notin live /\ flock' = flock)
    BY <1>10 DEF Crash, Start
  <2>3. Crashes(m) => m \in live
    BY DEF Crashes
  <2>4. Starts(m) => m \notin live
    BY DEF Starts
  <2> QED BY <1>10, <2>1, <2>2, <2>3, <2>4 DEF OneStep, ProcessStep
<1> QED BY <1>1, <1>2, <1>3, <1>4, <1>5, <1>6, <1>7, <1>8, <1>9, <1>10 DEF Next, Step

-----------------------------------------------------------------------------
(* Each part of the invariant is kept.                                     *)
LEMMA AtProcess ==
    ASSUME Types, NEW m \in Managers, OneStep
    PROVE  (Same(m) \/ ProcessStep(m)) /\ reached \subseteq reached' /\ (now' = now \/ now' = now + 1)
<1>1. CASE (\A n \in Managers : Same(n)) /\ UNCHANGED <<now, disk, reached, flock>>
  BY <1>1
<1>2. ASSUME NEW n \in Managers, ProcessStep(n), \A k \in Managers \ {n} : Same(k)
      PROVE  (Same(m) \/ ProcessStep(m)) /\ reached \subseteq reached' /\ (now' = now \/ now' = now + 1)
  <2>1. reached \subseteq reached' /\ (now' = now \/ now' = now + 1)
    BY <1>2 DEF ProcessStep, ChangesItem, Writes, Stores
  <2> QED BY <1>2, <2>1
<1> QED BY <1>1, <1>2 DEF OneStep

(* The types of one worker's record.                                        *)
LEMMA WorkerOf ==
    ASSUME Types, NEW w \in Workers
    PROVE  /\ worker[w].step \in WorkSteps /\ worker[w].change \in Changes /\ worker[w].generation \in Nat
           /\ worker[w].item = {} \/ \E item \in Items : worker[w].item = {item}
BY DEF Types, PersistOK, WorkerType

(* What the records at rest say.                                            *)
LEMMA StaticFacts ==
    /\ Quiet.step = "idle" /\ Quiet.item = {} /\ Quiet.change = 0 /\ Quiet.generation = 0
    /\ NotSaving.step = "none" /\ NotSaving.by = {}
    /\ DOMAIN NotSaving.keys = {} /\ DOMAIN NotSaving.ops = {} /\ DOMAIN NotSaving.values = {}
BY EmptyMap DEF Quiet, NotSaving

(* What a step leaves of the numbers in use.                               *)
Fewer(m) ==
    /\ minted'[m] = minted[m]
    /\ \A k \in DOMAIN pending'[m] : k \in DOMAIN pending[m] /\ pending'[m][k] = pending[m][k]
    /\ \A k \in DOMAIN saving'[m].keys :
         \/ k \in DOMAIN saving[m].keys /\ saving'[m].keys[k] = saving[m].keys[k]
         \/ k \in DOMAIN pending[m] /\ saving'[m].keys[k] = pending[m][k]
    /\ DOMAIN history'[m] \subseteq DOMAIN history[m]
    /\ DOMAIN saving'[m].ops \subseteq DOMAIN history[m] \cup DOMAIN saving[m].ops
    /\ \A w \in Workers : Home[w] = m /\ worker'[w].step = "recorded" => worker'[w] = worker[w]

(* Where no generation is new, generations stay as unlike as they were.     *)
LEMMA FewerGenerations ==
    ASSUME NEW m \in Managers, GenerationInv(m), Fewer(m)
    PROVE  GenerationInv(m)'
BY DEF GenerationInv, Fewer, Recorded

(* All but the recording of a change, its marking and a start leave the     *)
(* generations as they are or use fewer.                                    *)
LEMMA FewerSteps ==
    ASSUME Types, NEW m \in Managers,
           \/ Same(m) \/ Takes(m) \/ TakesDisk(m) \/ Writes(m) \/ \E key \in Secrets : Stores(m, key)
           \/ Ends(m, "ok") \/ Ends(m, "failed") \/ Crashes(m)
           \/ \E w \in Workers : Moves(m, w) \/ \E item \in Items : ChangesItem(m, w, item)
    PROVE  Fewer(m)
<1> USE StaticFacts
<1>0. saving[m] \in SavingType /\ DOMAIN <<>> = {}
  BY RecordOf
<1>1. CASE Same(m)
  BY <1>1 DEF Same, AllStay, Fewer
<1>2. CASE Takes(m)
  BY <1>0, <1>2 DEF Takes, TakesKeys, TakesOps, Loads, ClearsKeys, ClearsOps, TakesSecrets, Persists, AllStay,
     Snapshots, Forgets, Fewer
<1>3. CASE TakesDisk(m) \/ Writes(m) \/ \E key \in Secrets : Stores(m, key)
  BY <1>3 DEF TakesDisk, Writes, Stores, Persists, AllStay, Snapshots, Fewer
<1>4. CASE Ends(m, "ok") \/ Ends(m, "failed")
  BY <1>4 DEF Ends, Forgets, Fewer
<1>5. CASE Crashes(m)
  BY <1>0, <1>5 DEF Crashes, Fewer
<1>6. ASSUME NEW w \in Workers, Moves(m, w) PROVE Fewer(m)
  <2>1. \/ DOMAIN saving'[m].keys = {} /\ DOMAIN saving'[m].ops = {}
        \/ saving'[m].keys = saving[m].keys /\ saving'[m].ops = saving[m].ops
    <3>1. CASE saving'[m] = saving[m]
      BY <3>1
    <3>2. CASE saving'[m] = [NotSaving EXCEPT !.step = "locking", !.by = {w}]
      BY <3>2, EmptyMap DEF NotSaving
    <3>3. CASE saving'[m] = [saving[m] EXCEPT !.by = {}]
      BY <1>0, <3>3 DEF SavingType
    <3> QED BY <1>6, <3>1, <3>2, <3>3 DEF Moves
  <2> QED BY <1>6, <2>1 DEF Moves, Others, Fewer
<1>7. ASSUME NEW w \in Workers, NEW item \in Items, ChangesItem(m, w, item) PROVE Fewer(m)
  BY <1>7 DEF ChangesItem, Others, Fewer
<1> QED BY <1>1, <1>2, <1>3, <1>4, <1>5, <1>6, <1>7

(* No generation is used twice: next_pending_generation only counts up, and *)
(* starts anew only with nothing pending.                                   *)
LEMMA GenerationNext ==
    ASSUME Types, LockInv, NEW m \in Managers, GenerationInv(m), \A w \in Workers : WorkerInv(w), OneStep
    PROVE  GenerationInv(m)'
<1>0. /\ pending[m] \in Marks /\ saving[m].keys \in Marks /\ history[m] \in Ops /\ minted[m] \in Nat \ {0}
      /\ \A k \in DOMAIN pending[m] : pending[m][k] \in Nat
      /\ \A k \in DOMAIN saving[m].keys : saving[m].keys[k] \in Nat
      /\ DOMAIN history[m] \subseteq Nat /\ DOMAIN saving[m].ops \subseteq Nat
  <2>1. pending[m] \in Marks /\ saving[m].keys \in Marks /\ history[m] \in Ops /\ minted[m] \in Nat \ {0} /\ saving[m].ops \in Ops
    BY RecordOf DEF Types, CountersOK
  <2> QED BY <2>1, MarksOf, OpsOf
<1>1. CASE Fewer(m)
  BY <1>1, FewerGenerations
<1>2. ASSUME NEW w \in Workers, NEW item \in Items, Records(m, w, item) PROVE GenerationInv(m)'
  <2>1. \A v \in Workers : worker[v].generation \in Nat
    BY WorkerOf
  <2>2. DOMAIN history'[m] \subseteq DOMAIN history[m] \cup {minted[m]}
    BY <1>2 DEF Records
  <2> QED BY <1>0, <1>2, <2>1, <2>2 DEF Records, Others, GenerationInv, Recorded
<1>3. ASSUME NEW w \in Workers, NEW item \in Items, MarksItem(m, w, item) PROVE GenerationInv(m)'
  BY <1>0, <1>3 DEF MarksItem, Others, GenerationInv, Recorded
<1>4. CASE Starts(m)
  <2>1. pending'[m] = <<>> /\ history'[m] = <<>> /\ saving'[m] = NotSaving
    BY <1>4 DEF Starts, LockInv
  <2>2. \A w \in Workers : Home[w] = m => worker'[w] = Quiet
    BY <1>4 DEF Starts, AllStay, WorkerInv
  <2>3. DOMAIN pending'[m] = {} /\ DOMAIN history'[m] = {} /\ DOMAIN saving'[m].keys = {} /\ DOMAIN saving'[m].ops = {}
        /\ \A w \in Workers : ~ Recorded(m, w)'
    BY <2>1, <2>2, StaticFacts, EmptyMap DEF Recorded
  <2> QED BY <2>3 DEF GenerationInv
<1> QED BY <1>1, <1>2, <1>3, <1>4, AtProcess, FewerSteps DEF ProcessStep, Calls

(* In a process an item has one worker.                                     *)
LEMMA UniqueOwner ==
    ASSUME NEW v \in Workers, NEW w \in Workers, WorkerInv(v), WorkerInv(w), Home[v] = Home[w],
           NEW item, item \in worker[v].item \/ item \in Owns[v], item \in worker[w].item \/ item \in Owns[w]
    PROVE  v = w
BY OneCallerAssumption DEF WorkerInv

(* Settings, secrets and tasks are apart, and so are their markers.         *)
LEMMA Kinds ==
    /\ \A i \in Settings : i \in Items /\ i \notin Secrets /\ i \notin Tasks /\ i # TaskHistory /\ Marker(i) = i
    /\ \A i \in Secrets : i \in Items /\ i \notin Settings /\ i \notin Tasks /\ i # TaskHistory /\ Marker(i) = i
    /\ \A i \in Tasks : i \in Items /\ i \notin Settings /\ i \notin Secrets /\ Marker(i) = TaskHistory
    /\ TaskHistory \notin Settings \cup Secrets
    /\ Items = Settings \cup Secrets \cup Tasks /\ Markers = Settings \cup Secrets \cup {TaskHistory}
BY NamesAssumption DEF Marker, TaskHistory, Items, Markers

(* What the caller hears Ok for is in the files.                           *)
LEMMA EndIsSaved ==
    ASSUME Types, LockInv, FilesReached, \A v \in Workers : WorkerInv(v),
           NEW m \in Managers, PendingInv(m), CallerInv(m), Ends(m, "ok"),
           NEW w \in saving[m].by
    PROVE  worker[w].change \in reached
<1> SUFFICES ASSUME worker[w].change \notin reached PROVE FALSE
  OBVIOUS
<1>1. w \in Workers /\ Home[w] = m /\ worker[w].step = "persisting" /\ m \in live
  BY DEF LockInv, Ends
<1>2. PICK item \in Items : worker[w].item = {item}
  <2>1. worker[w].item # {}
    BY <1>1 DEF WorkerInv, FilesReached
  <2> QED BY <1>1, <2>1, WorkerOf
<1>3. /\ saving[m].step \in {"secrets", "store"}
      /\ saving[m].step = "secrets" => DOMAIN pending[m] \cap Secrets = {}
      /\ saving[m].step = "store" => DOMAIN saving[m].values = DOMAIN saving[m].keys
  BY DEF Ends
<1>4. /\ item \in Settings => saving[m].step \notin {"clear keys", "clear ops", "secrets", "store"}
      /\ item \in Secrets => (saving[m].step = "store" => item \in DOMAIN saving[m].keys \ DOMAIN saving[m].values)
      /\ item \in Tasks => saving[m].step \notin {"clear keys", "clear ops", "secrets", "store"}
  BY <1>2 DEF CallerInv, TakenAlong
<1>5. item \in Secrets /\ saving[m].step = "secrets"
  BY <1>3, <1>4, Kinds
<1>6. memory[m][item] = worker[w].change
  BY <1>1, <1>2, <1>5, Kinds DEF WorkerInv
<1>7. Unmarked(m, item)
  BY <1>1, <1>3, <1>5, <1>6 DEF PendingInv, ItemKept
<1>8. PICK v \in Workers : Home[v] = m /\ worker[v].item = {item} /\ worker[v].step \in Marking
  BY <1>7 DEF Unmarked
<1>9. v = w
  BY <1>1, <1>2, <1>8, UniqueOwner
<1> QED BY <1>1, <1>8, <1>9 DEF Marking

(* Every step keeps what is known of a worker; when it is answered Ok its   *)
(* change is in the files.                                                  *)
LEMMA WorkerNext ==
    ASSUME Types, LockInv, FilesReached, \A v \in Workers : WorkerInv(v), OneStep,
           NEW w \in Workers, PendingInv(Home[w]), CallerInv(Home[w])
    PROVE  WorkerInv(w)'
<1> DEFINE m == Home[w]
<1>0. m \in Managers /\ WorkerInv(w) /\ reached \subseteq reached' /\ now \in Nat /\ minted[m] \in Nat \ {0}
  BY HomeType, AtProcess DEF Types, CountersOK, Changes
<1>1. CASE Same(m)
  BY <1>0, <1>1 DEF Same, AllStay, WorkerInv
<1>2. ASSUME NEW v \in Workers, NEW item \in Items, ChangesItem(m, v, item) PROVE WorkerInv(w)'
  <2>1. CASE v = w
    <3>1. /\ worker'[w].item = {item} /\ worker'[w].change = now + 1 /\ worker'[w].step = "changed"
          /\ worker'[w].generation = 0 /\ item \in Owns[w] /\ m \in live'
          /\ memory'[m][item] = now + 1 \/ (item \in Tasks /\ memory'[m][item] = 0)
      BY <1>2, <2>1 DEF ChangesItem
    <3> QED BY <1>0, <3>1 DEF WorkerInv, Marking
  <2>2. CASE v # w
    <3>1. item \notin worker[w].item
      BY <1>2, <2>2, UniqueOwner DEF ChangesItem
    <3>2. worker'[w] = worker[w] /\ worker[w].item \subseteq Items
      BY <1>2, <2>2, HomeType DEF ChangesItem, Others, WorkerInv
    <3>3. \A i \in worker[w].item : memory'[m][i] = memory[m][i] \/ (i \in Tasks /\ memory'[m][i] = 0)
      BY <1>2, <3>1, <3>2 DEF ChangesItem
    <3> QED BY <1>0, <1>2, <3>2, <3>3 DEF ChangesItem, WorkerInv
  <2> QED BY <2>1, <2>2
<1>3. ASSUME NEW v \in Workers, NEW item \in Items, Records(m, v, item) \/ MarksItem(m, v, item) PROVE WorkerInv(w)'
  <2>1. CASE Records(m, v, item)
    BY <1>0, <2>1 DEF Records, Others, WorkerInv, Marking
  <2>2. CASE MarksItem(m, v, item)
    BY <1>0, <2>2 DEF MarksItem, Others, WorkerInv, Marking
  <2> QED BY <1>3, <2>1, <2>2
<1>4. ASSUME NEW v \in Workers, Moves(m, v) PROVE WorkerInv(w)'
  BY <1>0, <1>4, StaticFacts DEF Moves, Others, WorkerInv, Marking
<1>5. CASE Takes(m) \/ TakesDisk(m) \/ Writes(m) \/ \E key \in Secrets : Stores(m, key)
  <2>1. worker'[w] = worker[w] /\ memory'[m] = memory[m] /\ live' = live
    BY <1>5 DEF Takes, TakesKeys, TakesOps, Loads, ClearsKeys, ClearsOps, TakesSecrets, TakesDisk, Writes, Stores,
       Persists, AllStay
  <2> QED BY <1>0, <2>1 DEF WorkerInv
<1>6. CASE Ends(m, "failed")
  BY <1>0, <1>6, StaticFacts DEF Ends, WorkerInv, Marking
<1>7. CASE Ends(m, "ok")
  <2>1. w \in saving[m].by => worker[w].change \in reached
    BY <1>0, <1>7, EndIsSaved
  <2>2. w \in saving[m].by => worker[w].step = "persisting"
    BY <1>0 DEF LockInv
  <2> QED BY <1>0, <1>7, <2>1, <2>2 DEF Ends, WorkerInv, Marking
<1>8. CASE Crashes(m)
  BY <1>0, <1>8, StaticFacts DEF Crashes, WorkerInv, Marking
<1>9. CASE Starts(m)
  BY <1>0, <1>9, StaticFacts DEF Starts, AllStay, WorkerInv, Marking
<1> QED BY <1>0, <1>1, <1>2, <1>3, <1>4, <1>5, <1>6, <1>7, <1>8, <1>9, AtProcess DEF ProcessStep, Calls

(* The locks.                                                              *)
ProcessLocks(m) ==
    /\ saving[m].by = {w \in Workers : Home[w] = m /\ worker[w].step = "persisting"}
    /\ \A v, w \in saving[m].by : v = w
    /\ saving[m].step = "none" <=> saving[m] = NotSaving
    /\ m \notin live => pending[m] = <<>> /\ history[m] = <<>> /\ saving[m] = NotSaving

(* Every step keeps a persist tied to the worker that waits for it, and its *)
(* base the file as it is.                                                  *)
LEMMA ProcessLocksNext ==
    ASSUME Types, LockInv, \A v \in Workers : WorkerInv(v), OneStep, NEW m \in Managers
    PROVE  ProcessLocks(m)'
<1>0. ProcessLocks(m) /\ live \subseteq Managers
  BY DEF LockInv, ProcessLocks, Types, ProcessOK
<1> USE StaticFacts
<1>1. CASE Same(m)
  BY <1>0, <1>1 DEF Same, AllStay, ProcessLocks
<1>2. ASSUME NEW w \in Workers, NEW item \in Items, ChangesItem(m, w, item) \/ Records(m, w, item) \/ MarksItem(m, w, item)
      PROVE  ProcessLocks(m)'
  <2>1. m \in live' /\ saving'[m] = saving[m] /\ Others(w) /\ worker[w].step # "persisting" /\ worker'[w].step # "persisting"
    BY <1>2 DEF ChangesItem, Records, MarksItem
  <2> QED BY <1>0, <2>1 DEF Others, ProcessLocks
<1>3. ASSUME NEW w \in Workers, Moves(m, w) PROVE ProcessLocks(m)'
  <2>0. saving[m] \in SavingType
    BY RecordOf
  <2>1. m \in live' /\ Others(w) /\ Home[w] = m
    BY <1>3 DEF Moves
  <2>2. CASE worker[w].step \in {"idle", "saved"} /\ saving'[m] = saving[m] /\ worker'[w].step # "persisting"
    BY <1>0, <2>1, <2>2 DEF Others, ProcessLocks
  <2>3. CASE /\ worker[w].step = "calling" /\ saving[m] = NotSaving
             /\ worker'[w].step = "persisting" /\ saving'[m] = [NotSaving EXCEPT !.step = "locking", !.by = {w}]
    <3>1. saving'[m].by = {w} /\ saving'[m].step = "locking"
      BY <2>3 DEF NotSaving
    <3>2. \A v \in Workers : Home[v] = m => worker[v].step # "persisting"
      BY <1>0, <2>3 DEF ProcessLocks
    <3>3. {v \in Workers : Home[v] = m /\ worker'[v].step = "persisting"} = {w}
      BY <2>1, <2>3, <3>2 DEF Others
    <3> QED BY <1>0, <2>1, <2>3, <3>1, <3>3 DEF ProcessLocks
  <2>4. CASE /\ worker[w].step = "persisting" /\ worker'[w] = Quiet
             /\ saving'[m] = [saving[m] EXCEPT !.by = {}]
    <3>1. saving'[m].by = {} /\ saving'[m].step = saving[m].step
      BY <2>0, <2>4 DEF SavingType
    <3>2. w \in saving[m].by /\ saving[m] # NotSaving
      BY <1>0, <2>1, <2>4 DEF ProcessLocks
    <3>3. \A v \in Workers \ {w} : ~ (Home[v] = m /\ worker[v].step = "persisting")
      <4> SUFFICES ASSUME NEW v \in Workers \ {w}, Home[v] = m, worker[v].step = "persisting" PROVE FALSE
        OBVIOUS
      <4>1. v \in saving[m].by
        BY <1>0 DEF ProcessLocks
      <4> QED BY <1>0, <3>2, <4>1 DEF ProcessLocks
    <3>4. {v \in Workers : Home[v] = m /\ worker'[v].step = "persisting"} = {}
      BY <2>1, <2>4, <3>3 DEF Others
    <3> QED BY <1>0, <2>1, <3>1, <3>2, <3>4 DEF ProcessLocks
  <2> QED BY <1>3, <2>2, <2>3, <2>4 DEF Moves
<1>4. CASE Takes(m) \/ TakesDisk(m) \/ Writes(m) \/ \E key \in Secrets : Stores(m, key)
  <2>1. AllStay(m) /\ m \in live' /\ saving'[m].by = saving[m].by /\ saving[m].step # "none" /\ saving'[m].step # "none"
    BY <1>4 DEF Takes, TakesKeys, TakesOps, Loads, ClearsKeys, ClearsOps, TakesSecrets, TakesDisk, Writes, Stores,
       Persists
  <2> QED BY <1>0, <2>1 DEF AllStay, ProcessLocks
<1>5. CASE Ends(m, "ok") \/ Ends(m, "failed")
  <2>1. m \in live' /\ saving'[m] = NotSaving
    BY <1>5 DEF Ends
  <2>2. \A w \in Workers : Home[w] = m => worker'[w].step # "persisting"
    BY <1>0, <1>5 DEF Ends, ProcessLocks
  <2> QED BY <2>1, <2>2 DEF ProcessLocks
<1>6. CASE Crashes(m)
  BY <1>6 DEF Crashes, ProcessLocks
<1>7. CASE Starts(m)
  <2>1. m \in live' /\ saving'[m] = NotSaving /\ AllStay(m) /\ saving[m] = NotSaving
    BY <1>0, <1>7 DEF Starts, ProcessLocks
  <2> QED BY <1>0, <2>1 DEF AllStay, ProcessLocks
<1> QED BY <1>1, <1>2, <1>3, <1>4, <1>5, <1>6, <1>7, AtProcess DEF ProcessStep, Calls

Holds(m) ==
    /\ saving[m].step \notin {"none", "locking"} => m \in flock
    /\ saving[m].step = "write" => saving[m].base = disk

(* The locks, process by process.                                           *)
LEMMA LocksOf == LockInv <=> (\A m, n \in flock : m = n) /\ (\A m \in Managers : ProcessLocks(m) /\ Holds(m))
BY DEF LockInv, ProcessLocks, Holds

(* No two processes are ever past the directory's lock                      *)
(* (StatePersistenceLock).                                                  *)
LEMMA LockNext ==
    ASSUME Types, LockInv, \A v \in Workers : WorkerInv(v), OneStep
    PROVE  LockInv'
<1>1. \A m \in Managers : ProcessLocks(m)'
  BY ProcessLocksNext
<1>a. (\A m, n \in flock : m = n) /\ \A m \in Managers : Holds(m) /\ saving[m] \in SavingType
  BY LocksOf, RecordOf
<1>2. CASE (\A m \in Managers : Same(m)) /\ UNCHANGED <<now, disk, reached, flock>>
  <2>1. \A m \in Managers : Holds(m)'
    BY <1>a, <1>2 DEF Same, Holds
  <2> QED BY <1>1, <1>2, <1>a, <2>1 DEF LockInv, ProcessLocks, Holds
<1>3. ASSUME NEW m \in Managers, ProcessStep(m), \A n \in Managers \ {m} : Same(n) PROVE LockInv'
  <2> SUFFICES (\A k, n \in flock' : k = n) /\ Holds(m)' /\ \A n \in Managers \ {m} : Holds(n)'
    BY <1>1 DEF LockInv, ProcessLocks, Holds
  <2>0. \A n \in Managers \ {m} : saving'[n] = saving[n] /\ Holds(n)
    BY <1>3, <1>a DEF Same
  <2>1. CASE (\E w \in Workers, item \in Items : ChangesItem(m, w, item)) /\ UNCHANGED <<disk, reached, flock>>
    <3>1. saving'[m] = saving[m]
      BY <2>1 DEF ChangesItem
    <3> QED BY <1>a, <2>0, <2>1, <3>1 DEF Holds
  <2>2. CASE (Calls(m) \/ Takes(m) \/ Starts(m)) /\ UNCHANGED <<now, disk, reached, flock>>
    <3>1. Holds(m)'
      <4>1. ASSUME NEW w \in Workers, NEW item \in Items, Records(m, w, item) \/ MarksItem(m, w, item) PROVE Holds(m)'
        BY <1>a, <2>2, <4>1 DEF Records, MarksItem, Holds
      <4>2. ASSUME NEW w \in Workers, Moves(m, w) PROVE Holds(m)'
        <5>1. CASE saving'[m] = saving[m]
          BY <1>a, <2>2, <5>1 DEF Holds
        <5>2. CASE saving'[m] = [NotSaving EXCEPT !.step = "locking", !.by = {w}]
          <6>1. saving'[m].step = "locking"
            BY <5>2 DEF NotSaving
          <6> QED BY <6>1 DEF Holds
        <5>3. CASE saving'[m] = [saving[m] EXCEPT !.by = {}]
          <6>1. saving'[m].step = saving[m].step /\ saving'[m].base = saving[m].base
            BY <1>a, <5>3 DEF SavingType
          <6> QED BY <1>a, <2>2, <6>1 DEF Holds
        <5> QED BY <4>2, <5>1, <5>2, <5>3 DEF Moves
      <4>3. CASE Takes(m)
        BY <1>a, <2>2, <4>3 DEF Takes, TakesKeys, TakesOps, Loads, ClearsKeys, ClearsOps, TakesSecrets, Persists, Holds
      <4>4. CASE Starts(m)
        BY <1>a, <2>2, <4>4 DEF Starts, Holds
      <4> QED BY <2>2, <4>1, <4>2, <4>3, <4>4 DEF Calls
    <3> QED BY <1>a, <2>0, <2>2, <3>1 DEF Holds
  <2>3. CASE TakesDisk(m) /\ flock = {} /\ flock' = {m} /\ UNCHANGED <<now, disk, reached>>
    BY <1>a, <2>0, <2>3 DEF TakesDisk, Persists, Holds
  <2>4. CASE (Writes(m) \/ \E key \in Secrets : Stores(m, key)) /\ UNCHANGED <<now, flock>>
    <3>1. saving[m].step \in {"write", "store"} /\ saving'[m].step \in {"clear keys", "store"}
      BY <2>4 DEF Writes, Stores, Persists
    <3>2. m \in flock /\ \A n \in Managers \ {m} : n \notin flock
      BY <1>a, <3>1 DEF Holds
    <3> QED BY <1>a, <2>0, <2>4, <3>1, <3>2 DEF Holds
  <2>5. CASE (Ends(m, "ok") \/ Ends(m, "failed") \/ Crashes(m)) /\ flock' = flock \ {m} /\ UNCHANGED <<now, disk, reached>>
    <3>1. saving'[m].step = "none"
      BY <2>5, StaticFacts DEF Ends, Crashes
    <3> QED BY <1>a, <2>0, <2>5, <3>1 DEF Holds
  <2> QED BY <1>3, <2>1, <2>2, <2>3, <2>4, <2>5 DEF ProcessStep
<1> QED BY <1>2, <1>3 DEF OneStep

(* What is in a file was written.                                          *)
LEMMA WrittenFiles ==
    ASSUME Types, LockInv, FilesReached, NEW m \in Managers, SnapshotInv(m), GenerationInv(m), Writes(m)
    PROVE  \A item \in Items :
             /\ Merged(saving[m])[item] \in reached'
             /\ disk'[item] = Merged(saving[m])[item] \/ (item \in Tasks /\ disk'[item] = 0)
<1>1. Whole(saving[m]) /\ disk' = Newest(Merged(saving[m])) /\ reached' = reached \cup Range(Merged(saving[m]))
  BY WholeSaving DEF Writes, Persists
<1>2. Merged(saving[m]) \in [Items -> Changes]
  BY <1>1, MergedType
<1>3. \A item \in Items : disk'[item] = Merged(saving[m])[item] \/ (item \in Tasks /\ disk'[item] = 0)
  BY <1>1, <1>2, NewestType
<1>4. \A item \in Items : Merged(saving[m])[item] \in Range(Merged(saving[m]))
  BY <1>2 DEF Range
<1> QED BY <1>1, <1>3, <1>4

(* What is in a file counts as written.                                     *)
LEMMA FilesNext ==
    ASSUME Types, LockInv, FilesReached, \A m \in Managers : SnapshotInv(m) /\ GenerationInv(m), OneStep
    PROVE  FilesReached'
<1>1. CASE UNCHANGED <<disk, reached>>
  BY <1>1 DEF FilesReached
<1>2. ASSUME NEW m \in Managers, Writes(m) PROVE FilesReached'
  BY <1>2, WrittenFiles DEF Writes, FilesReached
<1>3. ASSUME NEW m \in Managers, NEW key \in Secrets, Stores(m, key) PROVE FilesReached'
  BY <1>3 DEF Stores, FilesReached, Types, FilesOK
<1> QED BY <1>1, <1>2, <1>3 DEF OneStep, ProcessStep

(* What is pending is the process's own.                                   *)
LEMMA OwnNext ==
    ASSUME Types, NEW m \in Managers, \A v \in Workers : WorkerInv(v), OwnInv(m), OneStep
    PROVE  OwnInv(m)'
<1>0. saving[m] \in SavingType /\ DOMAIN <<>> = {} /\ history[m] \in Ops
  BY RecordOf
<1>1. CASE Same(m)
  BY <1>1 DEF Same, OwnInv
<1>2. ASSUME NEW w \in Workers, NEW item \in Items, ChangesItem(m, w, item) PROVE OwnInv(m)'
  BY <1>2 DEF ChangesItem, OwnInv
<1>3. ASSUME NEW w \in Workers, NEW item \in Items, Records(m, w, item) \/ MarksItem(m, w, item) PROVE OwnInv(m)'
  <2>1. item \in Own(m)
    BY <1>3 DEF Records, MarksItem, WorkerInv, Own
  <2>2. CASE Records(m, w, item)
    <3>1. CASE item \in Tasks
      <4>1. Op(item, worker[w].change).task = item
        BY DEF Op
      <4>2. \A g \in DOMAIN history'[m] : history'[m][g].task \in Own(m)
        BY <2>1, <2>2, <3>1, <4>1 DEF Records, OwnInv
      <4> QED BY <2>2, <4>2 DEF Records, OwnInv
    <3>2. CASE item \notin Tasks
      BY <2>2, <3>2 DEF Records, OwnInv
    <3> QED BY <3>1, <3>2
  <2>3. CASE MarksItem(m, w, item)
    <3>1. Marker(item) \in Settings => Marker(item) = item
      BY Kinds
    <3> QED BY <2>1, <2>3, <3>1 DEF MarksItem, OwnInv
  <2> QED BY <1>3, <2>2, <2>3
<1>4. ASSUME NEW w \in Workers, Moves(m, w) PROVE OwnInv(m)'
  <2>1. Fewer(m)
    BY <1>4, FewerSteps
  <2> QED BY <1>4, <2>1 DEF Moves, Fewer, OwnInv
<1>5. CASE Takes(m)
  <2>1. Fewer(m)
    BY <1>5, FewerSteps
  <2>2. \A g \in DOMAIN history'[m] : g \in DOMAIN history[m] /\ history'[m][g] = history[m][g]
    BY <1>5 DEF Takes, TakesKeys, TakesOps, Loads, ClearsKeys, ClearsOps, TakesSecrets
  <2> QED BY <2>1, <2>2 DEF Fewer, OwnInv
<1>6. CASE TakesDisk(m) \/ Writes(m) \/ \E key \in Secrets : Stores(m, key)
  BY <1>6 DEF TakesDisk, Writes, Stores, Snapshots, OwnInv
<1>7. CASE Ends(m, "ok") \/ Ends(m, "failed")
  BY <1>7, StaticFacts DEF Ends, Forgets, OwnInv
<1>8. CASE Crashes(m)
  BY <1>0, <1>8, StaticFacts DEF Crashes, OwnInv
<1>9. CASE Starts(m)
  BY <1>9 DEF Starts, OwnInv
<1> QED BY <1>1, <1>2, <1>3, <1>4, <1>5, <1>6, <1>7, <1>8, <1>9, AtProcess DEF ProcessStep, Calls

(* Steps that neither make nor record a change.                            *)
Calm(m) ==
    /\ memory'[m] = memory[m]
    /\ \A g \in DOMAIN history'[m] : g \in DOMAIN history[m] /\ history'[m][g] = history[m][g]
    /\ \A w \in Workers : Home[w] = m =>
         \/ worker'[w] = worker[w]
         \/ worker'[w].item = {} /\ worker'[w].step \notin Marking
         \/ worker'[w].item = worker[w].item /\ worker'[w].change = worker[w].change /\ worker'[w].step \notin Marking

(* All but a change, its recording and a start are calm.                    *)
LEMMA CalmSteps ==
    ASSUME Types, NEW m \in Managers, \A w \in Workers : WorkerInv(w),
           \/ Same(m) \/ Takes(m) \/ TakesDisk(m) \/ Writes(m) \/ \E key \in Secrets : Stores(m, key)
           \/ Ends(m, "ok") \/ Ends(m, "failed") \/ Crashes(m)
           \/ \E w \in Workers : Moves(m, w) \/ \E item \in Items : MarksItem(m, w, item)
    PROVE  Calm(m)
<1> USE StaticFacts
<1>0. DOMAIN <<>> = {}
  BY EmptyMap
<1>1. CASE Same(m)
  BY <1>1 DEF Same, AllStay, Calm
<1>2. CASE Takes(m)
  BY <1>2 DEF Takes, TakesKeys, TakesOps, Loads, ClearsKeys, ClearsOps, TakesSecrets, Persists, AllStay, Calm
<1>3. CASE TakesDisk(m) \/ Writes(m) \/ \E key \in Secrets : Stores(m, key)
  BY <1>3 DEF TakesDisk, Writes, Stores, Persists, AllStay, Calm
<1>4. CASE Ends(m, "ok") \/ Ends(m, "failed")
  BY <1>4 DEF Ends, Marking, Calm
<1>5. CASE Crashes(m)
  BY <1>0, <1>5 DEF Crashes, Marking, Calm
<1>6. ASSUME NEW w \in Workers, Moves(m, w) PROVE Calm(m)
  BY <1>6 DEF Moves, Others, WorkerInv, Marking, Calm
<1>7. ASSUME NEW w \in Workers, NEW item \in Items, MarksItem(m, w, item) PROVE Calm(m)
  BY <1>7 DEF MarksItem, Others, Marking, Calm
<1> QED BY <1>1, <1>2, <1>3, <1>4, <1>5, <1>6, <1>7

(* A calm step keeps the order of the operations.                           *)
LEMMA CalmOrder ==
    ASSUME NEW m \in Managers, OrderInv(m), Calm(m)
    PROVE  OrderInv(m)'
<1>1. \A w \in Workers : Home[w] = m /\ worker'[w].step \in Marking => worker'[w] = worker[w]
  BY DEF Calm
<1>2. \A w \in Workers : Home[w] = m /\ worker'[w].item # {}
        => worker'[w].item = worker[w].item /\ worker'[w].change = worker[w].change
  BY DEF Calm
<1>3. \A g, h \in DOMAIN history'[m] : history'[m][g].task = history'[m][h].task /\ g < h
                                        => history'[m][g].change < history'[m][h].change
  BY DEF Calm, OrderInv
<1>4. ASSUME NEW g \in DOMAIN history'[m] PROVE Ordered(m, g)'
  <2>1. g \in DOMAIN history[m] /\ history'[m][g] = history[m][g] /\ memory'[m] = memory[m]
    BY <1>4 DEF Calm
  <2>2. ASSUME NEW w \in Workers, Home[w] = m, worker'[w].item = {history[m][g].task}
        PROVE  /\ history[m][g].change <= worker'[w].change
               /\ worker'[w].step = "changed" => history[m][g].change < worker'[w].change
               /\ worker'[w].step = "recorded" /\ worker'[w].generation = g
                   => history[m][g].change = worker'[w].change
    <3>1. worker[w].item = {history[m][g].task} /\ worker'[w].change = worker[w].change
      BY <1>2, <2>2
    <3>2. worker'[w].step \in Marking => worker'[w] = worker[w]
      BY <1>1, <2>2
    <3>3. Ordered(m, g)
      BY <2>1 DEF OrderInv
    <3> QED BY <2>2, <3>1, <3>2, <3>3 DEF Ordered, Marking
  <2>3. Ordered(m, g)
    BY <2>1 DEF OrderInv
  <2> QED BY <2>1, <2>2, <2>3 DEF Ordered
<1>5. \A w \in Workers : Recorded(m, w)' /\ worker'[w].generation \in DOMAIN history'[m]
                            => worker'[w].item = {history'[m][worker'[w].generation].task}
  BY <1>1 DEF Calm, OrderInv, Recorded, Marking
<1> QED BY <1>3, <1>4, <1>5 DEF OrderInv

(* An operation brings a change that was made.                              *)
LEMMA MadeBefore ==
    ASSUME Types, AllMade, NEW m \in Managers, NEW g \in DOMAIN history[m]
    PROVE  history[m][g].task \in Tasks /\ history[m][g].change \in Nat /\ history[m][g].change <= now /\ now \in Nat
<1>1. history[m] \in Ops
  BY RecordOf
<1>2. history[m][g].task \in Tasks /\ history[m][g].change \in Changes /\ history[m][g] = Op(history[m][g].task, history[m][g].change)
  BY <1>1, OpsOf
<1>3. Stored(history[m][g].task, history[m][g].change)
  BY <1>2 DEF Stored, StoredBy
<1> QED BY <1>2, <1>3, Kinds DEF AllMade, Types, CountersOK, Changes

(* Operations of one task stay in the order of their changes, whichever of  *)
(* its workers' steps come in between (record_history_operation).           *)
LEMMA OrderNext ==
    ASSUME Types, LockInv, NEW m \in Managers, \A v \in Workers : WorkerInv(v), GenerationInv(m), AllMade,
           OrderInv(m), OneStep
    PROVE  OrderInv(m)'
<1>0. /\ history[m] \in Ops /\ minted[m] \in Nat /\ DOMAIN history[m] \subseteq Nat
      /\ \A g \in DOMAIN history[m] : history[m][g].task \in Tasks /\ history[m][g].change \in Nat /\ history[m][g].change <= now
      /\ now \in Nat
  <2>1. history[m] \in Ops /\ minted[m] \in Nat /\ now \in Nat
    BY RecordOf DEF Types, CountersOK, Changes
  <2> QED BY <2>1, OpsOf, MadeBefore
<1>1. CASE Calm(m)
  BY <1>1, CalmOrder
<1>2. ASSUME NEW w \in Workers, NEW item \in Items, ChangesItem(m, w, item) PROVE OrderInv(m)'
  <2>1. history'[m] = history[m] /\ worker'[w].change = now + 1 /\ worker'[w].step = "changed" /\ Others(w)
        /\ worker'[w].item = {item} /\ Home[w] = m
    BY <1>2 DEF ChangesItem
  <2>2. \A i \in Items : memory'[m][i] = memory[m][i] \/ memory'[m][i] = now + 1 \/ memory'[m][i] = 0
    BY <1>2 DEF ChangesItem
  <2>3. \A g, h \in DOMAIN history'[m] : history'[m][g].task = history'[m][h].task /\ g < h
                                        => history'[m][g].change < history'[m][h].change
    BY <2>1 DEF OrderInv
  <2>4. ASSUME NEW g \in DOMAIN history'[m] PROVE Ordered(m, g)'
    <3>1. g \in DOMAIN history[m] /\ history'[m][g] = history[m][g] /\ history[m][g].change < now + 1
          /\ history[m][g].task \in Items
      BY <1>0, <2>1, <2>4, Kinds
    <3>2. memory'[m][history[m][g].task] = 0 \/ history[m][g].change <= memory'[m][history[m][g].task]
      BY <1>0, <2>2, <3>1 DEF OrderInv, Ordered
    <3>3. ASSUME NEW v \in Workers, Home[v] = m, worker'[v].item = {history[m][g].task}
          PROVE  /\ history[m][g].change <= worker'[v].change
                 /\ worker'[v].step = "changed" => history[m][g].change < worker'[v].change
                 /\ worker'[v].step = "recorded" /\ worker'[v].generation = g
                      => history[m][g].change = worker'[v].change
      BY <1>0, <2>1, <3>1, <3>3 DEF Others, OrderInv, Ordered
    <3> QED BY <3>1, <3>2, <3>3 DEF Ordered
  <2>5. \A v \in Workers : Recorded(m, v)' /\ worker'[v].generation \in DOMAIN history'[m]
                            => worker'[v].item = {history'[m][worker'[v].generation].task}
    BY <2>1 DEF OrderInv, Recorded, Others
  <2> QED BY <2>3, <2>4, <2>5 DEF OrderInv
<1>3. ASSUME NEW w \in Workers, NEW item \in Items, Records(m, w, item) PROVE OrderInv(m)'
  <2>0. /\ Home[w] = m /\ worker[w].step = "changed" /\ worker[w].item = {item} /\ memory'[m] = memory[m]
        /\ worker'[w].step = "recorded" /\ worker'[w].generation = minted[m]
        /\ worker'[w].item = {item} /\ worker'[w].change = worker[w].change /\ Others(w)
    BY <1>3 DEF Records
  <2>1. minted[m] \notin DOMAIN history[m] /\ \A g \in DOMAIN history[m] : g < minted[m]
    BY <1>0 DEF GenerationInv
  <2>2. worker[w].change \in Nat /\ \A v \in Workers : worker[v].generation \in Nat
    BY WorkerOf DEF Changes
  <2>3. \A v \in Workers : Recorded(m, v) => worker[v].generation < minted[m]
    BY DEF GenerationInv
  <2>4. \A v \in Workers : Home[v] = m /\ worker[v].item = {item} => v = w
    BY <2>0, UniqueOwner
  <2>5. CASE item \in Tasks
    <3>1. /\ DOMAIN history'[m] = DOMAIN history[m] \cup {minted[m]}
          /\ history'[m][minted[m]].task = item /\ history'[m][minted[m]].change = worker[w].change
          /\ \A g \in DOMAIN history[m] : history'[m][g] = history[m][g]
      BY <1>3, <2>1, <2>5 DEF Records, Op
    <3>2. \A g \in DOMAIN history[m] : history[m][g].task = item => history[m][g].change < worker[w].change
      BY <2>0 DEF OrderInv, Ordered
    <3>3. \A g, h \in DOMAIN history'[m] : history'[m][g].task = history'[m][h].task /\ g < h
                                        => history'[m][g].change < history'[m][h].change
      BY <1>0, <2>1, <3>1, <3>2 DEF OrderInv
    <3>4. ASSUME NEW g \in DOMAIN history[m] PROVE Ordered(m, g)'
      <4>1. ASSUME NEW v \in Workers, Home[v] = m, worker'[v].item = {history[m][g].task}
            PROVE  /\ history[m][g].change <= worker'[v].change
                   /\ worker'[v].step = "changed" => history[m][g].change < worker'[v].change
                   /\ worker'[v].step = "recorded" /\ worker'[v].generation = g
                        => history[m][g].change = worker'[v].change
        <5>1. CASE v = w
          BY <1>0, <2>0, <2>1, <2>2, <3>2, <4>1, <5>1
        <5>2. CASE v # w
          BY <2>0, <4>1, <5>2 DEF Others, OrderInv, Ordered
        <5> QED BY <5>1, <5>2
      <4> QED BY <2>0, <3>1, <4>1 DEF OrderInv, Ordered
    <3>5. /\ memory[m][item] = 0 \/ worker[w].change <= memory[m][item]
          /\ \A v \in Workers : Home[v] = m /\ worker'[v].item = {item} => v = w
      <4>1. memory[m][item] = 0 \/ memory[m][item] = worker[w].change
        BY <2>0 DEF WorkerInv
      <4> QED BY <2>0, <2>2, <2>4, <4>1 DEF Others
    <3>6. \A v \in Workers : Recorded(m, v)' /\ worker'[v].generation \in DOMAIN history'[m]
                            => worker'[v].item = {history'[m][worker'[v].generation].task}
      <4> SUFFICES ASSUME NEW v \in Workers, Recorded(m, v)', worker'[v].generation \in DOMAIN history'[m]
                   PROVE  worker'[v].item = {history'[m][worker'[v].generation].task}
        OBVIOUS
      <4>1. CASE v = w
        BY <2>0, <3>1, <4>1
      <4>2. CASE v # w
        <5>1. worker'[v] = worker[v] /\ Recorded(m, v)
          BY <2>0, <4>2 DEF Others, Recorded
        <5>2. worker[v].generation \in DOMAIN history[m]
          BY <1>0, <2>2, <2>3, <3>1, <5>1
        <5> QED BY <3>1, <5>1, <5>2 DEF OrderInv
      <4> QED BY <4>1, <4>2
    <3>7. ASSUME NEW g \in DOMAIN history'[m] PROVE Ordered(m, g)'
      <4>1. CASE g = minted[m]
        BY <2>0, <2>2, <3>1, <3>5, <4>1 DEF Ordered
      <4>2. CASE g \in DOMAIN history[m]
        BY <3>4, <4>2
      <4> QED BY <3>1, <3>7, <4>1, <4>2
    <3> QED BY <3>3, <3>6, <3>7 DEF OrderInv
  <2>6. CASE item \notin Tasks
    <3>1. history'[m] = history[m]
      BY <1>3, <2>6 DEF Records
    <3>2. \A v \in Workers : Recorded(m, v)' /\ worker'[v].generation \in DOMAIN history[m] => v # w /\ worker'[v] = worker[v]
      BY <2>0, <2>1 DEF Recorded, Others
    <3>3. \A g \in DOMAIN history[m], v \in Workers : worker'[v].item = {history[m][g].task} => v # w /\ worker'[v] = worker[v]
      BY <1>0, <2>0, <2>6 DEF Others
    <3>4. \A v \in Workers : Recorded(m, v)' /\ worker'[v].generation \in DOMAIN history'[m]
                            => worker'[v].item = {history'[m][worker'[v].generation].task}
      BY <3>1, <3>2 DEF OrderInv, Recorded
    <3>5. ASSUME NEW g \in DOMAIN history[m] PROVE Ordered(m, g)'
      BY <2>0, <3>1, <3>3 DEF OrderInv, Ordered
    <3> QED BY <2>0, <3>1, <3>4, <3>5 DEF OrderInv
  <2> QED BY <2>5, <2>6
<1>4. CASE Starts(m)
  <2>1. history'[m] = <<>> /\ DOMAIN <<>> = {}
    BY <1>4, EmptyMap DEF Starts, LockInv
  <2> QED BY <2>1 DEF OrderInv
<1> QED BY <1>1, <1>2, <1>3, <1>4, AtProcess, CalmSteps DEF ProcessStep, Calls

(* Every step keeps a persist's snapshots true to what they were taken      *)
(* from: operations that came later have later generations.                 *)
LEMMA SnapshotNext ==
    ASSUME Types, LockInv, NEW m \in Managers, GenerationInv(m), SnapshotInv(m), OneStep
    PROVE  SnapshotInv(m)'
<1> USE StaticFacts
<1>0. saving[m] \in SavingType /\ DOMAIN <<>> = {} /\ history[m] \in Ops /\ DOMAIN history[m] \subseteq Nat /\ minted[m] \in Nat
  BY EmptyMap, RecordOf, OpsOf DEF Types, CountersOK
<1>1. CASE Same(m) \/ Starts(m)
  BY <1>1 DEF Same, Starts, SnapshotInv
<1>2. ASSUME NEW w \in Workers, NEW item \in Items, ChangesItem(m, w, item) \/ MarksItem(m, w, item) PROVE SnapshotInv(m)'
  BY <1>2 DEF ChangesItem, MarksItem, SnapshotInv
<1>3. ASSUME NEW w \in Workers, NEW item \in Items, Records(m, w, item) PROVE SnapshotInv(m)'
  <2>1. saving'[m] = saving[m]
    BY <1>3 DEF Records
  <2>2. /\ DOMAIN history[m] \subseteq DOMAIN history'[m] /\ DOMAIN history'[m] \subseteq DOMAIN history[m] \cup {minted[m]}
        /\ \A g \in DOMAIN history[m] : history'[m][g] = history[m][g] /\ g < minted[m]
    BY <1>0, <1>3 DEF Records, GenerationInv
  <2> QED BY <2>1, <2>2 DEF SnapshotInv
<1>4. ASSUME NEW w \in Workers, Moves(m, w) PROVE SnapshotInv(m)'
  <2>1. history'[m] = history[m]
    BY <1>4 DEF Moves
  <2>2. CASE saving'[m] = saving[m]
    BY <2>1, <2>2 DEF SnapshotInv
  <2>3. CASE saving'[m] = [NotSaving EXCEPT !.step = "locking", !.by = {w}]
    <3>1. saving'[m].step = "locking"
      BY <2>3 DEF NotSaving
    <3> QED BY <3>1 DEF SnapshotInv, Writing
  <2>4. CASE saving'[m] = [saving[m] EXCEPT !.by = {}]
    <3>1. /\ saving'[m].step = saving[m].step /\ saving'[m].keys = saving[m].keys /\ saving'[m].ops = saving[m].ops
          /\ saving'[m].values = saving[m].values
      BY <1>0, <2>4 DEF SavingType
    <3> QED BY <2>1, <3>1 DEF SnapshotInv
  <2> QED BY <1>4, <2>2, <2>3, <2>4 DEF Moves
<1>5. CASE Takes(m)
  BY <1>0, <1>5 DEF Takes, TakesKeys, TakesOps, Loads, ClearsKeys, ClearsOps, TakesSecrets, Snapshots, Persists,
     SnapshotInv, Writing
<1>6. CASE TakesDisk(m) \/ Writes(m)
  BY <1>6 DEF TakesDisk, Writes, Snapshots, Persists, SnapshotInv, Writing
<1>7. ASSUME NEW key \in Secrets, Stores(m, key) PROVE SnapshotInv(m)'
  BY <1>7 DEF Stores, Persists, SnapshotInv, Writing
<1>8. CASE Ends(m, "ok") \/ Ends(m, "failed") \/ Crashes(m)
  BY <1>8 DEF Ends, Crashes, SnapshotInv, Writing
<1> QED BY <1>1, <1>2, <1>3, <1>4, <1>5, <1>6, <1>7, <1>8, AtProcess DEF ProcessStep, Calls

(* The operations of what memory has, and of what a worker made last.      *)
LEMMA NewestOps ==
    ASSUME Types, NEW m \in Managers, OrderInv(m), NEW g \in DOMAIN history[m]
    PROVE  /\ history[m][g].change = memory[m][history[m][g].task] /\ history[m][g].change # 0 => Latest(history[m], g)
           /\ \A w \in Workers : Home[w] = m /\ worker[w].item = {history[m][g].task}
                                   /\ worker[w].change = history[m][g].change => Latest(history[m], g)
<1>1. history[m] \in Ops
  BY RecordOf
<1>2. DOMAIN history[m] \subseteq Nat /\ \A h \in DOMAIN history[m] : history[m][h].change \in Nat
  BY <1>1, OpsOf DEF Changes
<1>3. ASSUME NEW h \in DOMAIN history[m], history[m][h].task = history[m][g].task, ~ (h <= g)
      PROVE  history[m][g].change < history[m][h].change /\ Ordered(m, h)
  <2>1. g < h
    BY <1>2, <1>3
  <2> QED BY <1>3, <2>1 DEF OrderInv
<1>4. ASSUME history[m][g].change = memory[m][history[m][g].task], history[m][g].change # 0,
             NEW h \in DOMAIN history[m], history[m][h].task = history[m][g].task
      PROVE  h <= g
  BY <1>2, <1>3, <1>4 DEF Ordered
<1>5. ASSUME NEW w \in Workers, Home[w] = m, worker[w].item = {history[m][g].task},
             worker[w].change = history[m][g].change,
             NEW h \in DOMAIN history[m], history[m][h].task = history[m][g].task
      PROVE  h <= g
  BY <1>2, <1>3, <1>5 DEF Ordered
<1> QED BY <1>4, <1>5 DEF Latest

(* What a persist clears has been written.                                 *)
LEMMA ClearedIsWritten ==
    ASSUME NEW m \in Managers, SnapshotInv(m), ClearInv(m), saving[m].step \in {"clear keys", "clear ops"},
           NEW g \in DOMAIN saving[m].ops, Latest(history[m], g)
    PROVE  history[m][g].change \in reached
<1>1. /\ DOMAIN saving[m].ops \subseteq DOMAIN history[m]
      /\ \A h \in DOMAIN saving[m].ops : saving[m].ops[h] = history[m][h]
  BY DEF SnapshotInv, Writing
<1>2. Latest(saving[m].ops, g)
  BY <1>1 DEF Latest
<1> QED BY <1>1, <1>2 DEF ClearInv

(* Steps that clear nothing.                                               *)
Keeps(m) ==
    /\ memory'[m] = memory[m] /\ history'[m] = history[m] /\ pending'[m] = pending[m] /\ (m \in live' => m \in live)
    /\ \A w \in Workers : Home[w] = m =>
         /\ worker[w].step \in Marking => worker'[w] = worker[w]
         /\ worker'[w].step \in Unsaved /\ worker'[w].item # {} =>
              worker[w].step \in Unsaved /\ worker'[w].item = worker[w].item /\ worker'[w].change = worker[w].change

(* All steps of a process but its workers' changes and the clearings leave  *)
(* what is pending in place.                                                *)
LEMMA KeepsSteps ==
    ASSUME Types, NEW m \in Managers, \A w \in Workers : WorkerInv(w), LockInv,
           \/ Same(m) \/ TakesKeys(m) \/ TakesOps(m) \/ Loads(m) \/ TakesSecrets(m) \/ TakesDisk(m)
           \/ Writes(m) \/ \E key \in Secrets : Stores(m, key)
           \/ \E w \in Workers : Moves(m, w)
    PROVE  Keeps(m)
<1> USE StaticFacts
<1>1. CASE Same(m)
  BY <1>1 DEF Same, AllStay, Keeps
<1>2. CASE TakesKeys(m) \/ TakesOps(m) \/ Loads(m) \/ TakesSecrets(m) \/ TakesDisk(m)
           \/ Writes(m) \/ \E key \in Secrets : Stores(m, key)
  BY <1>2 DEF TakesKeys, TakesOps, Loads, TakesSecrets, TakesDisk, Writes, Stores, Persists, AllStay, Keeps
<1>3. ASSUME NEW w \in Workers, Moves(m, w) PROVE Keeps(m)
  <2>1. worker[w].step = "idle" => worker[w].item = {}
    BY DEF WorkerInv
  <2> QED BY <1>3, <2>1 DEF Moves, Others, Marking, Unsaved, Keeps
<1> QED BY <1>1, <1>2, <1>3

(* Where nothing is forgotten, what was kept is kept.                       *)
LEMMA KeepsPending ==
    ASSUME NEW m \in Managers, PendingInv(m), Keeps(m), reached \subseteq reached'
    PROVE  PendingInv(m)'
<1>1. \A w \in Workers : Home[w] = m /\ worker[w].step \in Marking => worker'[w] = worker[w]
  BY DEF Keeps
<1>2. ASSUME NEW task \in Tasks, TaskKept(m, task) PROVE TaskKept(m, task)'
  BY <1>1, <1>2 DEF TaskKept, Keeps, Marking
<1>3. ASSUME NEW item, ItemKept(m, item) PROVE ItemKept(m, item)'
  BY <1>1, <1>3 DEF ItemKept, Unmarked, Keeps
<1>4. ASSUME NEW g \in DOMAIN history[m], OperationKept(m, g) PROVE OperationKept(m, g)'
  BY <1>1, <1>4 DEF OperationKept, Recorded, Keeps, Marking
<1>5. ASSUME NEW w \in Workers, Home[w] = m, WorkerKept(m, w) PROVE WorkerKept(m, w)'
  BY <1>5 DEF WorkerKept, Keeps
<1> QED BY <1>2, <1>3, <1>4, <1>5 DEF PendingInv, Keeps

(* A new change is its worker's to record and mark.                         *)
LEMMA ChangePending ==
    ASSUME Types, NEW m \in Managers, PendingInv(m), FilesReached, \A v \in Workers : WorkerInv(v),
           NEW w \in Workers, NEW item \in Items, ChangesItem(m, w, item), reached \subseteq reached'
    PROVE  PendingInv(m)'
<1>0. /\ Home[w] = m /\ m \in live /\ worker[w].step = "idle" /\ Others(w)
      /\ worker'[w].step = "changed" /\ worker'[w].item = {item} /\ worker'[w].change = now + 1
      /\ history'[m] = history[m] /\ pending'[m] = pending[m] /\ 0 \in reached'
      /\ \A i \in Items : \/ memory'[m][i] = IF i = item THEN now + 1 ELSE memory[m][i]
                          \/ i \in Tasks /\ memory'[m][i] = 0
  BY DEF ChangesItem, FilesReached
<1>1. \A v \in Workers : worker[v].step \in Marking => worker'[v] = worker[v]
  BY <1>0 DEF Others, Marking
<1>2. ASSUME NEW task \in Tasks, TaskKept(m, task) PROVE TaskKept(m, task)'
  <2>1. task \in Items
    BY Kinds
  <2>2. CASE memory'[m][task] = 0
    BY <1>0, <2>2 DEF TaskKept
  <2>3. CASE task = item /\ memory'[m][task] = now + 1
    BY <1>0, <2>3 DEF TaskKept
  <2>4. CASE memory'[m][task] = memory[m][task]
    BY <1>0, <1>1, <1>2, <2>4 DEF TaskKept, Marking
  <2> QED BY <1>0, <2>1, <2>2, <2>3, <2>4
<1>3. ASSUME NEW i \in Settings \cup Secrets, ItemKept(m, i) PROVE ItemKept(m, i)'
  <2>1. i \in Items /\ i \notin Tasks
    BY Kinds
  <2>2. CASE i = item
    BY <1>0, <2>2 DEF ItemKept, Unmarked, Marking
  <2>3. CASE i # item
    BY <1>0, <1>1, <1>3, <2>1, <2>3 DEF ItemKept, Unmarked
  <2> QED BY <2>2, <2>3
<1>4. ASSUME NEW g \in DOMAIN history[m], OperationKept(m, g) PROVE OperationKept(m, g)'
  BY <1>0, <1>1, <1>4 DEF OperationKept, Recorded, Marking
<1>5. ASSUME NEW v \in Workers, Home[v] = m, WorkerKept(m, v) PROVE WorkerKept(m, v)'
  BY <1>0, <1>5 DEF WorkerKept, Others, Unsaved
<1>6. live' = live
  BY DEF ChangesItem
<1> QED BY <1>0, <1>2, <1>3, <1>4, <1>5, <1>6 DEF PendingInv

(* A recorded change has its operation in the history, or its worker to     *)
(* mark it.                                                                 *)
LEMMA RecordPending ==
    ASSUME Types, NEW m \in Managers, PendingInv(m), GenerationInv(m),
           NEW w \in Workers, NEW item \in Items, Records(m, w, item), reached \subseteq reached'
    PROVE  PendingInv(m)'
<1>0. /\ Home[w] = m /\ m \in live /\ live' = live /\ worker[w].step = "changed" /\ Others(w)
      /\ worker[w].item = {item}
      /\ worker'[w].step = "recorded" /\ worker'[w].item = {item} /\ worker'[w].change = worker[w].change
      /\ worker'[w].generation = minted[m] /\ memory'[m] = memory[m] /\ pending'[m] = pending[m]
  BY DEF Records
<1>1. /\ \A g \in DOMAIN history[m] : g \in DOMAIN history'[m] /\ history'[m][g] = history[m][g]
      /\ \A g \in DOMAIN history'[m] : g \in DOMAIN history[m] \/ g = minted[m]
      /\ item \in Tasks => minted[m] \in DOMAIN history'[m] /\ history'[m][minted[m]] = Op(item, worker[w].change)
  <2>1. \A g \in DOMAIN history[m] : g # minted[m]
    <3>1. history[m] \in Ops /\ minted[m] \in Nat
      BY RecordOf DEF Types, CountersOK
    <3>2. DOMAIN history[m] \subseteq Nat
      BY <3>1, OpsOf
    <3> QED BY <3>1, <3>2 DEF GenerationInv
  <2> QED BY <2>1 DEF Records
<1>2. ASSUME NEW task \in Tasks, TaskKept(m, task) PROVE TaskKept(m, task)'
  <2>1. CASE memory[m][task] \in reached \/ \E g \in DOMAIN history[m] : history[m][g] = Op(task, memory[m][task])
    BY <1>0, <1>1, <2>1 DEF TaskKept
  <2>2. ASSUME NEW v \in Workers, Home[v] = m, worker[v].item = {task}, worker[v].step = "changed",
               worker[v].change = memory[m][task]
        PROVE  TaskKept(m, task)'
    <3>1. CASE v = w
      BY <1>0, <1>1, <2>2, <3>1 DEF TaskKept
    <3>2. CASE v # w
      BY <1>0, <2>2, <3>2 DEF TaskKept, Others
    <3> QED BY <3>1, <3>2
  <2> QED BY <1>2, <2>1, <2>2 DEF TaskKept
<1>3. ASSUME NEW i \in Settings \cup Secrets, ItemKept(m, i) PROVE ItemKept(m, i)'
  BY <1>0, <1>3 DEF ItemKept, Unmarked, Marking, Others
<1>4. ASSUME NEW g \in DOMAIN history'[m] PROVE OperationKept(m, g)'
  <2>1. CASE g = minted[m]
    BY <1>0, <2>1 DEF OperationKept, Recorded
  <2>2. CASE g \in DOMAIN history[m]
    <3>1. OperationKept(m, g)
      BY <2>2 DEF PendingInv
    <3>2. Latest(history'[m], g) => Latest(history[m], g)
      BY <1>1, <2>2 DEF Latest
    <3>3. \A v \in Workers : Recorded(m, v) => Recorded(m, v)' /\ worker'[v] = worker[v]
      BY <1>0 DEF Recorded, Others
    <3> QED BY <1>0, <1>1, <2>2, <3>1, <3>2, <3>3 DEF OperationKept
  <2> QED BY <1>1, <1>4, <2>1, <2>2
<1>5. ASSUME NEW v \in Workers, Home[v] = m, WorkerKept(m, v) PROVE WorkerKept(m, v)'
  <2>1. CASE v = w
    BY <1>0, <1>1, <2>1 DEF WorkerKept
  <2>2. CASE v # w
    BY <1>0, <1>1, <1>5, <2>2 DEF WorkerKept, Others
  <2> QED BY <2>1, <2>2
<1> QED BY <1>0, <1>2, <1>3, <1>4, <1>5 DEF PendingInv

(* A marked change is pending.                                              *)
LEMMA MarkPending ==
    ASSUME Types, NEW m \in Managers, PendingInv(m), OrderInv(m),
           NEW w \in Workers, NEW item \in Items, MarksItem(m, w, item), reached \subseteq reached'
    PROVE  PendingInv(m)'
<1>0. /\ Home[w] = m /\ m \in live /\ live' = live /\ worker[w].step = "recorded" /\ Others(w)
      /\ worker[w].item = {item}
      /\ worker'[w].step = "calling" /\ worker'[w].item = {item} /\ worker'[w].change = worker[w].change
      /\ memory'[m] = memory[m] /\ history'[m] = history[m]
      /\ DOMAIN pending'[m] = DOMAIN pending[m] \cup {Marker(item)}
  BY DEF MarksItem
<1>2. ASSUME NEW task \in Tasks, TaskKept(m, task) PROVE TaskKept(m, task)'
  BY <1>0, <1>2 DEF TaskKept, Others
<1>3. ASSUME NEW i \in Settings \cup Secrets, ItemKept(m, i) PROVE ItemKept(m, i)'
  <2>1. CASE i = item
    BY <1>0, <2>1, Kinds DEF ItemKept
  <2>2. CASE i # item
    BY <1>0, <1>3, <2>2 DEF ItemKept, Unmarked, Others
  <2> QED BY <2>1, <2>2
<1>4. ASSUME NEW g \in DOMAIN history[m], OperationKept(m, g) PROVE OperationKept(m, g)'
  <2>1. CASE worker[w].generation = g
    <3>1. history[m] \in Ops
      BY RecordOf
    <3>2. history[m][g].task \in Tasks /\ worker[w].item = {history[m][g].task}
      BY <1>0, <2>1, <3>1, OpsOf DEF OrderInv, Recorded
    <3>3. Marker(item) = TaskHistory
      BY <1>0, <3>2, Kinds
    <3> QED BY <1>0, <3>3 DEF OperationKept
  <2>2. CASE worker[w].generation # g
    BY <1>0, <1>4, <2>2 DEF OperationKept, Recorded, Others
  <2> QED BY <2>1, <2>2
<1>5. ASSUME NEW v \in Workers, Home[v] = m, WorkerKept(m, v) PROVE WorkerKept(m, v)'
  BY <1>0, <1>5 DEF WorkerKept, Others, Unsaved
<1> QED BY <1>0, <1>2, <1>3, <1>4, <1>5 DEF PendingInv

(* Clearing the markers of a write forgets no change that came after its    *)
(* snapshots (clear_global_pending).                                        *)
LEMMA ClearKeysPending ==
    ASSUME Types, NEW m \in Managers, PendingInv(m), SnapshotInv(m), ClearInv(m), ClearsKeys(m), reached \subseteq reached'
    PROVE  PendingInv(m)'
<1>0. /\ saving[m].step = "clear keys" /\ memory'[m] = memory[m] /\ history'[m] = history[m] /\ live' = live /\ AllStay(m)
      /\ Forgets(m, saving[m].keys)
  BY DEF ClearsKeys, Persists
<1>2. ASSUME NEW task \in Tasks, TaskKept(m, task) PROVE TaskKept(m, task)'
  BY <1>0, <1>2 DEF TaskKept, AllStay
<1>3. ASSUME NEW i \in Settings \cup Secrets, ItemKept(m, i) PROVE ItemKept(m, i)'
  <2>1. CASE i \in DOMAIN pending[m] /\ i \notin DOMAIN pending'[m]
    <3>1. i \in DOMAIN saving[m].keys /\ pending[m][i] = saving[m].keys[i]
      BY <1>0, <2>1 DEF Forgets
    <3>2. i \in Settings
      BY <1>0, <1>3, <3>1 DEF SnapshotInv, Writing
    <3>3. memory[m][i] \in reached \/ Unmarked(m, i)
      BY <1>0, <3>1, <3>2 DEF ClearInv, Redone
    <3> QED BY <1>0, <3>3 DEF ItemKept, Unmarked, AllStay
  <2>2. CASE i \in DOMAIN pending[m] => i \in DOMAIN pending'[m]
    BY <1>0, <1>3, <2>2 DEF ItemKept, Unmarked, AllStay
  <2> QED BY <2>1, <2>2
<1>4. ASSUME NEW g \in DOMAIN history[m], OperationKept(m, g) PROVE OperationKept(m, g)'
  <2>1. CASE TaskHistory \in DOMAIN pending[m] /\ TaskHistory \notin DOMAIN pending'[m]
    <3>1. TaskHistory \in DOMAIN saving[m].keys /\ pending[m][TaskHistory] = saving[m].keys[TaskHistory]
      BY <1>0, <2>1 DEF Forgets
    <3>2. CASE g \in DOMAIN saving[m].ops
      <4>1. Latest(history[m], g) => history[m][g].change \in reached
        BY <1>0, <3>2, ClearedIsWritten
      <4> QED BY <1>0, <4>1 DEF OperationKept
    <3>3. CASE g \notin DOMAIN saving[m].ops
      <4>1. \E w \in Workers : Recorded(m, w) /\ worker[w].generation = g
        BY <1>0, <3>1, <3>3 DEF ClearInv, MarkedSince
      <4> QED BY <1>0, <4>1 DEF OperationKept, Recorded, AllStay
    <3> QED BY <3>2, <3>3
  <2>2. CASE TaskHistory \in DOMAIN pending[m] => TaskHistory \in DOMAIN pending'[m]
    BY <1>0, <1>4, <2>2 DEF OperationKept, Recorded, AllStay
  <2> QED BY <2>1, <2>2
<1>5. ASSUME NEW w \in Workers, Home[w] = m, WorkerKept(m, w) PROVE WorkerKept(m, w)'
  BY <1>0, <1>5 DEF WorkerKept, AllStay
<1> QED BY <1>0, <1>2, <1>3, <1>4, <1>5 DEF PendingInv

(* Clearing the operations of a write forgets none that came later          *)
(* (clear_history_pending).                                                 *)
LEMMA ClearOpsPending ==
    ASSUME Types, NEW m \in Managers, PendingInv(m), SnapshotInv(m), ClearInv(m), OrderInv(m), FilesReached,
           ClearsOps(m), reached \subseteq reached'
    PROVE  PendingInv(m)'
<1>0. /\ saving[m].step = "clear ops" /\ memory'[m] = memory[m] /\ pending'[m] = pending[m] /\ live' = live /\ AllStay(m)
      /\ DOMAIN history'[m] = DOMAIN history[m] \ DOMAIN saving[m].ops
      /\ \A g \in DOMAIN history'[m] : history'[m][g] = history[m][g]
  BY DEF ClearsOps, Persists
<1>1. ASSUME NEW g \in DOMAIN history[m], Latest(history[m], g), history[m][g].change \notin reached
      PROVE  g \in DOMAIN history'[m]
  BY <1>0, <1>1, ClearedIsWritten
<1>2. ASSUME NEW task \in Tasks, TaskKept(m, task) PROVE TaskKept(m, task)'
  <2>1. ASSUME NEW g \in DOMAIN history[m], history[m][g] = Op(task, memory[m][task]), memory[m][task] \notin reached
        PROVE  TaskKept(m, task)'
    <3>1. history[m][g].task = task /\ history[m][g].change = memory[m][task] /\ memory[m][task] # 0
      BY <2>1 DEF Op, FilesReached
    <3>2. g \in DOMAIN history'[m]
      BY <1>1, <2>1, <3>1, NewestOps
    <3> QED BY <1>0, <2>1, <3>2 DEF TaskKept
  <2> QED BY <1>0, <1>2, <2>1 DEF TaskKept, AllStay
<1>3. ASSUME NEW i \in Settings \cup Secrets, ItemKept(m, i) PROVE ItemKept(m, i)'
  BY <1>0, <1>3 DEF ItemKept, Unmarked, AllStay
<1>4. ASSUME NEW g \in DOMAIN history'[m], OperationKept(m, g) PROVE OperationKept(m, g)'
  <2>a. history[m] \in Ops
    BY RecordOf
  <2>0. DOMAIN history[m] \subseteq Nat /\ g \in Nat
    BY <1>0, <1>4, <2>a, OpsOf
  <2>1. ASSUME Latest(history'[m], g) PROVE Latest(history[m], g)
    <3>1. \A h \in DOMAIN saving[m].ops : h < g
      BY <1>0, <1>4 DEF SnapshotInv, Writing
    <3>2. ASSUME NEW h \in DOMAIN history[m], history[m][h].task = history[m][g].task PROVE h <= g
      <4>1. CASE h \in DOMAIN saving[m].ops
        <5>1. h < g
          BY <3>1, <4>1
        <5>2. h \in Nat /\ g \in Nat
          BY <2>0, <3>2
        <5> QED BY <5>1, <5>2
      <4>2. CASE h \notin DOMAIN saving[m].ops
        BY <1>0, <2>1, <3>2, <4>2 DEF Latest
      <4> QED BY <4>1, <4>2
    <3> QED BY <3>2 DEF Latest
  <2> QED BY <1>0, <1>4, <2>1 DEF OperationKept, Recorded, AllStay
<1>5. ASSUME NEW w \in Workers, Home[w] = m, WorkerKept(m, w) PROVE WorkerKept(m, w)'
  <2>1. ASSUME NEW task \in Tasks, worker[w].item = {task}, worker[w].change \notin reached,
               NEW g \in DOMAIN history[m], history[m][g] = Op(task, worker[w].change)
        PROVE  g \in DOMAIN history'[m]
    <3>1. history[m][g].task = task /\ history[m][g].change = worker[w].change
      BY <2>1 DEF Op
    <3> QED BY <1>1, <1>5, <2>1, <3>1, NewestOps
  <2>2. ASSUME NEW task \in Tasks, worker'[w].item = {task}, worker'[w].step \in Unsaved, worker'[w].change \notin reached'
        PROVE  \E g \in DOMAIN history'[m] : history'[m][g] = Op(task, worker'[w].change)
    <3>1. worker'[w] = worker[w] /\ worker[w].change \notin reached
      BY <1>0, <1>5, <2>2 DEF AllStay
    <3>2. PICK g \in DOMAIN history[m] : history[m][g] = Op(task, worker[w].change)
      BY <1>5, <2>2, <3>1 DEF WorkerKept
    <3>3. g \in DOMAIN history'[m]
      BY <2>1, <2>2, <3>1, <3>2
    <3> QED BY <1>0, <3>1, <3>2, <3>3
  <2> QED BY <2>2 DEF WorkerKept
<1> QED BY <1>0, <1>2, <1>3, <1>4, <1>5 DEF PendingInv

(* The end of a persist forgets no secret that changed while it stored      *)
(* (clear_secret_pending).                                                  *)
LEMMA EndPending ==
    ASSUME Types, LockInv, NEW m \in Managers, PendingInv(m), SnapshotInv(m), ClearInv(m),
           Ends(m, "ok") \/ Ends(m, "failed"), reached \subseteq reached'
    PROVE  PendingInv(m)'
<1>0. /\ memory'[m] = memory[m] /\ history'[m] = history[m] /\ live' = live /\ m \in live
      /\ \A w \in Workers : Home[w] = m =>
           worker'[w] = worker[w] \/ (worker[w].step = "persisting" /\ worker'[w].step \notin Unsaved)
  BY StaticFacts DEF Ends, LockInv, Unsaved
<1>1. \/ pending'[m] = pending[m]
      \/ /\ saving[m].step = "store" /\ DOMAIN saving[m].values = DOMAIN saving[m].keys
         /\ Forgets(m, saving[m].keys)
  BY DEF Ends
<1>2. ASSUME NEW task \in Tasks, TaskKept(m, task) PROVE TaskKept(m, task)'
  BY <1>0, <1>2 DEF TaskKept, Marking
<1>3. ASSUME NEW i \in Settings \cup Secrets, ItemKept(m, i) PROVE ItemKept(m, i)'
  <2>0. Unmarked(m, i) => Unmarked(m, i)'
    BY <1>0 DEF Unmarked, Marking
  <2>1. CASE i \in DOMAIN pending[m] /\ i \notin DOMAIN pending'[m]
    <3>1. saving[m].step = "store" /\ i \in DOMAIN saving[m].values /\ pending[m][i] = saving[m].keys[i]
      BY <1>1, <2>1 DEF Forgets
    <3>2. memory[m][i] \in reached \/ Unmarked(m, i)
      BY <3>1 DEF ClearInv, Redone
    <3> QED BY <1>0, <2>0, <3>2 DEF ItemKept
  <2>2. CASE i \in DOMAIN pending[m] => i \in DOMAIN pending'[m]
    BY <1>0, <1>3, <2>0, <2>2 DEF ItemKept
  <2> QED BY <2>1, <2>2
<1>4. ASSUME NEW g \in DOMAIN history[m], OperationKept(m, g) PROVE OperationKept(m, g)'
  <2>1. TaskHistory \in DOMAIN pending[m] => TaskHistory \in DOMAIN pending'[m]
    BY <1>1, Kinds DEF Forgets, SnapshotInv
  <2> QED BY <1>0, <1>4, <2>1 DEF OperationKept, Recorded
<1>5. ASSUME NEW w \in Workers, Home[w] = m, WorkerKept(m, w) PROVE WorkerKept(m, w)'
  BY <1>0, <1>5 DEF WorkerKept
<1> QED BY <1>0, <1>2, <1>3, <1>4, <1>5 DEF PendingInv

(* In every step: what no file has yet is still to be recorded, to be       *)
(* marked, or pending.                                                      *)
LEMMA PendingNext ==
    ASSUME Types, LockInv, FilesReached, NEW m \in Managers, \A v \in Workers : WorkerInv(v), GenerationInv(m),
           OrderInv(m), PendingInv(m), SnapshotInv(m), ClearInv(m), OneStep
    PROVE  PendingInv(m)'
<1>0. reached \subseteq reached'
  BY AtProcess
<1>1. CASE Keeps(m)
  BY <1>0, <1>1, KeepsPending
<1>2. ASSUME NEW w \in Workers, NEW item \in Items, ChangesItem(m, w, item) \/ Records(m, w, item) \/ MarksItem(m, w, item)
      PROVE  PendingInv(m)'
  BY <1>0, <1>2, ChangePending, RecordPending, MarkPending
<1>3. CASE ClearsKeys(m) \/ ClearsOps(m) \/ Ends(m, "ok") \/ Ends(m, "failed")
  BY <1>0, <1>3, ClearKeysPending, ClearOpsPending, EndPending
<1>4. CASE Crashes(m)
  BY <1>4, EmptyMap, StaticFacts DEF Crashes, PendingInv, WorkerKept
<1>5. CASE Starts(m) /\ disk' = disk
  <2>1. /\ DOMAIN history'[m] = {} /\ memory'[m] = Newest(disk)
        /\ \A w \in Workers : Home[w] = m => worker'[w] = Quiet
    BY <1>5, EmptyMap DEF Starts, LockInv, AllStay, WorkerInv
  <2>2. \A item \in Items : Newest(disk)[item] \in reached'
    BY <1>0, NewestType DEF FilesReached, Types, FilesOK
  <2>3. \A item \in Items : memory'[m][item] \in reached'
    BY <2>1, <2>2
  <2> QED BY <2>1, <2>3, StaticFacts, Kinds DEF PendingInv, TaskKept, ItemKept, WorkerKept
<1> QED BY <1>1, <1>2, <1>3, <1>4, <1>5, AtProcess, KeepsSteps DEF ProcessStep, Calls, Takes

(* A persist that has operations writes the history.                       *)
LEMMA OpsAreWritten ==
    ASSUME Types, NEW m \in Managers, SnapshotInv(m), OwnInv(m), saving[m].step \in Writing
    PROVE  TaskHistory \in DOMAIN saving[m].keys \/ DOMAIN saving[m].ops = {}
<1> SUFFICES ASSUME NEW g \in DOMAIN saving[m].ops PROVE TaskHistory \in DOMAIN saving[m].keys
  OBVIOUS
<1>1. history[m] \in Ops /\ saving[m].keys \in Marks
  BY RecordOf
<1>2. g \in DOMAIN history[m] /\ DOMAIN saving[m].keys # {} /\ DOMAIN saving[m].keys \cap Secrets = {}
  BY DEF SnapshotInv, Writing
<1>3. history[m][g].task \in Own(m) \cap Tasks
  BY <1>1, <1>2, OpsOf DEF OwnInv
<1>4. Own(m) \cap Settings = {}
  BY <1>3, OneKindAssumption DEF Own
<1>5. \A k \in DOMAIN saving[m].keys : k \in Markers /\ (k \in Settings => k \in Own(m))
  BY <1>1, MarksOf DEF OwnInv
<1> QED BY <1>2, <1>4, <1>5, Kinds

(* The part of what a write takes from the operations.                     *)
LEMMA WrittenOps ==
    ASSUME Types, LockInv, FilesReached, NEW m \in Managers, SnapshotInv(m), GenerationInv(m), OwnInv(m), Writes(m),
           NEW g \in DOMAIN saving[m].ops, Latest(saving[m].ops, g)
    PROVE  saving[m].ops[g].change \in reached'
<1>0. saving[m].step = "write" /\ Whole(saving[m]) /\ saving[m].ops \in Ops
  BY WholeSaving, RecordOf DEF Writes, Persists
<1>1. TaskHistory \in DOMAIN saving[m].keys
  BY <1>0, OpsAreWritten DEF Writing
<1> DEFINE task == saving[m].ops[g].task
<1>2. task \in Tasks /\ task \in Items /\ DOMAIN saving[m].ops \subseteq Nat
  BY <1>0, OpsOf, Kinds
<1>3. PICK h \in DOMAIN saving[m].ops : /\ saving[m].ops[h].task = task /\ Latest(saving[m].ops, h)
                                        /\ Merged(saving[m])[task] = saving[m].ops[h].change
  BY <1>0, <1>1, <1>2, MergedOf
<1>4. g <= h /\ h <= g /\ g \in Nat /\ h \in Nat
  BY <1>2, <1>3 DEF Latest
<1>5. g = h
  BY <1>4
<1>6. Merged(saving[m])[task] \in reached'
  BY <1>2, WrittenFiles
<1> QED BY <1>3, <1>5, <1>6

(* The settings of the snapshot are in the file that is written.            *)
LEMMA WrittenValues ==
    ASSUME Types, LockInv, FilesReached, NEW m \in Managers, SnapshotInv(m), GenerationInv(m), Writes(m),
           NEW k \in DOMAIN saving[m].keys \cap Settings
    PROVE  saving[m].values[k] \in reached'
<1>0. saving[m].step = "write" /\ Whole(saving[m])
  BY WholeSaving DEF Writes, Persists
<1>1. k \in DOMAIN saving[m].values /\ k \in Items /\ k \notin Tasks
  BY <1>0, Kinds DEF SnapshotInv
<1>2. Merged(saving[m])[k] = saving[m].values[k]
  BY <1>0, <1>1, MergedOf DEF State
<1> QED BY <1>1, <1>2, WrittenFiles

(* Workers keep or make what is redone, and only the end of a persist      *)
(* forgets it.                                                             *)
LEMMA RedoneStays ==
    ASSUME Types, NEW m \in Managers, GenerationInv(m), NEW k \in Settings \cup Secrets, k \in DOMAIN saving[m].keys,
           saving'[m].keys = saving[m].keys, Redone(m, k),
           \/ Same(m) \/ TakesOps(m) \/ Loads(m) \/ Writes(m) \/ (\E key \in Secrets : Stores(m, key))
           \/ \E w \in Workers : \/ Moves(m, w)
                                 \/ \E item \in Items : ChangesItem(m, w, item) \/ Records(m, w, item) \/ MarksItem(m, w, item)
    PROVE  Redone(m, k)'
<1>1. CASE Same(m) \/ TakesOps(m) \/ Loads(m) \/ Writes(m) \/ \E key \in Secrets : Stores(m, key)
  <2>1. AllStay(m) /\ pending'[m] = pending[m]
    BY <1>1 DEF Same, TakesOps, Loads, Writes, Stores, Persists
  <2> QED BY <2>1 DEF Redone, Unmarked, AllStay
<1>2. ASSUME NEW w \in Workers, Moves(m, w) PROVE Redone(m, k)'
  BY <1>2 DEF Moves, Others, Redone, Unmarked, Marking
<1>3. ASSUME NEW w \in Workers, NEW item \in Items, ChangesItem(m, w, item) \/ Records(m, w, item) PROVE Redone(m, k)'
  BY <1>3 DEF ChangesItem, Records, Others, Redone, Unmarked, Marking
<1>4. ASSUME NEW w \in Workers, NEW item \in Items, MarksItem(m, w, item) PROVE Redone(m, k)'
  <2>0. /\ Home[w] = m /\ worker[w].step = "recorded" /\ Others(w) /\ worker[w].item = {item}
        /\ DOMAIN pending'[m] = DOMAIN pending[m] \cup {Marker(item)}
        /\ pending'[m][Marker(item)] = worker[w].generation
        /\ \A j \in DOMAIN pending[m] \ {Marker(item)} : pending'[m][j] = pending[m][j]
    BY <1>4 DEF MarksItem
  <2>1. worker[w].generation # saving[m].keys[k]
    BY <2>0 DEF GenerationInv, Recorded
  <2>2. CASE k = Marker(item)
    BY <2>0, <2>1, <2>2 DEF Redone
  <2>3. CASE k # Marker(item)
    <3>1. item # k
      BY <2>3, Kinds
    <3> QED BY <2>0, <2>3, <3>1 DEF Redone, Unmarked, Others
  <2> QED BY <2>2, <2>3
<1> QED BY <1>1, <1>2, <1>3, <1>4

(* An operation that is newer than the snapshot keeps its own marker, or    *)
(* the worker that will set it.                                             *)
LEMMA MarkedStays ==
    ASSUME Types, NEW m \in Managers, GenerationInv(m), OrderInv(m), TaskHistory \in DOMAIN saving[m].keys,
           saving'[m].keys = saving[m].keys, NEW g \in DOMAIN history[m], MarkedSince(m, g),
           \/ Same(m) \/ TakesOps(m) \/ Loads(m) \/ Writes(m)
           \/ \E w \in Workers : \/ Moves(m, w)
                                 \/ \E item \in Items : ChangesItem(m, w, item) \/ Records(m, w, item) \/ MarksItem(m, w, item)
    PROVE  MarkedSince(m, g)'
<1>1. CASE Same(m) \/ TakesOps(m) \/ Loads(m) \/ Writes(m)
  <2>1. AllStay(m) /\ pending'[m] = pending[m]
    BY <1>1 DEF Same, TakesOps, Loads, Writes, Persists
  <2> QED BY <2>1 DEF MarkedSince, Recorded, AllStay
<1>2. ASSUME NEW w \in Workers, Moves(m, w) PROVE MarkedSince(m, g)'
  BY <1>2 DEF Moves, Others, MarkedSince, Recorded
<1>3. ASSUME NEW w \in Workers, NEW item \in Items, ChangesItem(m, w, item) \/ Records(m, w, item) PROVE MarkedSince(m, g)'
  BY <1>3 DEF ChangesItem, Records, Others, MarkedSince, Recorded
<1>4. ASSUME NEW w \in Workers, NEW item \in Items, MarksItem(m, w, item) PROVE MarkedSince(m, g)'
  <2>0. /\ Recorded(m, w) /\ Others(w) /\ worker[w].item = {item}
        /\ DOMAIN pending'[m] = DOMAIN pending[m] \cup {Marker(item)}
        /\ pending'[m][Marker(item)] = worker[w].generation
        /\ \A j \in DOMAIN pending[m] \ {Marker(item)} : pending'[m][j] = pending[m][j]
    BY <1>4 DEF MarksItem, Recorded
  <2>1. worker[w].generation # saving[m].keys[TaskHistory]
    BY <2>0 DEF GenerationInv
  <2>2. CASE Marker(item) = TaskHistory
    BY <2>0, <2>1, <2>2 DEF MarkedSince
  <2>3. CASE Marker(item) # TaskHistory
    <3>1. worker[w].generation # g
      <4>1. history[m] \in Ops
        BY RecordOf
      <4>2. history[m][g].task \in Tasks
        BY <4>1, OpsOf
      <4> QED BY <2>0, <2>3, <4>2, Kinds DEF OrderInv
    <3> QED BY <2>0, <2>3, <3>1 DEF MarkedSince, Recorded, Others
  <2> QED BY <2>2, <2>3
<1> QED BY <1>1, <1>2, <1>3, <1>4

(* A step that leaves the snapshots as they are.                           *)
StaysClear(m) ==
    /\ saving'[m].step = saving[m].step /\ saving'[m].keys = saving[m].keys /\ saving'[m].ops = saving[m].ops
    /\ saving'[m].values = saving[m].values
    /\ \/ Same(m)
       \/ \E w \in Workers : \/ Moves(m, w)
                             \/ \E item \in Items : ChangesItem(m, w, item) \/ Records(m, w, item) \/ MarksItem(m, w, item)

(* What came after the snapshots is still kept apart from them after such a *)
(* step.                                                                    *)
LEMMA StaysClearNext ==
    ASSUME Types, NEW m \in Managers, GenerationInv(m), OrderInv(m), SnapshotInv(m), ClearInv(m),
           StaysClear(m), reached \subseteq reached'
    PROVE  ClearInv(m)'
<1>0. /\ saving'[m].step = saving[m].step /\ saving'[m].keys = saving[m].keys /\ saving'[m].ops = saving[m].ops
      /\ saving'[m].values = saving[m].values
  BY DEF StaysClear
<1>1. ASSUME NEW k \in Settings \cup Secrets, k \in DOMAIN saving[m].keys
      PROVE  /\ Redone(m, k) => Redone(m, k)'
             /\ Redone(m, k)' \/ memory'[m][k] = memory[m][k]
  <2>1. Redone(m, k) => Redone(m, k)'
    BY <1>0, <1>1, RedoneStays DEF StaysClear
  <2>2. ASSUME NEW w \in Workers, NEW item \in Items, ChangesItem(m, w, item)
        PROVE  Redone(m, k)' \/ memory'[m][k] = memory[m][k]
    <3>1. CASE k = item
      BY <2>2, <3>1 DEF ChangesItem, Redone, Unmarked, Marking
    <3>2. CASE k # item
      BY <2>2, <3>2, Kinds DEF ChangesItem
    <3> QED BY <3>1, <3>2
  <2>3. (\E w \in Workers, item \in Items : ChangesItem(m, w, item)) \/ memory'[m] = memory[m]
    BY DEF StaysClear, Same, Moves, Records, MarksItem
  <2> QED BY <2>1, <2>2, <2>3
<1>2. ASSUME saving[m].step \in {"load", "write", "clear keys"}, TaskHistory \in DOMAIN saving[m].keys,
             NEW g \in DOMAIN history'[m] \ DOMAIN saving[m].ops
      PROVE  MarkedSince(m, g)'
  <2>1. CASE g \in DOMAIN history[m]
    <3>1. MarkedSince(m, g)
      BY <1>2, <2>1 DEF ClearInv
    <3> QED BY <1>0, <1>2, <2>1, <3>1, MarkedStays DEF StaysClear
  <2>2. CASE g \notin DOMAIN history[m]
    <3>1. DOMAIN history'[m] = DOMAIN history[m] \/ \E w \in Workers, item \in Items : Records(m, w, item)
      BY DEF StaysClear, Same, Moves, ChangesItem, MarksItem
    <3>2. PICK w \in Workers, item \in Items : Records(m, w, item)
      BY <1>2, <2>2, <3>1
    <3>3. g = minted[m] /\ worker'[w].generation = minted[m] /\ Recorded(m, w)'
      BY <1>2, <2>2, <3>2 DEF Records, Recorded
    <3> QED BY <3>3 DEF MarkedSince
  <2> QED BY <2>1, <2>2
<1>3. ASSUME saving[m].step \in {"write", "clear keys"}, NEW k \in DOMAIN saving[m].keys \cap Settings
      PROVE  /\ saving[m].step = "write" => saving[m].values[k] = memory'[m][k] \/ Redone(m, k)'
             /\ saving[m].step = "clear keys" => memory'[m][k] \in reached' \/ Redone(m, k)'
  BY <1>1, <1>3 DEF ClearInv
<1>4. ASSUME saving[m].step = "store", NEW k \in DOMAIN saving[m].values PROVE memory'[m][k] \in reached' \/ Redone(m, k)'
  <2>1. k \in DOMAIN saving[m].keys /\ k \in Secrets
    BY <1>4 DEF SnapshotInv
  <2> QED BY <1>1, <1>4, <2>1 DEF ClearInv
<1>5. saving[m].step \in {"clear keys", "clear ops"} =>
         \A g \in DOMAIN saving[m].ops : Latest(saving[m].ops, g) => saving[m].ops[g].change \in reached'
  BY DEF ClearInv
<1> QED BY <1>0, <1>2, <1>3, <1>4, <1>5 DEF ClearInv

(* After the write, what the snapshots brought is in the files or has been  *)
(* redone since.                                                            *)
LEMMA WriteClear ==
    ASSUME Types, LockInv, FilesReached, NEW m \in Managers, SnapshotInv(m), GenerationInv(m), OwnInv(m), OrderInv(m),
           ClearInv(m), Writes(m), reached \subseteq reached'
    PROVE  ClearInv(m)'
<1>0. /\ saving[m].step = "write" /\ saving'[m].step = "clear keys" /\ history'[m] = history[m]
      /\ memory'[m] = memory[m] /\ Snapshots(m)
  BY DEF Writes, Persists
<1>2. ASSUME TaskHistory \in DOMAIN saving[m].keys, NEW g \in DOMAIN history[m] \ DOMAIN saving[m].ops
      PROVE  MarkedSince(m, g)'
  <2>1. MarkedSince(m, g)
    BY <1>0, <1>2 DEF ClearInv
  <2> QED BY <1>0, <1>2, <2>1, MarkedStays DEF Snapshots
<1>3. ASSUME NEW k \in DOMAIN saving[m].keys \cap Settings PROVE memory'[m][k] \in reached' \/ Redone(m, k)'
  <2>1. saving[m].values[k] = memory[m][k] \/ Redone(m, k)
    BY <1>0 DEF ClearInv
  <2>2. Redone(m, k) => Redone(m, k)'
    BY <1>0, RedoneStays DEF Snapshots
  <2> QED BY <1>0, <2>1, <2>2, WrittenValues
<1>4. \A g \in DOMAIN saving[m].ops : Latest(saving[m].ops, g) => saving[m].ops[g].change \in reached'
  BY WrittenOps
<1> QED BY <1>0, <1>2, <1>3, <1>4 DEF ClearInv, Snapshots

(* Every step keeps apart what a persist may clear and what came too late   *)
(* for it.                                                                  *)
LEMMA ClearNext ==
    ASSUME Types, LockInv, FilesReached, NEW m \in Managers, \A v \in Workers : WorkerInv(v), GenerationInv(m),
           OwnInv(m), OrderInv(m), SnapshotInv(m), ClearInv(m), OneStep
    PROVE  ClearInv(m)'
<1> USE StaticFacts
<1>0. saving[m] \in SavingType /\ DOMAIN <<>> = {} /\ reached \subseteq reached'
  BY RecordOf, EmptyMap, AtProcess
<1>1. CASE StaysClear(m)
  BY <1>0, <1>1, StaysClearNext
<1>2. ASSUME NEW w \in Workers, Moves(m, w), ~ StaysClear(m) PROVE ClearInv(m)'
  <2>1. CASE saving'[m] = saving[m]
    BY <1>2, <2>1 DEF StaysClear
  <2>2. CASE saving'[m] = [NotSaving EXCEPT !.step = "locking", !.by = {w}]
    <3>1. saving'[m].step = "locking"
      BY <2>2 DEF NotSaving
    <3> QED BY <3>1 DEF ClearInv
  <2>3. CASE saving'[m] = [saving[m] EXCEPT !.by = {}]
    <3>1. /\ saving'[m].step = saving[m].step /\ saving'[m].keys = saving[m].keys /\ saving'[m].ops = saving[m].ops
          /\ saving'[m].values = saving[m].values
      BY <1>0, <2>3 DEF SavingType
    <3> QED BY <1>2, <3>1 DEF StaysClear
  <2> QED BY <1>2, <2>1, <2>2, <2>3 DEF Moves
<1>3. CASE TakesDisk(m) \/ TakesKeys(m) \/ ClearsOps(m)
  BY <1>3 DEF TakesDisk, TakesKeys, ClearsOps, Persists, ClearInv
<1>4. CASE TakesOps(m)
  BY <1>4 DEF TakesOps, Persists, ClearInv
<1>5. CASE Loads(m)
  <2>0. /\ saving[m].step = "load" /\ saving'[m].step = "write" /\ history'[m] = history[m] /\ memory'[m] = memory[m]
        /\ saving'[m].keys = saving[m].keys /\ saving'[m].ops = saving[m].ops
        /\ DOMAIN saving'[m].values = DOMAIN saving[m].keys \ {TaskHistory}
        /\ \A k \in DOMAIN saving'[m].values : saving'[m].values[k] = memory[m][k]
    BY <1>5 DEF Loads, Persists
  <2>1. ASSUME TaskHistory \in DOMAIN saving[m].keys, NEW g \in DOMAIN history[m] \ DOMAIN saving[m].ops
        PROVE  MarkedSince(m, g)'
    <3>1. MarkedSince(m, g)
      BY <2>0, <2>1 DEF ClearInv
    <3> QED BY <1>5, <2>0, <2>1, <3>1, MarkedStays
  <2>2. \A k \in DOMAIN saving'[m].keys \cap Settings : saving'[m].values[k] = memory'[m][k]
    BY <2>0, Kinds
  <2> QED BY <2>0, <2>1, <2>2 DEF ClearInv
<1>6. CASE Writes(m)
  BY <1>0, <1>6, WriteClear
<1>7. CASE ClearsKeys(m)
  BY <1>0, <1>7 DEF ClearsKeys, Persists, Snapshots, ClearInv
<1>8. CASE TakesSecrets(m)
  BY <1>0, <1>8 DEF TakesSecrets, Persists, ClearInv
<1>9. ASSUME NEW key \in Secrets, Stores(m, key) PROVE ClearInv(m)'
  <2>0. /\ saving[m].step = "store" /\ saving'[m].step = "store" /\ memory'[m] = memory[m]
        /\ memory[m][key] \in reached' /\ DOMAIN saving'[m].values = DOMAIN saving[m].values \cup {key}
        /\ saving'[m].keys = saving[m].keys
    BY <1>9 DEF Stores, Persists
  <2>1. ASSUME NEW k \in DOMAIN saving[m].values PROVE memory'[m][k] \in reached' \/ Redone(m, k)'
    <3>1. k \in Secrets /\ k \in DOMAIN saving[m].keys
      BY <2>0 DEF SnapshotInv
    <3>2. memory[m][k] \in reached \/ Redone(m, k)
      BY <2>0 DEF ClearInv
    <3>3. Redone(m, k) => Redone(m, k)'
      BY <1>9, <2>0, <3>1, RedoneStays
    <3> QED BY <1>0, <2>0, <3>2, <3>3
  <2> QED BY <2>0, <2>1 DEF ClearInv
<1>10. CASE Ends(m, "ok") \/ Ends(m, "failed") \/ Crashes(m)
  BY <1>10 DEF Ends, Crashes, ClearInv
<1>11. CASE Starts(m)
  <2>1. saving'[m] = NotSaving
    BY <1>11 DEF Starts, LockInv
  <2> QED BY <2>1 DEF ClearInv
<1>12. ASSUME NEW w \in Workers, NEW item \in Items, ChangesItem(m, w, item) \/ Records(m, w, item) \/ MarksItem(m, w, item)
       PROVE StaysClear(m)
  BY <1>12 DEF ChangesItem, Records, MarksItem, StaysClear
<1>13. CASE Same(m)
  BY <1>1, <1>13 DEF Same, StaysClear
<1> QED BY <1>1, <1>2, <1>3, <1>4, <1>5, <1>6, <1>7, <1>8, <1>9, <1>10, <1>11, <1>12, <1>13, AtProcess
        DEF ProcessStep, Calls, Takes

(* What the caller of a persist waits for is still to be written.          *)
LEMMA CallerPends ==
    ASSUME Types, LockInv, FilesReached, NEW m \in Managers, \A v \in Workers : WorkerInv(v), OrderInv(m), PendingInv(m),
           m \in live, NEW w \in saving[m].by, worker[w].change \notin reached, NEW item \in worker[w].item
    PROVE  /\ item \in Settings \cup Secrets => item \in DOMAIN pending[m] /\ memory[m][item] = worker[w].change
           /\ item \in Tasks =>
                /\ TaskHistory \in DOMAIN pending[m]
                /\ \E g \in DOMAIN history[m] : history[m][g] = Op(item, worker[w].change) /\ Latest(history[m], g)
<1>0. w \in Workers /\ Home[w] = m /\ worker[w].step = "persisting" /\ worker[w].item = {item}
  BY WorkerOf DEF LockInv
<1>1. \A v \in Workers : Home[v] = m /\ worker[v].item = {item} => v = w
  BY <1>0, UniqueOwner
<1>2. ASSUME item \in Settings \cup Secrets PROVE item \in DOMAIN pending[m] /\ memory[m][item] = worker[w].change
  <2>1. memory[m][item] = worker[w].change
    BY <1>0, <1>2, Kinds DEF WorkerInv
  <2>2. ~ Unmarked(m, item)
    BY <1>0, <1>1 DEF Unmarked, Marking
  <2> QED BY <1>2, <2>1, <2>2 DEF PendingInv, ItemKept
<1>3. ASSUME item \in Tasks
      PROVE  /\ TaskHistory \in DOMAIN pending[m]
             /\ \E g \in DOMAIN history[m] : history[m][g] = Op(item, worker[w].change) /\ Latest(history[m], g)
  <2>1. PICK g \in DOMAIN history[m] : history[m][g] = Op(item, worker[w].change)
    BY <1>0, <1>3 DEF PendingInv, WorkerKept, Unsaved
  <2>2. history[m][g].task = item /\ history[m][g].change = worker[w].change
    BY <2>1 DEF Op
  <2>3. Latest(history[m], g)
    BY <1>0, <2>2, NewestOps
  <2>4. \A v \in Workers : Recorded(m, v) => worker[v].generation # g
    BY <1>0, <1>1, <2>2 DEF OrderInv, Recorded
  <2> QED BY <2>1, <2>2, <2>3, <2>4 DEF PendingInv, OperationKept
<1> QED BY <1>2, <1>3

(* Steps of the workers, and of others, leave the persist to its caller.    *)
LEMMA CallerStays ==
    ASSUME LockInv, NEW m \in Managers, CallerInv(m), reached \subseteq reached',
           \/ Same(m)
           \/ \E w \in Workers, item \in Items : ChangesItem(m, w, item) \/ Records(m, w, item) \/ MarksItem(m, w, item)
           \/ \E w \in Workers : Moves(m, w) /\ saving'[m] = saving[m]
    PROVE  CallerInv(m)'
<1>1. saving'[m] = saving[m]
  BY DEF Same, ChangesItem, Records, MarksItem
<1>2. \A w \in saving[m].by : w \in Workers /\ Home[w] = m /\ worker[w].step = "persisting"
  BY DEF LockInv
<1>3. \A w \in saving[m].by : worker'[w] = worker[w] \/ worker'[w] = Quiet
  BY <1>2 DEF Same, AllStay, ChangesItem, Records, MarksItem, Moves, Others
<1>4. Quiet.item = {}
  BY StaticFacts
<1>5. \A item, change : TakenAlong(m, item, change) => TakenAlong(m, item, change)'
  BY <1>1 DEF TakenAlong
<1>6. ASSUME NEW w \in saving'[m].by, worker'[w].change \notin reached', NEW item \in worker'[w].item
      PROVE  TakenAlong(m, item, worker[w].change)'
  <2>1. w \in saving[m].by /\ worker'[w] = worker[w] /\ worker[w].change \notin reached /\ item \in worker[w].item
    BY <1>1, <1>3, <1>4, <1>6
  <2>2. TakenAlong(m, item, worker[w].change)
    BY <2>1 DEF CallerInv
  <2> DEFINE change == worker[w].change
  <2>3. worker'[w].change = change /\ TakenAlong(m, item, change)
    BY <2>1, <2>2
  <2> HIDE DEF change
  <2>4. \A c : c = change => TakenAlong(m, item, c)'
    BY <1>5, <2>3
  <2> QED BY <2>3, <2>4
<1> QED BY <1>6 DEF CallerInv

(* A change that a caller waits for.                                       *)
Awaited(m, item, change) ==
    /\ item \in Settings \cup Secrets => item \in DOMAIN pending[m] /\ memory[m][item] = change
    /\ item \in Tasks =>
         /\ TaskHistory \in DOMAIN pending[m]
         /\ \E g \in DOMAIN history[m] : history[m][g] = Op(item, change) /\ Latest(history[m], g)

(* Each step of a persist takes along the change its caller waits for, or   *)
(* has written it (persist reads the keys before the operations, and the    *)
(* values last).                                                            *)
LEMMA AwaitedTaken ==
    ASSUME Types, LockInv, FilesReached, NEW m \in Managers, GenerationInv(m), OwnInv(m), SnapshotInv(m),
           NEW item \in Items, NEW change, Awaited(m, item, change), TakenAlong(m, item, change), change \notin reached',
           Takes(m) \/ TakesDisk(m) \/ Writes(m) \/ \E key \in Secrets : Stores(m, key)
    PROVE  TakenAlong(m, item, change)'
<1>0. DOMAIN <<>> = {}
  BY EmptyMap
<1>1. CASE TakesDisk(m) \/ ClearsKeys(m) \/ ClearsOps(m)
  BY <1>1 DEF TakesDisk, ClearsKeys, ClearsOps, Persists, TakenAlong
<1>2. CASE TakesKeys(m)
  BY <1>2, Kinds DEF TakesKeys, Persists, TakenAlong, Awaited
<1>3. CASE TakesOps(m)
  <2>0. /\ saving[m].step = "ops" /\ saving'[m].ops = history[m] /\ saving'[m].keys = saving[m].keys
        /\ saving'[m].step = IF DOMAIN saving[m].keys = {} THEN "secrets" ELSE "load"
    BY <1>3 DEF TakesOps, Persists
  <2>1. CASE item \in Settings
    BY <2>0, <2>1, Kinds DEF TakenAlong
  <2>2. CASE item \in Secrets
    BY <2>0, <2>2, Kinds DEF TakenAlong
  <2>3. CASE item \in Tasks
    BY <2>0, <2>3, Kinds DEF TakenAlong, Awaited
  <2> QED BY <2>1, <2>2, <2>3, Kinds
<1>4. CASE Loads(m)
  <2>0. /\ saving[m].step = "load" /\ saving'[m].ops = saving[m].ops /\ saving'[m].keys = saving[m].keys
        /\ saving'[m].step = "write"
        /\ DOMAIN saving'[m].values = DOMAIN saving[m].keys \ {TaskHistory}
        /\ \A k \in DOMAIN saving'[m].values : saving'[m].values[k] = memory[m][k]
    BY <1>4 DEF Loads, Persists
  <2>1. CASE item \in Settings
    <3>1. item \in DOMAIN saving[m].keys /\ memory[m][item] = change /\ item # TaskHistory
      BY <2>0, <2>1, Kinds DEF TakenAlong, Awaited
    <3> QED BY <2>0, <2>1, <3>1, Kinds DEF TakenAlong
  <2>2. CASE item \in Secrets
    BY <2>0, <2>2, Kinds DEF TakenAlong
  <2>3. CASE item \in Tasks
    BY <2>0, <2>3, Kinds DEF TakenAlong
  <2> QED BY <2>1, <2>2, <2>3, Kinds
<1>5. CASE Writes(m)
  <2>0. saving[m].step = "write" /\ saving'[m].step = "clear keys"
    BY <1>5 DEF Writes, Persists
  <2>1. CASE item \in Settings
    BY <1>5, <2>0, <2>1, WrittenValues DEF TakenAlong
  <2>2. CASE item \in Secrets
    BY <2>0, <2>2, Kinds DEF TakenAlong
  <2>3. CASE item \in Tasks
    <3>1. PICK g \in DOMAIN saving[m].ops : saving[m].ops[g] = Op(item, change) /\ Latest(saving[m].ops, g)
      BY <2>0, <2>3 DEF TakenAlong
    <3> QED BY <1>5, <3>1, WrittenOps DEF Op
  <2> QED BY <2>1, <2>2, <2>3, Kinds
<1>6. CASE TakesSecrets(m)
  <2>0. /\ saving[m].step = "secrets" /\ saving'[m].step = "store"
        /\ DOMAIN saving'[m].keys = DOMAIN pending[m] \cap Secrets /\ DOMAIN saving'[m].values = {}
    BY <1>0, <1>6 DEF TakesSecrets, Persists
  <2> QED BY <2>0, Kinds DEF TakenAlong, Awaited
<1>7. ASSUME NEW key \in Secrets, Stores(m, key) PROVE TakenAlong(m, item, change)'
  <2>0. /\ saving[m].step = "store" /\ saving'[m].step = "store" /\ saving'[m].keys = saving[m].keys
        /\ DOMAIN saving'[m].values = DOMAIN saving[m].values \cup {key} /\ memory[m][key] \in reached'
    BY <1>7 DEF Stores, Persists
  <2>1. item # key
    BY <2>0, Kinds DEF Awaited
  <2> QED BY <2>0, <2>1 DEF TakenAlong
<1> QED BY <1>1, <1>2, <1>3, <1>4, <1>5, <1>6, <1>7 DEF Takes

(* Whoever waits for a persist has its change taken along by it, in every   *)
(* step.                                                                    *)
LEMMA CallerNext ==
    ASSUME Types, LockInv, FilesReached, NEW m \in Managers, \A v \in Workers : WorkerInv(v), GenerationInv(m),
           OwnInv(m), OrderInv(m), PendingInv(m), SnapshotInv(m), CallerInv(m), OneStep
    PROVE  CallerInv(m)'
<1> USE StaticFacts
<1>0. saving[m] \in SavingType /\ reached \subseteq reached'
      /\ \A w \in saving[m].by : w \in Workers /\ Home[w] = m /\ worker[w].item \subseteq Items
  BY RecordOf, AtProcess, HomeType DEF LockInv, WorkerInv
<1>1. ASSUME NEW w \in Workers, Moves(m, w) PROVE CallerInv(m)'
  <2>1. CASE saving'[m] = saving[m]
    BY <1>0, <1>1, <2>1, CallerStays
  <2>2. CASE saving'[m] = [NotSaving EXCEPT !.step = "locking", !.by = {w}]
    <3>1. saving'[m].step = "locking"
      BY <2>2 DEF NotSaving
    <3> QED BY <3>1 DEF CallerInv, TakenAlong
  <2>3. CASE saving'[m] = [saving[m] EXCEPT !.by = {}]
    <3>1. saving'[m].by = {}
      BY <1>0, <2>3 DEF SavingType
    <3> QED BY <3>1 DEF CallerInv
  <2> QED BY <1>1, <2>1, <2>2, <2>3 DEF Moves
<1>2. CASE Takes(m) \/ TakesDisk(m) \/ Writes(m) \/ \E key \in Secrets : Stores(m, key)
  <2>1. AllStay(m) /\ saving'[m].by = saving[m].by /\ m \in live
    BY <1>2 DEF Takes, TakesKeys, TakesOps, Loads, ClearsKeys, ClearsOps, TakesSecrets, TakesDisk, Writes, Stores,
       Persists
  <2>2. \A w \in saving[m].by : worker'[w] = worker[w]
    BY <1>0, <2>1 DEF AllStay
  <2>3. ASSUME NEW w \in saving[m].by, worker[w].change \notin reached', NEW item \in worker[w].item
        PROVE  TakenAlong(m, item, worker[w].change)' 
    <3>1. worker[w].change \notin reached /\ item \in Items
      BY <1>0, <2>3
    <3>2. Awaited(m, item, worker[w].change)
      BY <2>1, <3>1, CallerPends DEF Awaited
    <3>3. TakenAlong(m, item, worker[w].change)
      BY <3>1 DEF CallerInv
    <3> DEFINE change == worker[w].change
    <3>4. Awaited(m, item, change) /\ TakenAlong(m, item, change) /\ change \notin reached'
      BY <2>3, <3>2, <3>3
    <3>5. worker'[w].change = change
      BY <2>2
    <3> HIDE DEF change
    <3>6. \A c : c = change => TakenAlong(m, item, c)'
      BY <1>2, <3>1, <3>4, AwaitedTaken
    <3> QED BY <3>5, <3>6
  <2> QED BY <2>1, <2>2, <2>3 DEF CallerInv
<1>3. CASE Ends(m, "ok") \/ Ends(m, "failed") \/ Crashes(m)
  BY <1>3 DEF Ends, Crashes, CallerInv
<1>4. CASE Starts(m)
  BY <1>4 DEF Starts, LockInv, CallerInv
<1>5. CASE Same(m) \/ \E w \in Workers, item \in Items : ChangesItem(m, w, item) \/ Records(m, w, item) \/ MarksItem(m, w, item)
  BY <1>0, <1>5, CallerStays
<1> QED BY <1>1, <1>2, <1>3, <1>4, <1>5, AtProcess DEF ProcessStep, Calls

(* A step stores no change elsewhere than under its item, but a new one.    *)
Made(item, change) ==
    change = now + 1 /\ now' = now + 1 /\ \E m \in Managers, w \in Workers : ChangesItem(m, w, item)

(* A process's step stores changes where they were stored before, under the *)
(* same item, but one it makes.                                             *)
LEMMA StoredByNext ==
    ASSUME Types, LockInv, \A v \in Workers : WorkerInv(v), NEW m \in Managers, NEW item \in Items,
           NEW change, change # 0, Same(m) \/ ProcessStep(m), StoredBy(m, item, change)'
    PROVE  Stored(item, change) \/ Made(item, change)
<1> USE StaticFacts
<1>0. saving[m] \in SavingType /\ DOMAIN <<>> = {}
  BY RecordOf, EmptyMap
<1> SUFFICES ASSUME ~ StoredBy(m, item, change) PROVE Stored(item, change) \/ Made(item, change)
  BY DEF Stored
<1>1. CASE Same(m)
  BY <1>1 DEF Same, StoredBy
<1>2. ASSUME NEW w \in Workers, NEW i \in Items, ChangesItem(m, w, i), now' = now + 1 PROVE Stored(item, change) \/ Made(item, change)
  <2>1. memory'[m][item] = change
    BY <1>2 DEF ChangesItem, StoredBy
  <2>2. i = item /\ change = now + 1
    BY <1>2, <2>1 DEF ChangesItem, StoredBy
  <2> QED BY <1>2, <2>2 DEF Made
<1>3. ASSUME NEW w \in Workers, NEW i \in Items, Records(m, w, i) PROVE Stored(item, change)
  <2>1. PICK g \in DOMAIN history'[m] : history'[m][g] = Op(item, change)
    BY <1>3 DEF Records, StoredBy
  <2>2. g = minted[m] /\ i \in Tasks
    BY <1>3, <2>1 DEF Records, StoredBy
  <2>3. Op(item, change) = Op(i, worker[w].change)
    BY <1>3, <2>1, <2>2 DEF Records
  <2>4. i = item /\ worker[w].change = change
    BY <2>3 DEF Op
  <2> QED BY <1>3, <2>4 DEF Records, Stored
<1>4. ASSUME NEW w \in Workers, (\E i \in Items : MarksItem(m, w, i)) \/ Moves(m, w) PROVE FALSE
  <2>1. memory'[m] = memory[m] /\ history'[m] = history[m]
    BY <1>4 DEF MarksItem, Moves
  <2>2. \/ saving'[m].ops = saving[m].ops /\ saving'[m].values = saving[m].values
        \/ DOMAIN saving'[m].ops = {} /\ DOMAIN saving'[m].values = {}
    <3>1. CASE saving'[m] = saving[m]
      BY <3>1
    <3>2. CASE saving'[m] = [NotSaving EXCEPT !.step = "locking", !.by = {w}]
      BY <1>0, <3>2 DEF NotSaving
    <3>3. CASE saving'[m] = [saving[m] EXCEPT !.by = {}]
      BY <1>0, <3>3 DEF SavingType
    <3> QED BY <1>4, <3>1, <3>2, <3>3 DEF Moves, MarksItem
  <2> QED BY <2>1, <2>2 DEF StoredBy
<1>5. CASE Takes(m) \/ TakesDisk(m) \/ Writes(m) \/ \E key \in Secrets : Stores(m, key)
  <2>1. CASE TakesKeys(m) \/ ClearsKeys(m) \/ TakesDisk(m) \/ Writes(m)
    BY <2>1 DEF TakesKeys, ClearsKeys, TakesDisk, Writes, Snapshots, Persists, StoredBy
  <2>2. CASE TakesOps(m)
    BY <2>2 DEF TakesOps, Persists, StoredBy
  <2>3. CASE Loads(m)
    BY <2>3 DEF Loads, Persists, StoredBy
  <2>4. CASE ClearsOps(m) \/ TakesSecrets(m)
    BY <1>0, <2>4 DEF ClearsOps, TakesSecrets, Persists, StoredBy
  <2>5. ASSUME NEW key \in Secrets, Stores(m, key) PROVE FALSE
    BY <2>5 DEF Stores, Persists, StoredBy
  <2> QED BY <1>5, <2>1, <2>2, <2>3, <2>4, <2>5 DEF Takes
<1>6. CASE Ends(m, "ok") \/ Ends(m, "failed") \/ Crashes(m)
  BY <1>0, <1>6 DEF Ends, Crashes, StoredBy
<1>7. CASE Starts(m)
  <2>1. disk \in [Items -> Changes]
    BY DEF Types, FilesOK
  <2>2. memory'[m][item] = change
    BY <1>7 DEF Starts, StoredBy
  <2>3. disk[item] = change
    BY <1>7, <2>1, <2>2, NewestType DEF Starts
  <2> QED BY <2>3 DEF Stored
<1>8. (\E w \in Workers, i \in Items : ChangesItem(m, w, i)) => now' = now + 1
  BY DEF ChangesItem
<1> QED BY <1>1, <1>2, <1>3, <1>4, <1>5, <1>6, <1>7, <1>8 DEF ProcessStep, Calls

(* A write brings to the files what a process had under the same item.      *)
LEMMA DiskNext ==
    ASSUME Types, LockInv, FilesReached, \A m \in Managers : SnapshotInv(m) /\ GenerationInv(m), OneStep,
           NEW item \in Items, NEW change, change # 0, disk'[item] = change
    PROVE  Stored(item, change)
<1>1. CASE disk' = disk
  BY <1>1 DEF Stored
<1>2. ASSUME NEW m \in Managers, Writes(m) PROVE Stored(item, change)
  <2>1. Merged(saving[m])[item] = change
    BY <1>2, WrittenFiles
  <2>2. saving[m].step = "write" /\ saving[m].base = disk /\ Whole(saving[m])
    BY <1>2, WholeSaving DEF Writes, Persists, LockInv
  <2>3. CASE Merged(saving[m])[item] = State(saving[m])[item]
    BY <2>1, <2>2, <2>3 DEF State, Stored, StoredBy
  <2>4. ASSUME NEW g \in DOMAIN saving[m].ops, saving[m].ops[g].task = item, saving[m].ops[g].change = change
        PROVE  Stored(item, change)
    <3>1. saving[m].ops \in Ops
      BY RecordOf
    <3>2. saving[m].ops[g] = Op(item, change)
      BY <2>4, <3>1, OpsOf
    <3> QED BY <3>2 DEF Stored, StoredBy
  <2> QED BY <2>1, <2>2, <2>3, <2>4, MergedOf
<1>3. ASSUME NEW m \in Managers, NEW key \in Secrets, Stores(m, key) PROVE Stored(item, change)
  BY <1>3 DEF Stores, Types, FilesOK, Stored, StoredBy
<1> QED BY <1>1, <1>2, <1>3 DEF OneStep, ProcessStep

(* A worker's change was stored under its item, or is being made.           *)
LEMMA WorkerStored ==
    ASSUME Types, LockInv, \A v \in Workers : WorkerInv(v), OneStep, NEW w \in Workers, NEW item \in Items,
           worker'[w].item = {item}
    PROVE  Stored(item, worker'[w].change) \/ Made(item, worker'[w].change)
<1> DEFINE m == Home[w]
<1> USE StaticFacts
<1>0. m \in Managers /\ WorkerInv(w)
  BY HomeType
<1>1. CASE worker[w].item = {item} /\ worker'[w].change = worker[w].change
  BY <1>1 DEF Stored
<1>2. ASSUME NEW v \in Workers, NEW i \in Items, ChangesItem(m, v, i)
      PROVE  Stored(item, worker'[w].change) \/ Made(item, worker'[w].change)
  <2>1. CASE v = w
    <3>1. worker'[w].item = {i} /\ worker'[w].change = now + 1 /\ now' = now + 1
      BY <1>2, <2>1 DEF ChangesItem
    <3>2. i = item
      BY <3>1
    <3> QED BY <1>0, <1>2, <3>1, <3>2 DEF Made
  <2>2. CASE v # w
    BY <1>1, <1>2, <2>2 DEF ChangesItem, Others
  <2> QED BY <2>1, <2>2
<1>3. CASE Calm(m)
  <2>1. worker'[w] = worker[w] \/ (worker'[w].item = worker[w].item /\ worker'[w].change = worker[w].change)
    BY <1>3 DEF Calm
  <2> QED BY <1>1, <2>1
<1>4. ASSUME NEW v \in Workers, NEW i \in Items, Records(m, v, i)
      PROVE  Stored(item, worker'[w].change) \/ Made(item, worker'[w].change)
  <2>1. worker'[w].item = worker[w].item /\ worker'[w].change = worker[w].change
    BY <1>4 DEF Records, Others
  <2> QED BY <1>1, <2>1
<1>5. CASE Starts(m)
  BY <1>1, <1>5 DEF Starts, AllStay
<1> QED BY <1>0, <1>2, <1>3, <1>4, <1>5, AtProcess, CalmSteps DEF ProcessStep, Calls

(* No step moves a change to another item.                                  *)
LEMMA StoredNext ==
    ASSUME Types, LockInv, FilesReached, \A v \in Workers : WorkerInv(v), OneStep,
           \A m \in Managers : SnapshotInv(m) /\ GenerationInv(m),
           NEW item \in Items, NEW change, change # 0, Stored(item, change)'
    PROVE  Stored(item, change) \/ Made(item, change)
<1>1. CASE disk'[item] = change
  BY <1>1, DiskNext
<1>2. ASSUME NEW m \in Managers, StoredBy(m, item, change)' PROVE Stored(item, change) \/ Made(item, change)
  BY <1>2, AtProcess, StoredByNext
<1>3. ASSUME NEW w \in Workers, worker'[w].item = {item}, worker'[w].change = change
      PROVE  Stored(item, change) \/ Made(item, change)
  BY <1>3, WorkerStored
<1> QED BY <1>1, <1>2, <1>3 DEF Stored

(* A change stays that of one item, and was made before it is stored.       *)
LEMMA OneItemNext ==
    ASSUME Types, LockInv, FilesReached, \A v \in Workers : WorkerInv(v), OneStep, OneItem, AllMade,
           \A m \in Managers : SnapshotInv(m) /\ GenerationInv(m), Types'
    PROVE  OneItem' /\ AllMade'
<1>0. now \in Nat /\ (now' = now \/ now' = now + 1) /\ Changes \subseteq Nat
  <2>1. \A m \in Managers : ProcessStep(m) => now' = now \/ now' = now + 1
    BY DEF ProcessStep, ChangesItem
  <2> QED BY <2>1 DEF Types, CountersOK, Changes, OneStep
<1>1. \A item \in Items, change \in Changes \ {0} : Stored(item, change)' => Stored(item, change) \/ Made(item, change)
  BY StoredNext
<1>2. \A item \in Items, change \in Changes \ {0} : Stored(item, change) => change <= now
  BY DEF AllMade
<1>3. \A item \in Items, change \in Changes : Stored(item, change)' => change <= now'
  BY <1>0, <1>1, <1>2 DEF Made
<1>4. ASSUME NEW i \in Items, NEW j \in Items, NEW c, Made(i, c), Made(j, c) PROVE i = j
  <2>1. PICK m \in Managers, w \in Workers : ChangesItem(m, w, i)
    BY <1>4 DEF Made
  <2>2. PICK n \in Managers, v \in Workers : ChangesItem(n, v, j)
    BY <1>4 DEF Made
  <2>3. v = w
    BY <2>1, <2>2 DEF ChangesItem, Others
  <2>4. worker'[w].item = {i} /\ worker'[v].item = {j}
    BY <2>1, <2>2 DEF ChangesItem
  <2> QED BY <2>3, <2>4
<1>5. ASSUME NEW i \in Items, NEW j \in Items, NEW c \in Changes \ {0}, Stored(i, c)', Stored(j, c)' PROVE i = j
  <2>1. \A k \in Items : Made(k, c) => ~ Stored(i, c) /\ ~ Stored(j, c)
    BY <1>0, <1>2 DEF Made
  <2>2. (Stored(i, c) /\ Stored(j, c)) \/ (Made(i, c) /\ Made(j, c))
    BY <1>1, <1>5, <2>1
  <2> QED BY <1>4, <2>2 DEF OneItem
<1> QED BY <1>3, <1>5 DEF OneItem, AllMade

(* The generations of a process are no more than the changes made.         *)
LEMMA CountNext ==
    ASSUME Types, NEW m \in Managers, \A v \in Workers : WorkerInv(v), OneStep,
           IsFiniteSet(Making(m)), minted[m] + Cardinality(Making(m)) <= now + 1
    PROVE  IsFiniteSet(Making(m)') /\ minted'[m] + Cardinality(Making(m)') <= now' + 1
<1> USE StaticFacts
<1>0. /\ now \in Nat /\ minted[m] \in Nat \ {0} /\ Cardinality(Making(m)) \in Nat
      /\ now' = now \/ now' = now + 1
  BY FS_CardinalityType, AtProcess DEF Types, CountersOK, Changes
<1>1. CASE Making(m)' \in SUBSET Making(m) /\ minted'[m] = minted[m]
  <2>1. IsFiniteSet(Making(m)') /\ Cardinality(Making(m)') <= Cardinality(Making(m))
    BY <1>1, FS_Subset
  <2>2. Cardinality(Making(m)') \in Nat
    BY <2>1, FS_CardinalityType
  <2> QED BY <1>0, <1>1, <2>1, <2>2
<1>2. ASSUME NEW w \in Workers, NEW item \in Items, ChangesItem(m, w, item)
      PROVE  IsFiniteSet(Making(m)') /\ minted'[m] + Cardinality(Making(m)') <= now' + 1
  <2>1. Making(m)' = Making(m) \cup {w} /\ minted'[m] = minted[m] /\ now' = now + 1
    BY <1>2 DEF ChangesItem, Others, Making
  <2>2. IsFiniteSet(Making(m) \cup {w}) /\ Cardinality(Making(m) \cup {w}) <= Cardinality(Making(m)) + 1
        /\ Cardinality(Making(m) \cup {w}) \in Nat
    <3>1. /\ IsFiniteSet(Making(m) \cup {w})
          /\ Cardinality(Making(m) \cup {w}) = IF w \in Making(m) THEN Cardinality(Making(m)) ELSE Cardinality(Making(m)) + 1
      BY FS_AddElement
    <3> QED BY <1>0, <3>1
  <2> QED BY <1>0, <2>1, <2>2
<1>3. ASSUME NEW w \in Workers, NEW item \in Items, Records(m, w, item)
      PROVE  IsFiniteSet(Making(m)') /\ minted'[m] + Cardinality(Making(m)') <= now' + 1
  <2>1. Making(m)' = Making(m) \ {w} /\ minted'[m] = minted[m] + 1 /\ w \in Making(m)
    BY <1>3 DEF Records, Others, Making
  <2>2. IsFiniteSet(Making(m) \ {w}) /\ Cardinality(Making(m) \ {w}) = Cardinality(Making(m)) - 1
    BY <2>1, FS_RemoveElement
  <2> QED BY <1>0, <2>1, <2>2
<1>4. CASE Fewer(m) /\ Calm(m)
  <2>1. minted'[m] = minted[m]
    BY <1>4 DEF Fewer
  <2>2. \A w \in Workers : Home[w] = m /\ worker'[w].step = "changed" => worker[w].step = "changed"
    BY <1>4 DEF Calm, Marking
  <2> QED BY <1>1, <2>1, <2>2 DEF Making
<1>5. ASSUME NEW w \in Workers, NEW item \in Items, MarksItem(m, w, item)
      PROVE  IsFiniteSet(Making(m)') /\ minted'[m] + Cardinality(Making(m)') <= now' + 1
  <2>1. Making(m)' \in SUBSET Making(m) /\ minted'[m] = minted[m]
    BY <1>5 DEF MarksItem, Others, Making
  <2> QED BY <1>1, <2>1
<1>6. CASE Starts(m)
  <2>1. Making(m)' = {} /\ minted'[m] = 1
    BY <1>6 DEF Starts, AllStay, WorkerInv, Making
  <2> QED BY <1>0, <2>1, FS_EmptySet
<1> QED BY <1>2, <1>3, <1>4, <1>5, <1>6, AtProcess, FewerSteps, CalmSteps DEF ProcessStep, Calls

(* The inductive invariant holds at the start (StateManager::new).          *)
LEMMA InvInit == Init => Inv
<1> SUFFICES ASSUME Init PROVE Inv
  OBVIOUS
<1> USE StaticFacts
<1>0. /\ now = 0 /\ faults = 0 /\ flock = {} /\ live = Managers /\ reached = {0} /\ disk = Absent
      /\ \A m \in Managers : /\ memory[m] = Absent /\ pending[m] = <<>> /\ history[m] = <<>>
                             /\ minted[m] = 1 /\ saving[m] = NotSaving
                             /\ DOMAIN pending[m] = {} /\ DOMAIN history[m] = {}
      /\ \A w \in Workers : worker[w] = Quiet
      /\ \A item \in Items : Absent[item] = 0
  BY EmptyMap DEF Init, Absent
<1>1. Types
  <2>1. Absent \in [Items -> Changes] /\ 0 \in Changes
    BY ParametersAssumption DEF Absent, Changes
  <2>2. <<>> \in Marks /\ <<>> \in Ops
    BY EmptyMap DEF Marks, Ops
  <2> QED BY <2>1, <2>2, QuietType, ParametersAssumption
          DEF Init, Types, CountersOK, FilesOK, ProcessOK, PendingOK, PersistOK, Changes
<1>2. \A w \in Workers : WorkerInv(w)
  BY <1>0 DEF WorkerInv, Marking
<1>3. LockInv
  BY <1>0 DEF LockInv
<1>4. FilesReached
  BY <1>0 DEF FilesReached
<1>5. ASSUME NEW m \in Managers PROVE LocalInv(m)
  <2>1. GenerationInv(m) /\ OwnInv(m) /\ OrderInv(m)
    BY <1>0 DEF GenerationInv, OwnInv, OrderInv, Recorded
  <2>2. PendingInv(m)
    BY <1>0, Kinds DEF PendingInv, TaskKept, ItemKept, WorkerKept
  <2>3. SnapshotInv(m) /\ ClearInv(m) /\ CallerInv(m)
    BY <1>0 DEF SnapshotInv, ClearInv, CallerInv, Writing
  <2> QED BY <2>1, <2>2, <2>3 DEF LocalInv
<1>6. \A item \in Items : \A change : Stored(item, change) => change = 0
  BY <1>0 DEF Stored, StoredBy
<1>7. OneItem /\ AllMade
  BY <1>0, <1>6 DEF OneItem, AllMade, Changes
<1>8. CountInv
  <2>1. \A m \in Managers : Making(m) = {}
    BY <1>0 DEF Making
  <2>2. \A m \in Managers : IsFiniteSet(Making(m)) /\ Cardinality(Making(m)) = 0
    BY <2>1, FS_EmptySet
  <2> QED BY <1>0, <2>2 DEF CountInv
<1> QED BY <1>1, <1>2, <1>3, <1>4, <1>5, <1>7, <1>8 DEF Inv

(* Every step of every worker, persist and process keeps the inductive      *)
(* invariant.                                                               *)
LEMMA InvNext == Inv /\ [Next]_vars => Inv'
<1> SUFFICES ASSUME Inv, [Next]_vars PROVE Inv'
  OBVIOUS
<1>0. /\ Types /\ LockInv /\ FilesReached /\ OneItem /\ AllMade /\ CountInv /\ \A w \in Workers : WorkerInv(w)
      /\ \A m \in Managers : /\ GenerationInv(m) /\ OwnInv(m) /\ OrderInv(m) /\ PendingInv(m)
                             /\ SnapshotInv(m) /\ ClearInv(m) /\ CallerInv(m)
  BY DEF Inv, LocalInv
<1>1. Types' /\ OneStep
  BY <1>0, StepEffect
<1>2. \A w \in Workers : WorkerInv(w)'
  BY <1>0, <1>1, WorkerNext, HomeType
<1>3. LockInv' /\ FilesReached'
  BY <1>0, <1>1, LockNext, FilesNext
<1>4. ASSUME NEW m \in Managers PROVE LocalInv(m)'
  <2>1. GenerationInv(m)'
    BY <1>0, <1>1, GenerationNext
  <2>2. OwnInv(m)'
    BY <1>0, <1>1, OwnNext
  <2>3. OrderInv(m)'
    BY <1>0, <1>1, OrderNext
  <2>4. PendingInv(m)'
    BY <1>0, <1>1, PendingNext
  <2>5. SnapshotInv(m)'
    BY <1>0, <1>1, SnapshotNext
  <2>6. ClearInv(m)'
    BY <1>0, <1>1, ClearNext
  <2>7. CallerInv(m)'
    BY <1>0, <1>1, CallerNext
  <2> QED BY <2>1, <2>2, <2>3, <2>4, <2>5, <2>6, <2>7 DEF LocalInv
<1>5. OneItem' /\ AllMade'
  BY <1>0, <1>1, OneItemNext
<1>6. CountInv'
  BY <1>0, <1>1, CountNext DEF CountInv
<1> QED BY <1>1, <1>2, <1>3, <1>4, <1>5, <1>6 DEF Inv

(* Every reachable state of any number of processes has the inductive       *)
(* invariant.                                                               *)
THEOREM Invariance == Spec => []Inv
BY InvInit, InvNext, PTL DEF Spec

(* NoChangeLost: what persist has not written yet is still pending, for any *)
(* interleaving of changes with a persist's snapshots and clearings, and    *)
(* who heard Ok has its change in the files (persist, persist_async).       *)
THEOREM NothingIsLost == Spec => []NoChangeLost
<1>1. ASSUME Inv PROVE NoChangeLost
  <2>0. Types /\ FilesReached /\ (\A w \in Workers : WorkerInv(w)) /\ \A m \in Managers : OrderInv(m) /\ PendingInv(m)
    BY <1>1 DEF Inv, LocalInv
  <2>1. OkIsSaved
    BY <2>0 DEF OkIsSaved, WorkerInv
  <2>2. ASSUME NEW m \in live, NEW item \in Items, memory[m][item] \notin reached, ~ Unmarked(m, item)
        PROVE  /\ Marker(item) \in DOMAIN pending[m]
               /\ item \in Tasks =>
                    \E g \in DOMAIN history[m] : history[m][g] = [task |-> item, change |-> memory[m][item]]
    <3>0. m \in Managers
      BY <2>0 DEF Types, ProcessOK
    <3>1. CASE item \in Settings \cup Secrets
      <4>1. ItemKept(m, item)
        BY <2>0, <3>0, <3>1 DEF PendingInv
      <4> QED BY <2>2, <3>1, <4>1, Kinds DEF ItemKept
    <3>2. CASE item \in Tasks
      <4>1. TaskKept(m, item)
        BY <2>0, <3>0, <3>2 DEF PendingInv
      <4>2. PICK g \in DOMAIN history[m] : history[m][g] = Op(item, memory[m][item])
        BY <2>2, <4>1 DEF TaskKept, Unmarked, Marking
      <4>3. history[m][g].task = item /\ history[m][g].change = memory[m][item] /\ memory[m][item] # 0
        BY <2>0, <2>2, <4>2 DEF Op, FilesReached
      <4>4. Latest(history[m], g)
        BY <2>0, <3>0, <4>3, NewestOps
      <4>5. \A w \in Workers : Recorded(m, w) => worker[w].generation # g
        BY <2>0, <2>2, <3>0, <4>3 DEF OrderInv, Recorded, Unmarked, Marking
      <4>6. TaskHistory \in DOMAIN pending[m]
        BY <2>0, <2>2, <3>0, <4>3, <4>4, <4>5 DEF PendingInv, OperationKept
      <4> QED BY <3>2, <4>2, <4>6, Kinds DEF Op
    <3> QED BY <3>1, <3>2, Kinds
  <2>3. NothingForgotten
    BY <2>2 DEF NothingForgotten
  <2> QED BY <2>1, <2>3 DEF NoChangeLost
<1> QED BY <1>1, Invariance, PTL

-----------------------------------------------------------------------------
(* The limit of the history.                                               *)
OneEach(state) == \A s, t \in Tasks : state[s] = state[t] /\ state[s] # 0 => s = t
Above(state, change) == {t \in Tasks : state[t] > change}
Bounded(state) == Cardinality(Listed(state)) <= Limit

(* A history has finitely many tasks: each was last changed at a time of    *)
(* its own.                                                                 *)
LEMMA ListedFinite ==
    ASSUME NEW state \in [Items -> Changes], OneEach(state)
    PROVE  /\ IsFiniteSet(Listed(state))
           /\ \A change \in Nat : Above(state, change) \subseteq Listed(state) /\ IsFiniteSet(Above(state, change))
<1>1. \A t \in Tasks : state[t] \in Nat /\ state[t] \in 0 .. MaxChanges
  BY Kinds DEF Changes
<1> DEFINE f == [t \in Listed(state) |-> state[t]]
<1>2. f \in Injection(Listed(state), 0 .. MaxChanges)
  <2>1. f \in [Listed(state) -> 0 .. MaxChanges]
    BY <1>1 DEF Listed
  <2>2. \A s, t \in Listed(state) : f[s] = f[t] => s = t
    BY DEF Listed, OneEach
  <2> QED BY <2>1, <2>2 DEF Injection, IsInjective
<1>3. IsFiniteSet(0 .. MaxChanges)
  BY FS_Interval, ParametersAssumption
<1>4. IsFiniteSet(Listed(state))
  BY <1>2, <1>3, FS_Injection
<1>5. \A change \in Nat : Above(state, change) \in SUBSET Listed(state)
  BY <1>1 DEF Above, Listed
<1> QED BY <1>4, <1>5, FS_Subset

(* The limit cuts the tasks that have Limit newer ones                      *)
(* (enforce_task_history_limit).                                            *)
LEMMA NewestOf ==
    ASSUME NEW state, NEW item \in Items
    PROVE  Newest(state)[item] =
             IF item \in Tasks /\ Cardinality(Above(state, state[item])) >= Limit THEN 0 ELSE state[item]
BY DEF Newest, Newer, Above

(* After the cut no more than Limit tasks are left                          *)
(* (enforce_task_history_limit).                                            *)
LEMMA NewestBounded ==
    ASSUME NEW state \in [Items -> Changes], OneEach(state)
    PROVE  Bounded(Newest(state))
<1> DEFINE K == Listed(Newest(state))
<1>0. Limit \in Nat \ {0} /\ \A t \in Tasks : t \in Items /\ state[t] \in Nat
  BY Kinds, ParametersAssumption DEF Changes
<1>1. \A t \in K : t \in Tasks /\ state[t] # 0 /\ ~ (Cardinality(Above(state, state[t])) >= Limit)
  BY <1>0, NewestOf DEF Listed
<1>2. CASE K = {}
  BY <1>0, <1>2, FS_EmptySet DEF Bounded
<1>3. CASE K # {}
  <2>1. PICK v \in {state[t] : t \in K} : \A u \in {state[t] : t \in K} : v <= u
    <3>1. {state[t] : t \in K} \subseteq Nat /\ {state[t] : t \in K} # {}
      BY <1>0, <1>1, <1>3
    <3> HIDE DEF K
    <3> QED BY <3>1, LeastNatural
  <2>2. PICK t \in K : v = state[t]
    BY <2>1
  <2> HIDE DEF K
  <2>3. K \subseteq Above(state, state[t]) \cup {t}
    <3> SUFFICES ASSUME NEW s \in K, s # t PROVE s \in Above(state, state[t])
      OBVIOUS
    <3>1. state[t] <= state[s] /\ state[s] # state[t] /\ s \in Tasks /\ t \in Tasks
      BY <1>1, <2>1, <2>2 DEF OneEach
    <3>2. state[s] \in Nat /\ state[t] \in Nat
      BY <1>0, <3>1
    <3>3. state[s] > state[t]
      BY <3>1, <3>2
    <3> QED BY <3>1, <3>3 DEF Above
  <2>4. IsFiniteSet(Above(state, state[t]))
    BY <1>0, <1>1, <2>2, ListedFinite
  <2>5. Cardinality(Above(state, state[t])) \in Nat
    BY <2>4, FS_CardinalityType
  <2>6. IsFiniteSet(Above(state, state[t]) \cup {t})
        /\ Cardinality(Above(state, state[t]) \cup {t}) <= Cardinality(Above(state, state[t])) + 1
        /\ Cardinality(Above(state, state[t]) \cup {t}) \in Nat
    <3>1. /\ IsFiniteSet(Above(state, state[t]) \cup {t})
          /\ Cardinality(Above(state, state[t]) \cup {t}) =
               IF t \in Above(state, state[t]) THEN Cardinality(Above(state, state[t])) ELSE Cardinality(Above(state, state[t])) + 1
      BY <2>4, FS_AddElement
    <3> QED BY <2>5, <3>1
  <2>7. IsFiniteSet(K) /\ Cardinality(K) <= Cardinality(Above(state, state[t]) \cup {t})
    BY <2>3, <2>6, FS_Subset
  <2>8. Cardinality(K) \in Nat
    BY <2>7, FS_CardinalityType
  <2>9. Cardinality(Above(state, state[t])) < Limit
    BY <1>0, <1>1, <2>2, <2>5
  <2> QED BY <1>0, <2>5, <2>6, <2>7, <2>8, <2>9 DEF Bounded, K
<1> QED BY <1>2, <1>3

(* What goes for the limit goes for Limit items that stay.                 *)
LEMMA NewestCuts ==
    ASSUME NEW state \in [Items -> Changes], OneEach(state), NEW task \in Tasks,
           Newest(state)[task] # state[task]
    PROVE  /\ Newest(state)[task] = 0
           /\ Cardinality(Above(Newest(state), state[task])) >= Limit
<1> DEFINE A == Above(state, state[task])
           B == Above(Newest(state), state[task])
           D == {s \in A : Newest(state)[s] # state[s]}
<1>0. Limit \in Nat \ {0} /\ MaxChanges \in Nat /\ \A t \in Tasks : t \in Items /\ state[t] \in Nat /\ state[t] <= MaxChanges
  BY Kinds, ParametersAssumption DEF Changes
<1>1. Newest(state)[task] = 0 /\ Cardinality(A) >= Limit
  BY <1>0, NewestOf
<1>2. IsFiniteSet(Listed(state)) /\ \A change \in Nat : IsFiniteSet(Above(state, change))
  BY ListedFinite
<1>3. \A t \in Tasks : Newest(state)[t] = state[t] \/ (Newest(state)[t] = 0 /\ Cardinality(Above(state, state[t])) >= Limit)
  BY <1>0, NewestOf
<1>4. IsFiniteSet(B) /\ Cardinality(B) \in Nat
  <2>1. ASSUME NEW s \in B PROVE s \in A
    <3>1. s \in Tasks /\ Newest(state)[s] > state[task] /\ state[task] \in Nat
      BY <1>0 DEF Above
    <3>2. Newest(state)[s] = state[s]
      BY <1>3, <3>1
    <3> QED BY <3>1, <3>2 DEF Above
  <2>2. IsFiniteSet(A)
    BY <1>0, <1>2
  <2> QED BY <2>1, <2>2, FS_Subset, FS_CardinalityType
<1>5. CASE D = {}
  <2>1. A \in SUBSET B
    BY <1>0, <1>5 DEF Above
  <2>2. Cardinality(A) <= Cardinality(B) /\ IsFiniteSet(A)
    BY <1>4, <2>1, FS_Subset
  <2>3. Cardinality(A) \in Nat
    BY <2>2, FS_CardinalityType
  <2> QED BY <1>0, <1>1, <1>4, <2>2, <2>3
<1>6. CASE D # {}
  <2>1. {MaxChanges - state[s] : s \in D} \subseteq Nat /\ {MaxChanges - state[s] : s \in D} # {}
    BY <1>0, <1>6 DEF Above
  <2>2. PICK v \in {MaxChanges - state[s] : s \in D} : \A u \in {MaxChanges - state[s] : s \in D} : v <= u
    <3> HIDE DEF D
    <3> QED BY <2>1, LeastNatural
  <2>3. PICK d \in D : v = MaxChanges - state[d]
    BY <2>2
  <2>4. d \in Tasks /\ state[d] > state[task] /\ Newest(state)[d] # state[d] /\ state[d] \in Nat
    BY <1>0, <2>3 DEF Above
  <2>5. Cardinality(Above(state, state[d])) >= Limit
    BY <1>3, <2>4
  <2>6. ASSUME NEW s \in Above(state, state[d]) PROVE s \in B
    <3>1. s \in Tasks /\ state[s] > state[d] /\ state[s] \in Nat
      BY <1>0 DEF Above
    <3>2. s \in A
      BY <1>0, <2>4, <3>1 DEF Above
    <3>3. s \notin D
      <4>1. s \in D => MaxChanges - state[d] <= MaxChanges - state[s]
        BY <2>2, <2>3
      <4> QED BY <1>0, <2>4, <3>1, <4>1
    <3>4. Newest(state)[s] = state[s]
      BY <3>2, <3>3
    <3> QED BY <1>0, <2>4, <3>1, <3>4 DEF Above
  <2>7. IsFiniteSet(Above(state, state[d])) /\ Cardinality(Above(state, state[d])) <= Cardinality(B)
    BY <1>4, <2>6, FS_Subset
  <2>8. Cardinality(Above(state, state[d])) \in Nat
    BY <2>7, FS_CardinalityType
  <2> QED BY <1>0, <1>1, <1>4, <2>5, <2>7, <2>8
<1> QED BY <1>5, <1>6

(* No two tasks of a file or a memory have the same change.                 *)
LEMMA StoredOnce ==
    ASSUME Types, OneItem, NEW state \in [Items -> Changes],
           \A task \in Tasks : state[task] # 0 => Stored(task, state[task])
    PROVE  OneEach(state)
<1>1. \A task \in Tasks : task \in Items /\ state[task] \in Changes
  BY Kinds
<1> QED BY <1>1 DEF OneEach, OneItem

(* No two tasks of the file have the same change.                           *)
LEMMA OnceOnDisk ==
    ASSUME Types, OneItem
    PROVE  OneEach(disk) /\ disk \in [Items -> Changes]
<1>1. disk \in [Items -> Changes] /\ \A task \in Tasks : Stored(task, disk[task])
  BY DEF Types, FilesOK, Stored
<1> QED BY <1>1, StoredOnce

(* No two tasks of the file to be written have the same change.             *)
LEMMA OnceWritten ==
    ASSUME Types, LockInv, OneItem, NEW m \in Managers, SnapshotInv(m), GenerationInv(m), saving[m].step = "write"
    PROVE  OneEach(Merged(saving[m])) /\ Merged(saving[m]) \in [Items -> Changes]
<1>1. Whole(saving[m]) /\ saving[m].base = disk /\ saving[m].ops \in Ops
  BY WholeSaving, RecordOf DEF LockInv
<1>2. Merged(saving[m]) \in [Items -> Changes]
  BY <1>1, MergedType
<1>3. ASSUME NEW task \in Tasks PROVE Stored(task, Merged(saving[m])[task])
  <2>1. task \in Items
    BY Kinds
  <2>2. CASE Merged(saving[m])[task] = State(saving[m])[task]
    BY <1>1, <2>1, <2>2 DEF State, Stored, StoredBy
  <2>3. ASSUME NEW g \in DOMAIN saving[m].ops, saving[m].ops[g].task = task,
               Merged(saving[m])[task] = saving[m].ops[g].change
        PROVE  Stored(task, Merged(saving[m])[task])
    <3>1. saving[m].ops[g] = Op(task, Merged(saving[m])[task])
      BY <1>1, <2>3, OpsOf
    <3> QED BY <3>1 DEF Stored, StoredBy
  <2> QED BY <1>1, <2>1, <2>2, <2>3, MergedOf
<1> QED BY <1>2, <1>3, StoredOnce

(* No two tasks of a memory with a new change have the same one.            *)
LEMMA OnceInMemory ==
    ASSUME Types, OneItem, AllMade, NEW m \in Managers, NEW item \in Items, now + 1 \in Changes
    PROVE  /\ OneEach([memory[m] EXCEPT ![item] = now + 1])
           /\ [memory[m] EXCEPT ![item] = now + 1] \in [Items -> Changes]
<1> DEFINE set == [memory[m] EXCEPT ![item] = now + 1]
<1>1. memory[m] \in [Items -> Changes] /\ now \in Nat
  BY DEF Types, FilesOK, CountersOK, Changes
<1>2. set \in [Items -> Changes] /\ \A i \in Items : set[i] = IF i = item THEN now + 1 ELSE memory[m][i]
  BY <1>1
<1>3. \A task \in Tasks : task \in Items /\ Stored(task, memory[m][task]) /\ memory[m][task] \in Changes
  BY <1>1, Kinds DEF Stored, StoredBy
<1>4. OneEach(memory[m])
  BY <1>1, <1>3, StoredOnce
<1>5. \A task \in Tasks : memory[m][task] # now + 1
  <2>1. \A task \in Tasks : memory[m][task] <= now
    BY <1>3 DEF AllMade
  <2>2. \A task \in Tasks : memory[m][task] \in Nat
    BY <1>3 DEF Changes
  <2> QED BY <1>1, <2>1, <2>2
<1> HIDE DEF set
<1>6. OneEach(set)
  BY <1>2, <1>3, <1>4, <1>5 DEF OneEach
<1> QED BY <1>2, <1>6 DEF set

LimitInv == Bounded(disk) /\ \A m \in Managers : Bounded(memory[m])

(* The history starts empty.                                                *)
LEMMA LimitInit == Init => LimitInv
<1> SUFFICES ASSUME Init PROVE LimitInv
  OBVIOUS
<1>1. Listed(Absent) = {}
  BY Kinds DEF Listed, Absent
<1>2. Cardinality(Listed(Absent)) = 0
  BY <1>1, FS_EmptySet
<1>3. Bounded(Absent)
  BY <1>2, ParametersAssumption DEF Bounded
<1> QED BY <1>3 DEF Init, LimitInv

(* No step leaves more than Limit tasks, in the file or in a memory: every  *)
(* insertion and every merge is cut (add_task_to_history,                   *)
(* persist_global_state, initialize).                                       *)
LEMMA LimitNext == Inv /\ LimitInv /\ [Next]_vars => LimitInv'
<1> SUFFICES ASSUME Inv, LimitInv, [Next]_vars PROVE LimitInv'
  OBVIOUS
<1>0. /\ Types /\ LockInv /\ OneItem /\ AllMade /\ \A w \in Workers : WorkerInv(w)
      /\ \A m \in Managers : GenerationInv(m) /\ SnapshotInv(m)
  BY DEF Inv, LocalInv
<1>1. Types' /\ OneStep
  BY <1>0, StepEffect
<1>2. ASSUME NEW m \in Managers PROVE Bounded(memory'[m])
  <2>1. CASE memory'[m] = memory[m]
    BY <2>1 DEF LimitInv
  <2>2. ASSUME NEW w \in Workers, NEW item \in Items, ChangesItem(m, w, item) PROVE Bounded(memory'[m])
    <3>1. memory'[m] = Newest([memory[m] EXCEPT ![item] = now + 1]) /\ now + 1 \in Changes
      BY <1>1, <2>2 DEF ChangesItem, Types, CountersOK
    <3>2. /\ OneEach([memory[m] EXCEPT ![item] = now + 1])
          /\ [memory[m] EXCEPT ![item] = now + 1] \in [Items -> Changes]
      BY <1>0, <3>1, OnceInMemory
    <3> QED BY <3>1, <3>2, NewestBounded
  <2>3. CASE Starts(m)
    BY <1>0, <2>3, OnceOnDisk, NewestBounded DEF Starts
  <2>4. CASE Calls(m)
    BY <2>1, <2>4 DEF Calls, Records, MarksItem, Moves
  <2>5. CASE Takes(m)
    BY <2>1, <2>5 DEF Takes, TakesKeys, TakesOps, Loads, ClearsKeys, ClearsOps, TakesSecrets, Persists
  <2>6. CASE TakesDisk(m) \/ Writes(m) \/ \E key \in Secrets : Stores(m, key)
    BY <2>1, <2>6 DEF TakesDisk, Writes, Stores, Persists
  <2>7. CASE Ends(m, "ok") \/ Ends(m, "failed") \/ Crashes(m)
    BY <2>1, <2>7 DEF Ends, Crashes
  <2>8. CASE Same(m)
    BY <2>1, <2>8 DEF Same
  <2> QED BY <1>0, <1>1, <2>2, <2>3, <2>4, <2>5, <2>6, <2>7, <2>8, AtProcess DEF ProcessStep
<1>3. Bounded(disk')
  <2>1. CASE disk' = disk
    BY <2>1 DEF LimitInv
  <2>2. ASSUME NEW m \in Managers, Writes(m) PROVE Bounded(disk')
    <3>1. disk' = Newest(Merged(saving[m])) /\ saving[m].step = "write"
      BY <2>2 DEF Writes, Persists
    <3> QED BY <1>0, <3>1, OnceWritten, NewestBounded
  <2>3. ASSUME NEW m \in Managers, NEW key \in Secrets, Stores(m, key) PROVE Bounded(disk')
    <3>1. \A task \in Tasks : disk'[task] = disk[task]
      BY <1>0, <2>3, Kinds DEF Stores, Types, FilesOK
    <3>2. Listed(disk') = Listed(disk)
      BY <3>1 DEF Listed
    <3> QED BY <3>2 DEF LimitInv, Bounded
  <2> QED BY <1>1, <2>1, <2>2, <2>3 DEF OneStep, ProcessStep
<1> QED BY <1>2, <1>3 DEF LimitInv

(* The inductive invariant and the limit give the types: generations stay   *)
(* within the changes made, because each is minted for one.                 *)
LEMMA TypesHold == Inv /\ LimitInv => TypeOK
<1> SUFFICES ASSUME Inv, LimitInv PROVE TypeOK
  OBVIOUS
<1>0. /\ Types /\ LockInv /\ CountInv /\ \A w \in Workers : WorkerInv(w)
      /\ \A m \in Managers : GenerationInv(m)
  BY DEF Inv, LocalInv
<1>1. /\ now \in Changes /\ now \in Nat /\ MaxChanges \in Nat /\ now <= MaxChanges
  BY <1>0, ParametersAssumption DEF Types, CountersOK, Changes
<1>2. \A state \in {disk} \union Range(memory) : Cardinality(Listed(state)) <= Limit
  <2>1. DOMAIN memory = Managers
    BY <1>0 DEF Types, FilesOK
  <2> QED BY <2>1 DEF LimitInv, Bounded, Range
<1>3. ASSUME NEW m \in Managers PROVE minted[m] \in Nat \ {0} /\ minted[m] <= MaxChanges + 1
  <2>1. minted[m] \in Nat \ {0} /\ Cardinality(Making(m)) \in Nat
    BY <1>0, FS_CardinalityType DEF CountInv, Types, CountersOK
  <2>2. minted[m] + Cardinality(Making(m)) <= now + 1
    BY <1>0 DEF CountInv
  <2> QED BY <1>1, <2>1, <2>2
<1>4. minted \in [Managers -> Generations]
  BY <1>0, <1>1, <1>3 DEF Types, CountersOK, Generations
<1>5. ASSUME NEW w \in Workers PROVE worker[w].generation \in 0 .. MaxChanges
  <2>1. worker[w].generation \in Nat /\ Home[w] \in Managers
    BY <1>0, WorkerOf, HomeType
  <2>2. worker[w].generation # 0 => worker[w].generation < minted[Home[w]]
    BY <1>0, <2>1 DEF WorkerInv, GenerationInv, Recorded
  <2> QED BY <1>1, <1>3, <2>1, <2>2
<1>6. worker \in [Workers ->
         [step : {"idle", "changed", "recorded", "calling", "persisting", "saved"},
          item : {{}} \union {{item} : item \in Items}, change : Changes, generation : 0..MaxChanges]]
  BY <1>0, <1>5 DEF Types, PersistOK, WorkerType, WorkSteps
<1>7. ASSUME NEW m \in Managers
      PROVE  /\ Partial(pending[m], Markers, Generations)
             /\ Partial(history[m], Generations, Operations)
             /\ saving[m].step \in SaveSteps /\ saving[m].by \subseteq Workers
             /\ Partial(saving[m].keys, Markers, Generations)
             /\ Partial(saving[m].ops, Generations, Operations)
             /\ Partial(saving[m].values, Settings \union Secrets, Changes)
             /\ saving[m].base \in {<<>>} \union [Items -> Changes]
  <2>1. /\ saving[m] \in SavingType /\ pending[m] \in Marks /\ history[m] \in Ops
        /\ saving[m].keys \in Marks /\ saving[m].ops \in Ops /\ saving[m].values \in Values
    BY <1>0, RecordOf
  <2>2. \A n \in Nat \ {0} : n < minted[m] => n \in Generations
    BY <1>1, <1>3 DEF Generations
  <2>3. ASSUME NEW f \in Marks, \A k \in DOMAIN f : f[k] < minted[m] PROVE Partial(f, Markers, Generations)
    BY <2>2, <2>3, MarksOf DEF Partial, Range
  <2>4. ASSUME NEW f \in Ops, \A g \in DOMAIN f : g < minted[m] PROVE Partial(f, Generations, Operations)
    <3>1. DOMAIN f \subseteq Generations
      BY <2>2, <2>4, OpsOf
    <3>2. Changes \ {0} = 1 .. MaxChanges
      BY <1>1 DEF Changes
    <3>3. \A g \in DOMAIN f : f[g] \in Operations
      BY <3>2, OpsOf DEF Op, Operations
    <3> QED BY <3>1, <3>3 DEF Partial, Range
  <2>5. Partial(saving[m].values, Settings \union Secrets, Changes)
    BY <2>1, ValuesOf DEF Partial, Range
  <2> QED BY <1>0, <2>1, <2>3, <2>4, <2>5 DEF GenerationInv, SavingType
<1> QED BY <1>0, <1>1, <1>2, <1>4, <1>6, <1>7 DEF TypeOK, Types, CountersOK, FilesOK, ProcessOK, SaveSteps

(* TypeOK: the maps, counters and locks of StateManager hold what their     *)
(* types say, and no history, in memory or in the file, has more than       *)
(* task_history_limit() tasks.                                              *)
THEOREM TypeCorrect == Spec => []TypeOK
<1>1. Init => LimitInv
  BY LimitInit
<1>2. Inv /\ Inv' /\ LimitInv /\ [Next]_vars => LimitInv'
  BY LimitNext
<1>3. Inv /\ LimitInv => TypeOK
  BY TypesHold
<1> QED BY <1>1, <1>2, <1>3, Invariance, PTL DEF Spec

(* A write changes an item to what its snapshots bring, or cuts a task, the *)
(* file's or one it brings, that has Limit newer ones.                      *)
LEMMA WriteKeeps ==
    ASSUME Types, LockInv, OneItem, NEW m \in Managers, SnapshotInv(m), GenerationInv(m), Writes(m),
           NEW item \in Items, disk'[item] # disk[item]
    PROVE  \/ Brings(saving[m], item, disk'[item])
           \/ /\ item \in Tasks /\ disk'[item] = 0
              /\ \E change \in Changes :
                   /\ change = disk[item] \/ Brings(saving[m], item, change)
                   /\ Cardinality({t \in Tasks : disk'[t] > change}) >= Limit
<1> DEFINE M == Merged(saving[m])
<1>1. /\ disk' = Newest(M) /\ saving[m].step = "write" /\ saving[m].base = disk
      /\ Whole(saving[m]) /\ saving[m].ops \in Ops /\ saving[m].values \in Values
  BY WholeSaving, RecordOf DEF Writes, Persists, LockInv
<1>2. OneEach(M) /\ M \in [Items -> Changes]
  BY <1>1, OnceWritten
<1>3. /\ DOMAIN saving[m].values = DOMAIN saving[m].keys \ {TaskHistory}
      /\ DOMAIN saving[m].values \subseteq Settings \cup Secrets
      /\ DOMAIN saving[m].keys \cap Secrets = {}
  BY <1>1, ValuesOf DEF SnapshotInv, Writing
<1>4. M[item] = disk[item] \/ Brings(saving[m], item, M[item])
  <2>1. CASE M[item] = State(saving[m])[item]
    BY <1>1, <1>3, <2>1 DEF State, Brings
  <2>2. ASSUME NEW g \in DOMAIN saving[m].ops, saving[m].ops[g].task = item, M[item] = saving[m].ops[g].change
        PROVE  Brings(saving[m], item, M[item])
    <3>1. saving[m].ops[g] = [task |-> item, change |-> M[item]]
      BY <1>1, <2>2, OpsOf DEF Op
    <3> QED BY <3>1 DEF Brings
  <2> QED BY <1>1, <2>1, <2>2, MergedOf
<1>5. CASE disk'[item] = M[item]
  BY <1>4, <1>5
<1>6. CASE disk'[item] # M[item]
  <2>1. item \in Tasks
    BY <1>1, <1>2, <1>6, NewestType
  <2>2. disk'[item] = 0 /\ Cardinality(Above(disk', M[item])) >= Limit
    BY <1>1, <1>2, <1>6, <2>1, NewestCuts
  <2>3. M[item] \in Changes /\ Cardinality({t \in Tasks : disk'[t] > M[item]}) >= Limit
    BY <1>2, <2>2 DEF Above
  <2> QED BY <1>4, <2>1, <2>2, <2>3
<1> QED BY <1>5, <1>6

(* OthersKept: no persist takes back what another process wrote, however    *)
(* old its own memory is; a task leaves the history only for Limit newer    *)
(* ones (persist_global_state, persist_secrets).                            *)
THEOREM OthersAreKept == Spec => OthersKept
<1> DEFINE Kept == \A item \in Items : disk'[item] # disk[item] =>
          \/ \E m \in live : Brings(saving[m], item, disk'[item])
          \/ item \in Secrets /\ \E m \in live : item \in DOMAIN saving[m].keys
          \/ /\ item \in Tasks /\ disk'[item] = 0
             /\ \E change \in Changes :
                  /\ change = disk[item] \/ \E m \in live : Brings(saving[m], item, change)
                  /\ Cardinality({t \in Tasks : disk'[t] > change}) >= Limit
<1>1. ASSUME Inv, [Next]_vars PROVE Kept
  <2>0. /\ Types /\ LockInv /\ OneItem /\ \A w \in Workers : WorkerInv(w)
        /\ \A m \in Managers : GenerationInv(m) /\ SnapshotInv(m)
    BY <1>1 DEF Inv, LocalInv
  <2>1. OneStep
    BY <1>1, <2>0, StepEffect
  <2>2. CASE disk' = disk
    BY <2>2
  <2>3. ASSUME NEW m \in Managers, Writes(m) PROVE Kept
    <3>1. m \in live
      BY <2>3 DEF Writes, Persists
    <3> QED BY <2>0, <2>3, <3>1, WriteKeeps
  <2>4. ASSUME NEW m \in Managers, NEW key \in Secrets, Stores(m, key) PROVE Kept
    <3>1. m \in live /\ key \in DOMAIN saving[m].keys /\ \A item \in Items \ {key} : disk'[item] = disk[item]
      BY <2>0, <2>4 DEF Stores, Persists, Types, FilesOK
    <3> QED BY <3>1
  <2> QED BY <2>1, <2>2, <2>3, <2>4 DEF OneStep, ProcessStep
<1> QED BY <1>1, Invariance, PTL DEF Spec, OthersKept

=============================================================================
