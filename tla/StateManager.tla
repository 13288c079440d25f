---------------------------- MODULE StateManager ----------------------------
(***************************************************************************)
(* Settings, secrets and the task history                                  *)
(* (src/src/storage/state_manager.rs).  A process changes its copy in      *)
(* memory, notes the change as pending and persists: under a lock of its   *)
(* own and one shared with other processes it merges what is pending into  *)
(* the file as it is now.  A change is a number, the time it was made.     *)
(***************************************************************************)
EXTENDS Integers, FiniteSets, FiniteSetsExt, Functions

CONSTANTS
    Managers,    \* state managers: one in every sned process
    Workers,     \* what calls them: turns, a cancellation, the terminal, `config'
    Home,        \* [Workers -> Managers]
    Settings,    \* the settings a process may set, all but the task history
    Secrets,     \* API keys
    Tasks,       \* task ids
    Owns,        \* [Workers -> the settings, secrets and tasks it may change]
    Limit,       \* task_history_limit(): items the history may have
    MaxChanges,  \* bound: changes made
    MaxFaults    \* bound: crashes, failed reads and writes, lock timeouts

Items == Settings \union Secrets \union Tasks

ASSUME ParametersAssumption ==
    /\ Home \in [Workers -> Managers] /\ Owns \in [Workers -> SUBSET Items]
    /\ Limit \in Nat \ {0} /\ MaxChanges \in Nat /\ MaxFaults \in Nat

\* `sned config' and `sned auth' set settings, an agent's process records tasks;
\* no process does both.
ASSUME OneKindAssumption ==
    \A m \in Managers :
        LET may == UNION {Owns[w] : w \in {w \in Workers : Home[w] = m}}
        IN may \intersect Settings = {} \/ may \intersect Tasks = {}

\* What is set under one name is one thing, and the history's marker is none of them.
ASSUME NamesAssumption ==
    /\ Settings \intersect Secrets = {} /\ (Settings \union Secrets) \intersect Tasks = {}
    /\ "taskHistory" \notin Settings \union Secrets

\* An item has one caller at a time in a process: an agent's turns follow each
\* other and are dropped only at an await, the terminal waits for its persist.
ASSUME OneCallerAssumption ==
    \A v, w \in Workers : v # w /\ Home[v] = Home[w] => Owns[v] \intersect Owns[w] = {}

VARIABLES
    now,      \* changes made so far
    memory,   \* [Managers -> [Items -> change]]: global_state and secrets
    disk,     \* [Items -> change]: global_settings.json and the secrets store
    pending,  \* [Managers -> [marked -> generation]]: both maps of pending keys
    history,  \* [Managers -> [generation -> change of a task]]: pending operations
    minted,   \* [Managers -> generation]: next_pending_generation
    worker,   \* [Workers -> what it is doing]
    saving,   \* [Managers -> the persist that holds persist_lock, or NotSaving]
    flock,    \* the managers that hold the state directory's lock
    live,     \* the managers whose process runs
    reached,  \* changes some write included (ghost)
    faults    \* faults so far

vars == <<now, memory, disk, pending, history, minted, worker, saving, flock,
          live, reached, faults>>

----------------------------------------------------------------------------
\* One marker stands for the history, one for each setting and secret.
TaskHistory == "taskHistory"
Marker(item) == IF item \in Tasks THEN TaskHistory ELSE item
Markers == Settings \union Secrets \union {TaskHistory}

Changes == 0..MaxChanges
Absent == [item \in Items |-> 0]

Without(f, gone) == [x \in DOMAIN f \ gone |-> f[x]]
With(f, x, value) == [y \in DOMAIN f \union {x} |-> IF y = x THEN value ELSE f[y]]

Newer(state, task) == Cardinality({t \in Tasks : state[t] > state[task]})
Listed(state) == {task \in Tasks : state[task] # 0}

\* enforce_task_history_limit: all but the newest items of the history go.
Newest_OneMore(state) ==
    [item \in Items |-> IF item \in Tasks /\ Newer(state, item) > Limit THEN 0 ELSE state[item]]
Newest(state) ==
    [item \in Items |-> IF item \in Tasks /\ Newer(state, item) >= Limit THEN 0 ELSE state[item]]

NotSaving == [step |-> "none", by |-> {}, keys |-> <<>>, ops |-> <<>>,
              values |-> <<>>, base |-> <<>>]

Quiet == [step |-> "idle", item |-> {}, change |-> 0, generation |-> 0]

Init ==
    /\ now = 0 /\ disk = Absent
    /\ memory = [m \in Managers |-> Absent]
    /\ pending = [m \in Managers |-> <<>>]
    /\ history = [m \in Managers |-> <<>>]
    /\ minted = [m \in Managers |-> 1]
    /\ worker = [w \in Workers |-> Quiet]
    /\ saving = [m \in Managers |-> NotSaving]
    /\ flock = {} /\ live = Managers
    /\ reached = {0} /\ faults = 0

----------------------------------------------------------------------------
\* A change, by add_task_to_history, set_global_state_key or set_secret.

Turns == {w \in Workers : Owns[w] \subseteq Tasks}

At(w, step) == Home[w] \in live /\ worker[w].step = step
Goes(w, step) == worker' = [worker EXCEPT ![w].step = step]

\* Between the change and its marker.
Marking == {"changed", "recorded"}

\* persist_secrets reads the secrets under one lock until it has stored them all.
Storing(m) ==
    saving[m].step = "store" /\ DOMAIN saving[m].values \notin {{}, DOMAIN saving[m].keys}

\* A compaction records its task again under the time it had (C1 fix part 1),
\* which may be too old for the limit; here every change is the newest.
Change(w, item) ==
    /\ At(w, "idle") /\ item \in Owns[w] /\ now < MaxChanges
    /\ item \in Secrets => ~Storing(Home[w])
    /\ now' = now + 1
    /\ memory' = [memory EXCEPT ![Home[w]] = Newest([@ EXCEPT ![item] = now'])]
    /\ worker' = [worker EXCEPT ![w] = [step |-> "changed", item |-> {item}, change |-> now',
                                        generation |-> 0]]
    /\ UNCHANGED <<disk, pending, history, minted, saving, flock, live, reached, faults>>

ItemOf(w) == CHOOSE item \in worker[w].item : TRUE

\* next_pending_generation and record_history_operation: an Upsert, for nothing
\* but tests replaces or removes.
Record(w) ==
    /\ At(w, "changed")
    /\ LET m == Home[w]
       IN /\ minted' = [minted EXCEPT ![m] = @ + 1]
          /\ worker' = [worker EXCEPT ![w].generation = minted[m], ![w].step = "recorded"]
          /\ history' = IF ItemOf(w) \in Tasks
                        THEN [history EXCEPT ![m] =
                                With(@, minted[m], [task |-> ItemOf(w), change |-> worker[w].change])]
                        ELSE history
    /\ UNCHANGED <<now, memory, disk, pending, saving, flock, live, reached, faults>>

Mark(w) ==
    /\ At(w, "recorded")
    /\ pending' = [pending EXCEPT ![Home[w]] = With(@, Marker(ItemOf(w)), worker[w].generation)]
    /\ worker' = [worker EXCEPT ![w].step = "calling", ![w].generation = 0]
    /\ UNCHANGED <<now, memory, disk, history, minted, saving, flock, live, reached, faults>>

\* The end of a turn, or its cancellation, persists what is pending.
JustPersist(w) ==
    /\ At(w, "idle") /\ w \in Turns
    /\ Goes(w, "calling")
    /\ UNCHANGED <<now, memory, disk, pending, history, minted, saving, flock, live,
                   reached, faults>>

----------------------------------------------------------------------------
\* persist().  The caller may be gone while it runs: spawn_blocking goes on.

Saves(m, step) == m \in live /\ saving[m].step = step
Proceeds(m, step) == saving' = [saving EXCEPT ![m].step = step]
Unmoved == UNCHANGED <<now, memory, minted, live>>

TakeOwnLock(w) ==
    /\ At(w, "calling") /\ saving[Home[w]] = NotSaving
    /\ saving' = [saving EXCEPT ![Home[w]] = [@ EXCEPT !.step = "locking", !.by = {w}]]
    /\ Goes(w, "persisting")
    /\ Unmoved /\ UNCHANGED <<disk, pending, history, flock, reached, faults>>

DiskLockFree_Ignored == TRUE
DiskLockFree == flock = {}

TakeDiskLock(m) ==
    /\ Saves(m, "locking") /\ DiskLockFree
    /\ flock' = flock \union {m}
    /\ Proceeds(m, "keys")
    /\ Unmoved /\ UNCHANGED <<disk, pending, history, worker, reached, faults>>

\* Return from persist(), which releases both locks.
Answered(m, answer) ==
    /\ saving' = [saving EXCEPT ![m] = NotSaving]
    /\ flock' = flock \ {m}
    /\ worker' = [w \in Workers |-> IF w \notin saving[m].by THEN worker[w]
                                    ELSE IF answer = "failed" THEN Quiet
                                    ELSE [worker[w] EXCEPT !.step = "saved"]]

\* A turn is dropped, a cancellation waits no longer than two seconds; the
\* blocking thread does not know.
Abandon(w) ==
    /\ At(w, "persisting") /\ w \in Turns
    /\ worker' = [worker EXCEPT ![w] = Quiet]
    /\ saving' = [saving EXCEPT ![Home[w]].by = {}]
    /\ Unmoved /\ UNCHANGED <<disk, pending, history, flock, reached, faults>>

\* The caller hears Ok.
Return(w) ==
    /\ At(w, "saved")
    /\ worker' = [worker EXCEPT ![w] = Quiet]
    /\ Unmoved /\ UNCHANGED <<disk, pending, history, saving, flock, reached, faults>>

Failing == faults < MaxFaults /\ faults' = faults + 1

\* A timeout on the lock, an unreadable file, a failed write: `?' returns at once.
Fail(m) ==
    /\ m \in live
    /\ saving[m].step \in {"locking", "load", "write", "store"}
    /\ Failing /\ Answered(m, "failed")
    /\ Unmoved /\ UNCHANGED <<disk, pending, history, reached>>

SnapshotKeys(m) ==
    /\ Saves(m, "keys")
    /\ saving' = [saving EXCEPT ![m].keys = Restrict(pending[m], DOMAIN pending[m] \ Secrets),
                                ![m].step = "ops"]
    /\ Unmoved /\ UNCHANGED <<disk, pending, history, worker, flock, reached, faults>>

\* Without a pending key nothing global is written and no operation cleared.
SnapshotOps(m) ==
    /\ Saves(m, "ops")
    /\ saving' = [saving EXCEPT ![m].ops = history[m],
                                ![m].step = IF saving[m].keys = <<>> THEN "secrets" ELSE "load"]
    /\ Unmoved /\ UNCHANGED <<disk, pending, history, worker, flock, reached, faults>>

\* The pending settings are read as they are now, maybe newer than their markers;
\* the rest is the file's, not what this process remembers of it.
Load(m) ==
    /\ Saves(m, "load")
    /\ saving' = [saving EXCEPT ![m] = [@ EXCEPT
            !.values = Restrict(memory[m], DOMAIN saving[m].keys \ {TaskHistory}),
            !.base = disk, !.step = "write"]]
    /\ Unmoved /\ UNCHANGED <<disk, pending, history, worker, flock, reached, faults>>

\* The operations of the history, in the order of their generations.
Upserted(state, ops) ==
    LET Last(task) == {g \in DOMAIN ops : ops[g].task = task}
    IN [item \in Items |-> IF item \in Tasks /\ Last(item) # {}
                           THEN ops[Max(Last(item))].change ELSE state[item]]

Merged(save) ==
    LET state == [item \in Items |-> IF item \in DOMAIN save.values THEN save.values[item]
                                     ELSE save.base[item]]
    IN IF TaskHistory \in DOMAIN save.keys THEN Upserted(state, save.ops) ELSE state

\* atomic_write_file: the whole file or nothing.
Write(m) ==
    /\ Saves(m, "write")
    /\ disk' = Newest(Merged(saving[m]))
    /\ reached' = reached \union Range(Merged(saving[m]))
    /\ Proceeds(m, "clear keys")
    /\ Unmoved /\ UNCHANGED <<pending, history, worker, flock, faults>>

\* Only the marker that was written; a newer one stays.
Cleared_AnyGeneration(marked, snapshot) == Without(marked, DOMAIN snapshot)
Cleared(marked, snapshot) ==
    Without(marked, {k \in DOMAIN marked \intersect DOMAIN snapshot : marked[k] = snapshot[k]})

ClearKeys(m) ==
    /\ Saves(m, "clear keys")
    /\ pending' = [pending EXCEPT ![m] = Cleared(@, saving[m].keys)]
    /\ Proceeds(m, "clear ops")
    /\ Unmoved /\ UNCHANGED <<disk, history, worker, flock, reached, faults>>

OpsLeft(ops, snapshot) == Without(ops, DOMAIN snapshot)

ClearOps(m) ==
    /\ Saves(m, "clear ops")
    /\ history' = [history EXCEPT ![m] = OpsLeft(@, saving[m].ops)]
    /\ saving' = [saving EXCEPT ![m] = [NotSaving EXCEPT !.step = "secrets", !.by = saving[m].by]]
    /\ Unmoved /\ UNCHANGED <<disk, pending, worker, flock, reached, faults>>

SnapshotSecrets(m) ==
    /\ Saves(m, "secrets")
    /\ LET keys == Restrict(pending[m], DOMAIN pending[m] \intersect Secrets)
       IN IF keys = <<>> THEN Answered(m, "ok")
          ELSE /\ saving' = [saving EXCEPT ![m] = [NotSaving EXCEPT !.step = "store", !.keys = keys,
                                                                   !.by = saving[m].by]]
               /\ UNCHANGED <<worker, flock>>
    /\ Unmoved /\ UNCHANGED <<disk, pending, history, reached, faults>>

\* persist_secrets stores one key after another; `values' are those it has stored.
StoreSecret(m, key) ==
    /\ Saves(m, "store") /\ key \in DOMAIN saving[m].keys \ DOMAIN saving[m].values
    /\ disk' = [disk EXCEPT ![key] = memory[m][key]]
    /\ reached' = reached \union {memory[m][key]}
    /\ saving' = [saving EXCEPT ![m].values = With(@, key, memory[m][key])]
    /\ Unmoved /\ UNCHANGED <<pending, history, worker, flock, faults>>

ClearSecrets(m) ==
    /\ Saves(m, "store") /\ DOMAIN saving[m].values = DOMAIN saving[m].keys
    /\ pending' = [pending EXCEPT ![m] = Cleared(@, saving[m].keys)]
    /\ Answered(m, "ok")
    /\ Unmoved /\ UNCHANGED <<disk, history, reached, faults>>

----------------------------------------------------------------------------
\* Processes end and start.

Crash(m) ==
    /\ m \in live /\ Failing
    /\ live' = live \ {m}
    /\ flock' = flock \ {m}
    /\ saving' = [saving EXCEPT ![m] = NotSaving]
    /\ worker' = [w \in Workers |-> IF Home[w] = m THEN Quiet ELSE worker[w]]
    /\ pending' = [pending EXCEPT ![m] = <<>>]
    /\ history' = [history EXCEPT ![m] = <<>>]
    /\ UNCHANGED <<now, memory, disk, minted, reached>>

\* new() and initialize().
Start(m) ==
    /\ m \notin live /\ DiskLockFree
    /\ live' = live \union {m}
    /\ memory' = [memory EXCEPT ![m] = Newest(disk)]
    /\ minted' = [minted EXCEPT ![m] = 1]
    /\ UNCHANGED <<now, disk, pending, history, worker, saving, flock, reached, faults>>

Step(m) ==
    \/ TakeDiskLock(m) \/ Fail(m)
    \/ SnapshotKeys(m) \/ SnapshotOps(m) \/ Load(m) \/ Write(m)
    \/ ClearKeys(m) \/ ClearOps(m)
    \/ SnapshotSecrets(m) \/ ClearSecrets(m) \/ (\E key \in Secrets : StoreSecret(m, key))

Next ==
    \/ \E w \in Workers :
         \/ \E item \in Items : Change(w, item)
         \/ Record(w) \/ Mark(w) \/ JustPersist(w) \/ TakeOwnLock(w) \/ Abandon(w) \/ Return(w)
    \/ \E m \in Managers : Step(m) \/ Crash(m) \/ Start(m)

Spec == Init /\ [][Next]_vars

----------------------------------------------------------------------------
\* Properties.

Generations == 1..(MaxChanges + 1)
Operations == [task : Tasks, change : 1..MaxChanges]
Partial(f, D, R) == DOMAIN f \subseteq D /\ Range(f) \subseteq R

\* The types of the variables: what StateManager's maps and counters may hold, with
\* no more than Limit tasks in a history, in the file as in memory.
TypeOK ==
    /\ now \in Changes /\ faults \in 0..MaxFaults
    /\ \A state \in {disk} \union Range(memory) : Cardinality(Listed(state)) <= Limit
    /\ memory \in [Managers -> [Items -> Changes]] /\ disk \in [Items -> Changes]
    /\ minted \in [Managers -> Generations]
    /\ worker \in [Workers ->
         [step : {"idle", "changed", "recorded", "calling", "persisting", "saved"},
          item : {{}} \union {{item} : item \in Items}, change : Changes,
          generation : 0..MaxChanges]]
    /\ \A m \in Managers :
         /\ Partial(pending[m], Markers, Generations)
         /\ Partial(history[m], Generations, Operations)
         /\ saving[m].step \in {"none", "locking", "keys", "ops", "load", "write",
                                "clear keys", "clear ops", "secrets", "store"}
         /\ saving[m].by \subseteq Workers
         /\ Partial(saving[m].keys, Markers, Generations)
         /\ Partial(saving[m].ops, Generations, Operations)
         /\ Partial(saving[m].values, Settings \union Secrets, Changes)
         /\ saving[m].base \in {<<>>} \union [Items -> Changes]
    /\ flock \subseteq live /\ live \subseteq Managers
    /\ reached \subseteq Changes

\* A caller that has not come to mark its change yet.
Unmarked(m, item) ==
    \E w \in Workers : /\ Home[w] = m /\ worker[w].item = {item}
                       /\ worker[w].step \in Marking

\* What a process holds and no file ever had is still pending, and for a task so
\* is an operation that brings it: persist clears no marker and no operation of
\* a change that came while it was writing.
NothingForgotten ==
    \A m \in live, item \in Items :
        memory[m][item] \notin reached =>
            \/ Unmarked(m, item)
            \/ /\ Marker(item) \in DOMAIN pending[m]
               /\ item \in Tasks =>
                    \E g \in DOMAIN history[m] :
                        history[m][g] = [task |-> item, change |-> memory[m][item]]

\* A caller whose persist returned Ok has its change in the files, or had it
\* there before a newer one: also when another persist of its process, or of
\* another one, took the change along or failed in between.
OkIsSaved ==
    \A w \in Workers : worker[w].step = "saved" => worker[w].change \in reached

\* No change is lost by persist: what is not in the files is pending, and what
\* its caller was told is saved is in them (persist, persist_async).
NoChangeLost == NothingForgotten /\ OkIsSaved

\* A write changes what its process has pending and nothing else: a setting, a
\* secret or a task of another process is not undone by a process whose memory
\* is older; a task leaves the history only for Limit newer ones.
Brings(save, item, value) ==
    \/ item \in DOMAIN save.keys \intersect Settings /\ value = save.values[item]
    \/ \E g \in DOMAIN save.ops : save.ops[g] = [task |-> item, change |-> value]

OthersKept ==
    [][\A item \in Items : disk'[item] # disk[item] =>
          \/ \E m \in live : Brings(saving[m], item, disk'[item])
          \/ item \in Secrets /\ \E m \in live : item \in DOMAIN saving[m].keys
          \/ /\ item \in Tasks /\ disk'[item] = 0
             /\ \E change \in Changes :
                  /\ change = disk[item] \/ \E m \in live : Brings(saving[m], item, change)
                  /\ Cardinality({t \in Tasks : disk'[t] > change}) >= Limit
      ]_vars
=============================================================================
