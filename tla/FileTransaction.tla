--------------------------- MODULE FileTransaction ---------------------------
(***************************************************************************)
(* The tools that write the user's files (src/src/core/tools/handlers):    *)
(* edit_file with anchors ("edit") and with a revision ("range"),          *)
(* replace_symbol and rename_symbol ("symbol") and write_to_file ("write"). *)
(* Jobs of one process exclude each other by a guard per path; an edit     *)
(* also takes the operating system's lock of each file while it writes it. *)
(* Other processes and other programs write whenever they like.            *)
(*                                                                         *)
(* A text is the job that wrote it, an outsider's write, or the original.  *)
(* What makes a job refuse a file while it reads it (anchors, size, a      *)
(* demanded re-read, a stale cache) is left open: it may refuse any.       *)
(***************************************************************************)
EXTENDS Integers, Sequences, FiniteSets

CONSTANTS
    Files,          \* paths, as numbers: guards are taken in this order
    Jobs,           \* places where a tool call can be at work, numbered
    Fsync,          \* SNED_FSYNC: an asynchronous write is waited for
    MaxCalls,       \* bound on tool calls
    MaxFaults       \* bound on writes by other programs, aborts, kills and writes cut short

ASSUME FileConstants ==
    /\ Files \subseteq Nat /\ IsFiniteSet(Files)
    /\ Jobs \subseteq Nat \ {0} /\ IsFiniteSet(Jobs)
    /\ Fsync \in BOOLEAN
    /\ {MaxCalls, MaxFaults} \subseteq Nat

VARIABLES
    home,           \* the process of each job
    disk,           \* the files: text, inode, and whether the text is all there
    job,            \* what each job is doing
    log,            \* auxiliary: the calls started so far and what became of them
    orphans,        \* renames under way whose job is gone
    writers,        \* auxiliary: who has written each file, and how
    lost,           \* auxiliary: texts overwritten by a job that had not read them
    outside, stops, cuts  \* faults: writes by others, aborts and kills, writes cut short

vars == <<home, disk, job, log, orphans, writers, lost, outside, stops, cuts>>

Kinds == {"edit", "symbol", "range", "write"}
Processes == Jobs               \* a process is named for one of its jobs
Torn == -1                      \* what is read of a file that is not all there
Texts == Torn .. MaxCalls + MaxFaults
NoView == [text |-> Torn, node |-> -1]
Views == [text : Texts, node : Nat] \cup {NoView}
Steps == {"idle", "guards", "ask", "read", "open", "lock", "check",
          "rename", "verify", "publish", "undo", "restore"}
Results == {"working", "refused", "denied", "applied", "unpublished",
            "undone", "incomplete", "failed", "dropped"}
Outsider == <<0, "outsider">>     \* no job has number 0
Faults == outside + stops + cuts

Idle == [step |-> "idle", kind |-> "edit", id |-> 0, files |-> <<>>, held |-> {},
         at |-> 0, base |-> [f \in Files |-> NoView], node |-> -1, clean |-> TRUE]

TypeOK ==
    /\ home \in [Jobs -> Processes]
    /\ disk \in [Files -> [text : Texts, node : Nat, whole : BOOLEAN]]
    /\ job \in [Jobs -> [step : Steps, kind : Kinds, id : 0 .. MaxCalls, files : Seq(Files),
                         held : SUBSET Files, at : Nat, base : [Files -> Views],
                         node : Nat \cup {-1}, clean : BOOLEAN]]
    /\ \A j \in Jobs : job[j].step \notin {"idle", "guards", "publish"} =>
          job[j].at \in DOMAIN job[j].files
    /\ log \in Seq([kind : Kinds, by : Processes, result : Results]) /\ Len(log) <= MaxCalls
    /\ orphans \subseteq [by : Processes, file : Files, text : Texts]
    /\ writers \in [Files -> SUBSET ((Processes \X (Kinds \cup {"undo", "orphan"})) \cup {Outsider})]
    /\ lost \subseteq [file : Files, victim : Texts, read : Texts, by : 1 .. MaxCalls,
                       when : {"write", "undo"}]
    /\ {outside, stops, cuts} \subseteq Nat /\ Faults <= MaxFaults

Init ==
    /\ home \in [Jobs -> Processes] /\ \A j \in Jobs : home[j] <= j
    /\ disk = [f \in Files |-> [text |-> 0, node |-> 0, whole |-> TRUE]]
    /\ job = [j \in Jobs |-> Idle] /\ log = <<>> /\ orphans = {}
    /\ writers = [f \in Files |-> {}] /\ lost = {}
    /\ outside = 0 /\ stops = 0 /\ cuts = 0

-----------------------------------------------------------------------------
(* Reading and replacing a file.                                           *)

Content(f) == IF disk[f].whole THEN disk[f].text ELSE Torn
View(f) == [text |-> Content(f), node |-> disk[f].node]     \* content and mtime

(* atomic_write_file_async renames a temporary file over f: another inode. *)
(* tokio's write_all returns with the last piece still being written, and  *)
(* only sync_all waits for it: without it the rename may come first.  A     *)
(* range edit writes its own temporary file, and flushes it.               *)
Replace(f, text, who) ==
    \E whole \in {TRUE, Fsync \/ who[2] = "range" \/ Faults = MaxFaults} :
       /\ disk' = [disk EXCEPT ![f] = [text |-> text, node |-> @.node + 1, whole |-> whole]]
       /\ writers' = [writers EXCEPT ![f] = @ \cup {who}]
       /\ cuts' = IF whole THEN cuts ELSE cuts + 1

Loses(f, expected, id, when) ==
    IF disk[f].text = expected THEN {}
    ELSE {[file |-> f, victim |-> disk[f].text, read |-> expected, by |-> id, when |-> when]}

Current(j) == job[j].files[job[j].at]
Set(j, change) == job' = [job EXCEPT ![j] = change]
Goto(j, step, at) == Set(j, [job[j] EXCEPT !.step = step, !.at = at])
(* The job ends: its guards and its file handle are dropped with it.       *)
End(j, result) ==
    /\ Set(j, Idle)
    /\ log' = [log EXCEPT ![job[j].id].result = result]

-----------------------------------------------------------------------------
(* The guards of the paths, in sorted order (ToolContext::lock_file_paths). *)

Lists == {s \in UNION {[1 .. n -> Files] : n \in 1 .. Cardinality(Files)} :
             \A i, k \in DOMAIN s : i # k => s[i] # s[k]}
Requests(kind) == IF kind \in {"edit", "symbol"} THEN Lists ELSE {s \in Lists : Len(s) = 1}

Start(j) ==
    /\ job[j].step = "idle" /\ Len(log) < MaxCalls
    /\ \E kind \in Kinds : \E files \in Requests(kind) :
          /\ Set(j, [Idle EXCEPT !.step = "guards", !.kind = kind, !.files = files,
                                 !.id = Len(log) + 1])
          /\ log' = Append(log, [kind |-> kind, by |-> home[j], result |-> "working"])
    /\ UNCHANGED <<home, disk, orphans, writers, lost, outside, stops, cuts>>

Requested(j) == {job[j].files[i] : i \in DOMAIN job[j].files}
(* The next guard to wait for.                                             *)
NextGuard_AsListed(j) ==
    LET missing == {i \in DOMAIN job[j].files : job[j].files[i] \notin job[j].held}
    IN job[j].files[CHOOSE i \in missing : \A k \in missing : i <= k]
NextGuard(j) ==
    LET missing == Requested(j) \ job[j].held
    IN CHOOSE f \in missing : \A g \in missing : f <= g
(* FileLockManager: one lock per path and process.                         *)
GuardFree_Always(j, f) == TRUE
GuardFree(j, f) == \A other \in Jobs \ {j} : home[other] = home[j] => f \notin job[other].held
AfterGuards(kind) == CASE kind = "write" -> "rename" [] kind = "range" -> "ask" [] OTHER -> "read"

TakeGuard(j) ==
    /\ job[j].step = "guards" /\ GuardFree(j, NextGuard(j))
    /\ LET held == job[j].held \cup {NextGuard(j)}
           all == held = Requested(j)
       IN Set(j, [job[j] EXCEPT !.held = held, !.at = IF all THEN 1 ELSE 0,
                                !.step = IF all THEN AfterGuards(job[j].kind) ELSE "guards"])
    /\ UNCHANGED <<home, disk, log, orphans, writers, lost, outside, stops, cuts>>

-----------------------------------------------------------------------------
(* Preparing: read every file, ask, compare the anchors' generation.       *)

LastFile(j) == job[j].at = Len(job[j].files)
AfterReads(kind) == IF kind = "edit" THEN "ask" ELSE "check"

ReadFile(j) ==
    /\ job[j].step = "read"
    /\ Set(j, [job[j] EXCEPT !.base[Current(j)] = View(Current(j)),
                             !.at = IF LastFile(j) THEN 1 ELSE @ + 1,
                             !.step = IF LastFile(j) THEN AfterReads(job[j].kind) ELSE "read"])
    /\ UNCHANGED <<home, disk, log, orphans, writers, lost, outside, stops, cuts>>

Without(list, k) == [i \in 1 .. Len(list) - 1 |-> list[IF i < k THEN i ELSE i + 1]]

(* edit_file goes on with the other files of the request, a rename with    *)
(* those that have the symbol.                                             *)
SkipFile(j) ==
    /\ job[j].step = "read" /\ job[j].kind \in {"edit", "symbol"}
    /\ IF Len(job[j].files) = 1 THEN End(j, "refused")
       ELSE /\ Set(j, [job[j] EXCEPT !.files = Without(@, job[j].at),
                                     !.at = IF LastFile(j) THEN 1 ELSE @,
                                     !.step = IF LastFile(j) THEN AfterReads(job[j].kind) ELSE "read"])
            /\ UNCHANGED log
    /\ UNCHANGED <<home, disk, orphans, writers, lost, outside, stops, cuts>>

Refuse(j) ==
    /\ job[j].step = "read" /\ job[j].kind # "edit" /\ End(j, "refused")
    /\ UNCHANGED <<home, disk, orphans, writers, lost, outside, stops, cuts>>

(* Nothing to ask when the tool is approved already.                       *)
Approve(j) ==
    /\ job[j].step = "ask"
    /\ Goto(j, IF job[j].kind = "edit" THEN "open" ELSE "read", 1)
    /\ UNCHANGED <<home, disk, log, orphans, writers, lost, outside, stops, cuts>>

Deny(j) ==
    /\ job[j].step = "ask" /\ End(j, "denied")
    /\ UNCHANGED <<home, disk, orphans, writers, lost, outside, stops, cuts>>

-----------------------------------------------------------------------------
(* Writing: an edit opens each file, locks it, compares it with what was   *)
(* read and replaces it, and reads all outputs again at the end.           *)

(* The first n files have been written: undo them, newest first.           *)
UndoFrom_ThatOne(j, n) == Goto(j, "undo", n) /\ UNCHANGED log
UndoFrom(j, n) ==
    IF n > 0 THEN Goto(j, "undo", n) /\ UNCHANGED log
             ELSE End(j, IF job[j].kind \in {"edit", "symbol"} THEN "undone" ELSE "refused")

(* Approved, but the anchors' store has moved on (validate_transitions).   *)
Invalid(j) ==
    /\ job[j].step = "ask" /\ job[j].kind = "edit" /\ UndoFrom(j, 0)
    /\ UNCHANGED <<home, disk, orphans, writers, lost, outside, stops, cuts>>

Open(j) ==
    /\ job[j].step = "open"
    /\ Set(j, [job[j] EXCEPT !.step = "lock", !.node = disk[Current(j)].node])
    /\ UNCHANGED <<home, disk, log, orphans, writers, lost, outside, stops, cuts>>

CannotOpen(j) ==
    /\ job[j].step = "open" /\ UndoFrom(j, job[j].at - 1)
    /\ UNCHANGED <<home, disk, orphans, writers, lost, outside, stops, cuts>>

(* flock is a property of the inode: it does not move with the path.       *)
Holds(j, f, node) ==
    /\ job[j].kind = "edit" /\ job[j].step \in {"check", "rename"}
    /\ Current(j) = f /\ job[j].node = node
LockFree_Always(f, node) == TRUE
LockFree(f, node) == ~ \E j \in Jobs : Holds(j, f, node)

TryLock(j) ==
    /\ job[j].step = "lock"
    /\ IF LockFree(Current(j), job[j].node)
       THEN Goto(j, "check", job[j].at) /\ UNCHANGED log
       ELSE UndoFrom(j, job[j].at - 1)
    /\ UNCHANGED <<home, disk, orphans, writers, lost, outside, stops, cuts>>

(* edit_file compares mtime and content, the others the content alone.     *)
Unchanged(j) ==
    /\ Content(Current(j)) = job[j].base[Current(j)].text
    /\ job[j].kind = "edit" => View(Current(j)) = job[j].base[Current(j)]

Check(j) ==
    /\ job[j].step = "check"
    /\ IF Unchanged(j)
       THEN Goto(j, "rename", job[j].at) /\ UNCHANGED log
       ELSE UndoFrom(j, job[j].at - 1)
    /\ UNCHANGED <<home, disk, orphans, writers, lost, outside, stops, cuts>>

CannotWrite(j) ==
    /\ job[j].step = "rename" /\ UndoFrom(j, job[j].at - 1)
    /\ UNCHANGED <<home, disk, orphans, writers, lost, outside, stops, cuts>>

Written(j) ==
    LET kind == job[j].kind
    IN CASE kind \in {"range", "write"} \/ (kind = "symbol" /\ LastFile(j)) -> End(j, "applied")
         [] kind = "symbol" /\ ~LastFile(j) -> Goto(j, "check", job[j].at + 1) /\ UNCHANGED log
         [] kind = "edit" /\ LastFile(j) -> Goto(j, "verify", 1) /\ UNCHANGED log
         [] OTHER -> Goto(j, "open", job[j].at + 1) /\ UNCHANGED log

Rename(j) ==
    LET f == Current(j) IN
    /\ job[j].step = "rename"
    /\ Replace(f, job[j].id, <<home[j], job[j].kind>>)
    /\ lost' = IF job[j].kind = "write" THEN lost     \* meant to replace whatever is there
               ELSE lost \cup Loses(f, job[j].base[f].text, job[j].id, "write")
    /\ Written(j)
    /\ UNCHANGED <<home, orphans, outside, stops>>

Verify(j) ==
    /\ job[j].step = "verify"
    /\ IF Content(Current(j)) # job[j].id THEN UndoFrom(j, Len(job[j].files))
       ELSE /\ IF LastFile(j) THEN Goto(j, "publish", 0) ELSE Goto(j, "verify", job[j].at + 1)
            /\ UNCHANGED log
    /\ UNCHANGED <<home, disk, orphans, writers, lost, outside, stops, cuts>>

(* The new anchors are stored or not: the contents stay either way.        *)
Publish(j) ==
    /\ job[j].step = "publish" /\ \E result \in {"applied", "unpublished"} : End(j, result)
    /\ UNCHANGED <<home, disk, orphans, writers, lost, outside, stops, cuts>>

-----------------------------------------------------------------------------
(* Undoing: a file is restored only while it holds what this job wrote.    *)
(* edit_file stops at the first that does not, the symbol tools go on.     *)

UndoNext(j, clean, result) ==
    IF job[j].kind = "symbol" /\ job[j].at > 1
    THEN /\ Set(j, [job[j] EXCEPT !.step = "undo", !.at = @ - 1, !.clean = clean])
         /\ UNCHANGED log
    ELSE End(j, result)

StillOurs(j) == Content(Current(j)) = job[j].id

Compare(j) ==
    /\ job[j].step = "undo"
    /\ IF StillOurs(j) THEN Goto(j, "restore", job[j].at) /\ UNCHANGED log
                       ELSE UndoNext(j, FALSE, "incomplete")
    /\ UNCHANGED <<home, disk, orphans, writers, lost, outside, stops, cuts>>

AllUndone(j) == job[j].at = 1

Restore(j) ==
    LET f == Current(j) IN
    /\ job[j].step = "restore"
    /\ Replace(f, job[j].base[f].text, <<home[j], "undo">>)
    /\ lost' = lost \cup Loses(f, job[j].id, job[j].id, "undo")
    /\ IF AllUndone(j) THEN End(j, IF job[j].clean THEN "undone" ELSE "incomplete")
       ELSE Goto(j, "undo", job[j].at - 1) /\ UNCHANGED log
    /\ UNCHANGED <<home, orphans, outside, stops>>

CannotRestore(j) ==
    /\ job[j].step = "restore" /\ UndoNext(j, FALSE, "failed")
    /\ UNCHANGED <<home, disk, orphans, writers, lost, outside, stops, cuts>>

-----------------------------------------------------------------------------
(* Aborted tasks, killed processes, other programs.                        *)

(* What a rename handed to tokio's blocking pool would write.              *)
UnderWay(j) ==
    LET f == Current(j) IN
    CASE job[j].step = "rename"  -> {[by |-> home[j], file |-> f, text |-> job[j].id]}
      [] job[j].step = "restore" -> {[by |-> home[j], file |-> f, text |-> job[j].base[f].text]}
      [] OTHER -> {}

(* The future is dropped at an await: a rename already handed over goes on. *)
Drop(j) ==
    /\ job[j].step # "idle" /\ Faults < MaxFaults /\ stops' = stops + 1
    /\ \E left \in SUBSET UnderWay(j) : orphans' = orphans \cup left
    /\ End(j, "dropped")
    /\ UNCHANGED <<home, disk, writers, lost, outside, cuts>>

OrphanRename ==
    \E o \in orphans :
       /\ Replace(o.file, o.text, <<o.by, "orphan">>)
       /\ orphans' = orphans \ {o}
       /\ UNCHANGED <<home, job, log, lost, outside, stops>>

Kill(p) ==
    LET mine == {j \in Jobs : home[j] = p}
        ids == {job[j].id : j \in mine} IN
    /\ Faults < MaxFaults /\ stops' = stops + 1
    /\ job' = [j \in Jobs |-> IF j \in mine THEN Idle ELSE job[j]]
    /\ log' = [i \in DOMAIN log |-> IF i \in ids THEN [log[i] EXCEPT !.result = "dropped"] ELSE log[i]]
    /\ orphans' = {o \in orphans : o.by # p}
    /\ UNCHANGED <<home, disk, writers, lost, outside, cuts>>

(* The piece still being written arrives (or never does, when it fails).   *)
Arrive(f) ==
    /\ ~disk[f].whole /\ disk' = [disk EXCEPT ![f].whole = TRUE]
    /\ UNCHANGED <<home, job, log, orphans, writers, lost, outside, stops, cuts>>

(* Another program writes f, in place or by renaming over it.              *)
OutsideWrite(f) ==
    /\ Faults < MaxFaults /\ outside' = outside + 1
    /\ \E node \in {disk[f].node, disk[f].node + 1} :
          disk' = [disk EXCEPT ![f] = [text |-> MaxCalls + outside', node |-> node, whole |-> TRUE]]
    /\ writers' = [writers EXCEPT ![f] = @ \cup {Outsider}]
    /\ UNCHANGED <<home, job, log, orphans, lost, stops, cuts>>

-----------------------------------------------------------------------------
Work(j) ==
    \/ TakeGuard(j) \/ ReadFile(j) \/ SkipFile(j) \/ Refuse(j) \/ Approve(j) \/ Deny(j)
    \/ Invalid(j) \/ Open(j) \/ CannotOpen(j) \/ TryLock(j) \/ Check(j)
    \/ CannotWrite(j) \/ Rename(j) \/ Verify(j) \/ Publish(j)
    \/ Compare(j) \/ Restore(j) \/ CannotRestore(j)

Next ==
    \/ \E j \in Jobs : Start(j) \/ Work(j) \/ Drop(j)
    \/ \E f \in Files : OutsideWrite(f) \/ Arrive(f)
    \/ \E p \in Processes : Kill(p)
    \/ OrphanRename

(* The runtime polls every task, file operations return, and a question    *)
(* that nobody answers is denied when its time is over.                    *)
Fairness == \A j \in Jobs : WF_vars(Work(j))

Spec == Init /\ [][Next]_vars /\ Fairness

-----------------------------------------------------------------------------
(* Properties.                                                             *)

WrittenBy(f, allowed) == writers[f] \subseteq allowed
InOneProcess(f) == \E p \in Processes : WrittenBy(f, {p} \X (Kinds \cup {"undo"}))
OnlyEdits(f) == WrittenBy(f, Processes \X {"edit"})

(* A tool never replaces a text it has not read, or that it did not write  *)
(* when it undoes, in a file that one process writes; nor does an edit in a *)
(* file that several processes edit: guards, lock and second look suffice. *)
(* What was read is the file cut short, where an asynchronous write was     *)
(* renamed too early, is the one exception (atomic_write_file_async).      *)
NoLostUpdate ==
    \A l \in lost : l.read # Torn =>
       ~InOneProcess(l.file) /\ (l.when = "write" => ~OnlyEdits(l.file))

(* A call that says that nothing was written or everything undone leaves   *)
(* none of its text behind, in files only its process and outsiders write. *)
NothingRetained ==
    \A id \in DOMAIN log : log[id].result \in {"undone", "denied", "refused"} =>
       \A f \in Files :
          /\ disk[f].text = id
          => ~WrittenBy(f, ({log[id].by} \X (Kinds \cup {"undo"})) \cup {Outsider})

(* When an edit is about to report success every file has its new text, or *)
(* somebody else's: never the old text, whatever failed on the way.        *)
AppliedIsWhole ==
    \A j \in Jobs : job[j].step = "publish" =>
       \A i \in DOMAIN job[j].files : InOneProcess(job[j].files[i]) =>
          disk[job[j].files[i]].text = job[j].id

(* What a call reports is what it did: all or nothing (apply_edits and its *)
(* rollback, write_to_file, edit_range).                                   *)
ResultIsTrue == NothingRetained /\ AppliedIsWhole

(* Guards and locks are never waited for in a circle: as long as a call    *)
(* has not ended, some job can take its next step.                         *)
NoCircularWait == (\E j \in Jobs : job[j].step # "idle") => ENABLED (\E j \in Jobs : Work(j))
=============================================================================
