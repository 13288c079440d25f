------------------------ MODULE FileTransactionProofs ------------------------
(***************************************************************************)
(* What holds of FileTransaction for any number of files, jobs, calls and  *)
(* faults: types, that no update is lost which the guards, the locks and   *)
(* the second look at the file can save, and that a call's result is what  *)
(* it did.                                                                 *)
(***************************************************************************)
EXTENDS FileTransaction, FiniteSetTheorems, NaturalsInduction, WellFoundedInduction, TLAPS

(* What the jobs of one process write, and what else may be in a file that *)
(* only they and other programs write.                                     *)
Own(p) == {p} \X (Kinds \cup {"undo"})
OwnOr(p) == Own(p) \cup {Outsider}

-----------------------------------------------------------------------------
(* A job and its guards.                                                   *)

(* A call is at work from its start to its end, has each of its files once, *)
(* and holds all of their guards when it goes on; what it has read it holds.*)
GuardInv(j) ==
    /\ job[j].step = "idle" => job[j] = Idle
    /\ job[j].step # "idle" => /\ job[j].id \in DOMAIN log /\ log[job[j].id].result = "working"
                               /\ log[job[j].id].by = home[j]
                               /\ Len(job[j].files) >= 1
    /\ job[j].step = "guards" => job[j].held \subseteq Requested(j) /\ job[j].held # Requested(j)
    /\ job[j].step \notin {"idle", "guards"} => Requested(j) \subseteq job[j].held
    /\ \A i, k \in DOMAIN job[j].files : i # k => job[j].files[i] # job[j].files[k]
    /\ \A f \in Files \ job[j].held : job[j].base[f] = NoView

(* Which steps a kind of call takes.                                       *)
KindInv(j) ==
    /\ job[j].kind \in {"range", "write"} => Len(job[j].files) <= 1
    /\ job[j].step = "ask" => job[j].kind \in {"edit", "range"}
    /\ job[j].step \in {"open", "lock", "verify", "publish"} => job[j].kind = "edit"
    /\ job[j].step \in {"read", "check"} => job[j].kind # "write"
    /\ job[j].step \in {"undo", "restore"} => job[j].kind \in {"edit", "symbol"}
    /\ job[j].step \notin {"undo", "restore"} => job[j].clean = TRUE

(* No two calls of a process hold a file's guard, none has another's number.*)
Apart ==
    \A j, k \in Jobs : j # k =>
       /\ home[j] = home[k] => job[j].held \cap job[k].held = {}
       /\ job[j].step # "idle" => job[j].id # job[k].id

-----------------------------------------------------------------------------
(* Where a call's text may be.                                             *)

(* A text is known only when its call has begun.                           *)
NoFutureTexts ==
    \A id \in (Len(log) + 1) .. MaxCalls :
       /\ \A f \in Files : disk[f].text # id /\ \A j \in Jobs : job[j].base[f].text # id
       /\ \A o \in orphans : o.text # id

(* The files a call has written and not undone.                            *)
Pending(j) ==
    CASE job[j].step \in {"open", "lock", "check", "rename"} -> 1 .. job[j].at - 1
      [] job[j].step \in {"verify", "publish"} -> DOMAIN job[j].files
      [] job[j].step \in {"undo", "restore"} -> 1 .. job[j].at
      [] OTHER -> {}

(* In a file its process alone and outsiders write, the text of a call at   *)
(* work is there only where the call holds the guard, and, as long as       *)
(* nothing went wrong in undoing, only where it is to be undone; no other   *)
(* call of the process has read it.                                         *)
TextInv(j) ==
    \A f \in Files : job[j].step # "idle" /\ WrittenBy(f, OwnOr(home[j])) =>
       /\ disk[f].text = job[j].id => f \in job[j].held
       /\ disk[f].text = job[j].id /\ job[j].clean => \E i \in Pending(j) : job[j].files[i] = f
       /\ \A k \in Jobs : home[k] = home[j] => job[k].base[f].text # job[j].id

(* Nor has anyone of the process the text of a call that reported that      *)
(* nothing of it is left.                                                   *)
NoneLeft ==
    \A id \in DOMAIN log : log[id].result \in {"undone", "denied", "refused"} =>
       \A f \in Files : WrittenBy(f, OwnOr(log[id].by)) =>
          /\ disk[f].text # id
          /\ \A k \in Jobs : home[k] = log[id].by => job[k].base[f].text # id

(* What an edit has written and not begun to undo is there, unless others   *)
(* wrote the file too.                                                      *)
WrittenInv(j) ==
    job[j].kind = "edit" /\ job[j].step \notin {"idle", "undo", "restore"} =>
       \A i \in Pending(j) : LET f == job[j].files[i] IN
          /\ <<home[j], "edit">> \in writers[f]
          /\ WrittenBy(f, Own(home[j])) => disk[f].text = job[j].id

-----------------------------------------------------------------------------
(* Between the look and the write.                                         *)

(* What was compared with the file is still there when it is replaced, if   *)
(* the process alone writes the file: other jobs have no guard.             *)
ReadyInv(j) ==
    /\ job[j].step = "rename" /\ job[j].kind # "write" /\ WrittenBy(Current(j), Own(home[j])) =>
          job[j].base[Current(j)].text \in {Torn, disk[Current(j)].text}
    /\ job[j].step = "restore" /\ WrittenBy(Current(j), Own(home[j])) =>
          disk[Current(j)].text = job[j].id

(* Among edits of several processes the lock is on the inode that is there: *)
(* the file has not been replaced since it was read.                        *)
LockInv(j) ==
    /\ \A f \in Files : job[j].base[f].node <= disk[f].node
    /\ job[j].kind = "edit" /\ job[j].step \in {"lock", "check", "rename"} =>
          job[j].base[Current(j)].node <= job[j].node /\ job[j].node <= disk[Current(j)].node
    /\ job[j].kind = "edit" /\ job[j].step = "rename" /\ OnlyEdits(Current(j)) =>
          /\ job[j].node = disk[Current(j)].node
          /\ job[j].base[Current(j)].text \in {Torn, disk[Current(j)].text}
LocksApart ==
    \A j, k \in Jobs : Holds(j, Current(j), job[j].node) /\ Holds(k, Current(j), job[j].node) => j = k

Inv ==
    /\ TypeOK /\ Apart /\ NoFutureTexts /\ NoneLeft /\ LocksApart /\ NoLostUpdate
    /\ \A j \in Jobs : /\ GuardInv(j) /\ KindInv(j) /\ TextInv(j) /\ WrittenInv(j)
                       /\ ReadyInv(j) /\ LockInv(j)

-----------------------------------------------------------------------------
(* Types.                                                                  *)
Job == [step : Steps, kind : Kinds, id : 0 .. MaxCalls, files : Seq(Files),
        held : SUBSET Files, at : Nat, base : [Files -> Views],
        node : Nat \cup {-1}, clean : BOOLEAN]
File == [text : Texts, node : Nat, whole : BOOLEAN]
Call == [kind : Kinds, by : Processes, result : Results]
Writer == (Processes \X (Kinds \cup {"undo", "orphan"})) \cup {Outsider}
Loss == [file : Files, victim : Texts, read : Texts, by : 1 .. MaxCalls, when : {"write", "undo"}]

HomeOK == home \in [Jobs -> Processes]
DiskOK == disk \in [Files -> File]
JobsOK == job \in [Jobs -> Job]
AtOK(j) == job[j].step \notin {"idle", "guards", "publish"} => job[j].at \in DOMAIN job[j].files
LogOK == log \in Seq(Call) /\ Len(log) <= MaxCalls
OrphansOK == orphans \subseteq [by : Processes, file : Files, text : Texts]
WritersOK == writers \in [Files -> SUBSET Writer]
LostOK == lost \subseteq Loss
FaultsOK == {outside, stops, cuts} \subseteq Nat /\ Faults <= MaxFaults

(* The types of the variables, one part each, so that a step is asked only  *)
(* for the parts it changes.                                                *)
LEMMA TypeParts ==
    TypeOK <=> /\ HomeOK /\ DiskOK /\ JobsOK /\ (\A j \in Jobs : AtOK(j))
               /\ LogOK /\ OrphansOK /\ WritersOK /\ LostOK /\ FaultsOK
BY DEF TypeOK, HomeOK, DiskOK, JobsOK, AtOK, LogOK, OrphansOK, WritersOK, LostOK, FaultsOK,
       Job, File, Call, Writer, Loss

(* The same after a step.                                                   *)
LEMMA TypePartsNext ==
    TypeOK' <=> /\ HomeOK' /\ DiskOK' /\ JobsOK' /\ (\A j \in Jobs : AtOK(j))'
                /\ LogOK' /\ OrphansOK' /\ WritersOK' /\ LostOK' /\ FaultsOK'
BY TypeParts, PTL

(* What the proofs use of the constants: their assumptions, and that a      *)
(* call's number is a text unlike what is read of a torn file.              *)
LEMMA Constants ==
    /\ Files \subseteq Nat /\ Jobs \subseteq Nat /\ 0 \notin Jobs /\ Fsync \in BOOLEAN
    /\ MaxCalls \in Nat /\ MaxFaults \in Nat
    /\ Idle \in Job /\ NoView \in Views /\ NoView.text = Torn /\ NoView.node = -1
    /\ Torn = -1 /\ Processes = Jobs /\ Texts \subseteq Int
    /\ \A id \in 0 .. MaxCalls : id \in Texts /\ id # Torn
<1>1. /\ Files \subseteq Nat /\ Jobs \subseteq Nat /\ 0 \notin Jobs /\ Fsync \in BOOLEAN
      /\ MaxCalls \in Nat /\ MaxFaults \in Nat
  BY FileConstants
<1>2. NoView \in Views /\ NoView.text = Torn /\ NoView.node = -1 /\ Torn = -1
  BY DEF NoView, Views, Torn
<1>3. Idle \in Job
  BY <1>1, <1>2 DEF Idle, Job, Steps, Kinds
<1> QED BY <1>1, <1>2, <1>3 DEF Texts, Processes, Torn

(* A nonempty set of natural numbers has a smallest element: there is a     *)
(* next guard to wait for.                                                  *)
LEMMA SmallestElement ==
    ASSUME NEW T, T \subseteq Nat, T # {}
    PROVE  \E x \in T : \A y \in T : x <= y
<1> DEFINE R == {ss \in Nat \X Nat : ss[1] < ss[2]}
<1>1. IsWellFoundedOn(R, Nat)
  BY NatLessThanWellFounded DEF OpToRel
<1>2. \A x, y \in Nat : <<y, x>> \in R <=> y < x
  OBVIOUS
<1> HIDE DEF R
<1>3. PICK x \in T : \A y \in T : ~ (<<y, x>> \in R)
  BY <1>1, WFMin
<1>4. \A y \in T : ~ (y < x)
  BY <1>2, <1>3
<1> QED BY <1>3, <1>4

(* What a job is changed to, the others staying as they are.                *)
LEMMA SetFacts ==
    ASSUME JobsOK, NEW j \in Jobs, NEW c, Set(j, c)
    PROVE  /\ job'[j] = c /\ \A k \in Jobs \ {j} : job'[k] = job[k]
           /\ c \in Job => JobsOK'
<1>1. job' = [job EXCEPT ![j] = c] /\ job \in [Jobs -> Job]
  BY DEF Set, JobsOK
<1>2. job'[j] = c /\ \A k \in Jobs \ {j} : job'[k] = job[k]
  BY <1>1
<1>3. c \in Job => job' \in [Jobs -> Job]
  BY <1>1
<1> QED BY <1>2, <1>3 DEF JobsOK

(* A job that goes to another step keeps its call, files, guards and texts. *)
LEMMA GotoFacts ==
    ASSUME JobsOK, NEW j \in Jobs, NEW step \in Steps, NEW at \in Nat, Goto(j, step, at)
    PROVE  /\ job'[j].step = step /\ job'[j].at = at
           /\ job'[j].kind = job[j].kind /\ job'[j].id = job[j].id
           /\ job'[j].files = job[j].files /\ job'[j].held = job[j].held
           /\ job'[j].base = job[j].base /\ job'[j].node = job[j].node
           /\ job'[j].clean = job[j].clean
           /\ \A k \in Jobs \ {j} : job'[k] = job[k]
           /\ JobsOK'
<1> DEFINE c == [job[j] EXCEPT !.step = step, !.at = at]
<1>1. job[j] \in Job
  BY DEF JobsOK
<1>2. /\ c.step = step /\ c.at = at /\ c.kind = job[j].kind /\ c.id = job[j].id
      /\ c.files = job[j].files /\ c.held = job[j].held /\ c.base = job[j].base
      /\ c.node = job[j].node /\ c.clean = job[j].clean /\ c \in Job
  BY <1>1 DEF Job
<1>3. Set(j, c)
  BY DEF Goto
<1> HIDE DEF c
<1> QED BY <1>2, <1>3, SetFacts

(* A call's end (a return of execute, which drops its guards and handle)    *)
(* clears the job and settles its record alone.                             *)
LEMMA EndFacts ==
    ASSUME JobsOK, LogOK, NEW j \in Jobs, NEW result \in Results, End(j, result)
    PROVE  /\ job'[j] = Idle /\ \A k \in Jobs \ {j} : job'[k] = job[k]
           /\ JobsOK' /\ LogOK' /\ Len(log') = Len(log)
           /\ \A id \in DOMAIN log :
                 /\ log'[id].by = log[id].by
                 /\ log'[id].result = IF id = job[j].id THEN result ELSE log[id].result
<1>1. Set(j, Idle) /\ log' = [log EXCEPT ![job[j].id].result = result]
  BY DEF End
<1>2. log \in Seq(Call) /\ Len(log) <= MaxCalls
  BY DEF LogOK
<1>3. \A id \in DOMAIN log : log[id] \in Call
  BY <1>2
<1>4. \A id \in DOMAIN log : /\ log'[id].by = log[id].by /\ log'[id] \in Call
                             /\ log'[id].result = IF id = job[j].id THEN result ELSE log[id].result
  BY <1>1, <1>2, <1>3 DEF Call
<1>5. log' \in Seq(Call) /\ Len(log') = Len(log)
  <2>1. log \in [1 .. Len(log) -> Call] /\ Len(log) \in Nat
    BY <1>2
  <2>2. log' \in [1 .. Len(log) -> Call]
    BY <1>1, <1>4, <2>1
  <2> QED BY <2>1, <2>2
<1> QED BY <1>1, <1>2, <1>4, <1>5, SetFacts, Constants DEF LogOK
-----------------------------------------------------------------------------
(* What a step is to one job, to the calls' records and to one file. Every *)
(* step of the program is one of these to each of them, and the invariants *)
(* are proved from that.                                                   *)

Same(j) == job'[j] = job[j]
Begins(j) ==
    /\ job[j].step = "idle" /\ job'[j].step = "guards" /\ job'[j].id = Len(log) + 1
    /\ job'[j].held = {} /\ job'[j].base = Idle.base /\ job'[j].clean = TRUE
    /\ Len(log') = Len(log) + 1
    /\ log'[Len(log) + 1].result = "working" /\ log'[Len(log) + 1].by = home[j]
    /\ job'[j].files \in Lists /\ Len(job'[j].files) >= 1
    /\ job'[j].kind \in {"range", "write"} => Len(job'[j].files) <= 1

(* The same call goes on, with the same texts read.                         *)
GoesOn(j) ==
    /\ job[j].step # "idle" /\ job'[j].step # "idle"
    /\ job'[j].kind = job[j].kind /\ job'[j].id = job[j].id
KeepsFiles(j) ==
    /\ GoesOn(j) /\ job'[j].files = job[j].files
    /\ job'[j].held = job[j].held /\ job'[j].base = job[j].base

Guards(j) ==
    /\ GoesOn(j) /\ job[j].step = "guards"
    /\ job'[j].files = job[j].files /\ job'[j].base = job[j].base /\ job'[j].clean = job[j].clean
    /\ \E g \in Requested(j) \ job[j].held :
          /\ GuardFree(j, g) /\ job'[j].held = job[j].held \cup {g}
          /\ \/ job'[j].step = "guards" /\ job'[j].held # Requested(j)
             \/ /\ job'[j].step = AfterGuards(job[j].kind) /\ job'[j].at = 1
                /\ job'[j].held = Requested(j)

(* A file is read, or left out of the request.                              *)
Reads(j) ==
    /\ GoesOn(j) /\ job[j].step = "read"
    /\ job'[j].files = job[j].files /\ job'[j].held = job[j].held /\ job'[j].clean = job[j].clean
    /\ job'[j].base = [job[j].base EXCEPT ![Current(j)] = View(Current(j))]
    /\ \/ job'[j].step = "read"
       \/ job'[j].step = AfterReads(job[j].kind) /\ job'[j].at = 1
Skips(j) ==
    /\ GoesOn(j) /\ job[j].step = "read" /\ job[j].kind \in {"edit", "symbol"}
    /\ job'[j].held = job[j].held /\ job'[j].base = job[j].base /\ job'[j].clean = job[j].clean
    /\ Len(job'[j].files) >= 1
    /\ \A i \in DOMAIN job'[j].files : job'[j].files[i] \in Requested(j)
    /\ \A i, k \in DOMAIN job'[j].files : i # k => job'[j].files[i] # job'[j].files[k]
    /\ \/ job'[j].step = "read"
       \/ job'[j].step = AfterReads(job[j].kind) /\ job'[j].at = 1

(* Steps that change neither the files nor the records.                     *)
Asked(j) ==
    /\ KeepsFiles(j) /\ job[j].step = "ask" /\ job'[j].at = 1 /\ job'[j].clean = job[j].clean
    /\ job'[j].step = IF job[j].kind = "edit" THEN "open" ELSE "read"
Opens(j) ==
    /\ KeepsFiles(j) /\ job[j].step = "open" /\ job'[j].step = "lock"
    /\ job'[j].at = job[j].at /\ job'[j].node = disk[Current(j)].node
    /\ job'[j].clean = job[j].clean
Locks(j) ==
    /\ KeepsFiles(j) /\ job[j].step = "lock" /\ job'[j].step = "check"
    /\ LockFree(Current(j), job[j].node)
    /\ job'[j].at = job[j].at /\ job'[j].node = job[j].node /\ job'[j].clean = job[j].clean
Checks(j) ==
    /\ KeepsFiles(j) /\ job[j].step = "check" /\ job'[j].step = "rename" /\ Unchanged(j)
    /\ job'[j].at = job[j].at /\ job'[j].node = job[j].node /\ job'[j].clean = job[j].clean
TurnsBack(j) ==
    /\ KeepsFiles(j) /\ job'[j].step = "undo" /\ job'[j].clean = job[j].clean
    /\ \/ /\ job[j].step \in {"open", "lock", "check", "rename"}
          /\ job[j].at > 1 /\ job'[j].at = job[j].at - 1
       \/ job[j].step = "verify" /\ job'[j].at = Len(job[j].files)
Verifies(j) ==
    /\ KeepsFiles(j) /\ job[j].step = "verify" /\ job'[j].clean = job[j].clean
    /\ \/ job'[j].step = "verify"
       \/ job'[j].step = "publish"
Compares(j) ==
    /\ KeepsFiles(j) /\ job[j].step = "undo" /\ job'[j].step = "restore" /\ StillOurs(j)
    /\ job'[j].at = job[j].at /\ job'[j].clean = job[j].clean
GivesUp(j) ==
    /\ KeepsFiles(j) /\ job[j].step \in {"undo", "restore"} /\ job'[j].step = "undo"
    /\ job'[j].clean = FALSE

(* A file is replaced, or restored, and there is another to go on with.     *)
Renames(j) ==
    /\ KeepsFiles(j) /\ job[j].step = "rename" /\ job'[j].clean = job[j].clean
    /\ \/ job[j].kind = "symbol" /\ job'[j].step = "check" /\ job'[j].at = job[j].at + 1
       \/ job[j].kind = "edit" /\ job'[j].step = "open" /\ job'[j].at = job[j].at + 1
       \/ job[j].kind = "edit" /\ LastFile(j) /\ job'[j].step = "verify"
    /\ disk'[Current(j)].text = job[j].id
    /\ <<home[j], job[j].kind>> \in writers'[Current(j)]
Restores(j) ==
    /\ KeepsFiles(j) /\ job[j].step = "restore" /\ job'[j].step = "undo"
    /\ job'[j].at = job[j].at - 1 /\ job'[j].clean = job[j].clean
    /\ disk'[Current(j)].text = job[j].base[Current(j)].text

Moves(j) == Asked(j) \/ Opens(j) \/ Locks(j) \/ Checks(j) \/ TurnsBack(j) \/ Verifies(j)
            \/ Compares(j) \/ GivesUp(j)
Stops(j) == job'[j] = Idle
JobStep(j) == Same(j) \/ Stops(j) \/ Begins(j) \/ Guards(j) \/ Reads(j) \/ Skips(j) \/ Moves(j)
              \/ Renames(j) \/ Restores(j)

(* A call that ends with the word that none of it is left had written       *)
(* nothing, or is restoring the first file, after all others.               *)
Clear(j) ==
    /\ job[j].step # "idle"
    /\ \/ job[j].step \notin {"undo", "restore"} /\ Pending(j) = {} /\ disk' = disk
       \/ /\ job[j].step = "restore" /\ job[j].at = 1 /\ job[j].clean
          /\ disk'[Current(j)].text = job[j].base[Current(j)].text
LogStep ==
    /\ Len(log') \in {Len(log), Len(log) + 1}
    /\ Len(log') = Len(log) + 1 => log'[Len(log) + 1].result = "working"
    /\ \A id \in DOMAIN log :
          /\ log'[id].by = log[id].by
          /\ \/ log'[id].result = log[id].result
             \/ \E j \in Jobs :
                   /\ job[j].id = id /\ job[j].step # "idle" /\ Stops(j)
                   /\ log'[id].result \in {"undone", "denied", "refused"} => Clear(j)

DiskStep(f) ==
    /\ disk[f].node <= disk'[f].node /\ writers[f] \subseteq writers'[f]
    /\ \/ disk'[f].text = disk[f].text /\ disk'[f].node = disk[f].node
       \/ \E j \in Jobs : /\ job[j].step = "rename" /\ (Renames(j) \/ Stops(j)) /\ Current(j) = f
                          /\ disk'[f].text = job[j].id
                          /\ <<home[j], job[j].kind>> \in writers'[f]
                          /\ log'[job[j].id].result \in {"working", "applied"}
       \/ \E j \in Jobs : /\ job[j].step = "restore" /\ (Restores(j) \/ Stops(j)) /\ Current(j) = f
                          /\ disk'[f].text = job[j].base[f].text
                          /\ <<home[j], "undo">> \in writers'[f]
       \/ Outsider \in writers'[f] /\ disk'[f].text > MaxCalls
       \/ \E o \in orphans : <<o.by, "orphan">> \in writers'[f] /\ disk'[f].text = o.text
LostStep ==
    \A l \in lost' \ lost : \E j \in Jobs :
       \/ /\ job[j].step = "rename" /\ job[j].kind # "write" /\ l.when = "write"
          /\ l.file = Current(j)
          /\ l.read = job[j].base[l.file].text /\ disk[l.file].text # l.read
          /\ <<home[j], job[j].kind>> \in writers'[l.file]
       \/ /\ job[j].step = "restore" /\ l.when = "undo" /\ l.file = Current(j)
          /\ disk[l.file].text # job[j].id /\ <<home[j], "undo">> \in writers'[l.file]
OrphansStep ==
    \A o \in orphans' \ orphans : \E j \in Jobs :
       /\ job[j].step # "idle"
       /\ o.text = job[j].id \/ \E f \in Files : o.text = job[j].base[f].text
(* Two jobs change at once only when both end.                              *)
OneMoves == \A j, k \in Jobs : j = k \/ Same(j) \/ Same(k) \/ (Stops(j) /\ Stops(k))
StepFacts ==
    /\ home' = home /\ LogStep /\ LostStep /\ OrphansStep /\ OneMoves
    /\ \A j \in Jobs : JobStep(j)
    /\ \A f \in Files : DiskStep(f)
-----------------------------------------------------------------------------
(* What is known of a job at work, and what a step has to show.             *)
LEMMA JobFacts ==
    ASSUME Inv, NEW j \in Jobs
    PROVE  /\ job[j] \in Job /\ job[j].at \in Nat /\ Len(job[j].files) \in Nat
           /\ job[j].files \in Seq(Files) /\ Requested(j) \subseteq Files
           /\ DOMAIN job[j].files = 1 .. Len(job[j].files)
           /\ DOMAIN log = 1 .. Len(log) /\ Len(log) \in Nat
           /\ job[j].step # "idle" => /\ job[j].id \in DOMAIN log /\ job[j].id \in 1 .. MaxCalls
                                      /\ log[job[j].id].by = home[j]
                                      /\ log[job[j].id].result = "working"
                                      /\ Len(job[j].files) >= 1
           /\ job[j].step \notin {"idle", "guards", "publish"} =>
                 /\ job[j].at \in 1 .. Len(job[j].files) /\ Current(j) \in Files
                 /\ Current(j) \in Requested(j) /\ Current(j) \in job[j].held
           /\ home[j] \in Processes
<1>1. /\ HomeOK /\ JobsOK /\ AtOK(j) /\ LogOK /\ GuardInv(j)
  BY TypeParts DEF Inv
<1>2. /\ job[j] \in Job /\ job[j].at \in Nat /\ Len(job[j].files) \in Nat
      /\ job[j].files \in Seq(Files) /\ DOMAIN job[j].files = 1 .. Len(job[j].files)
  BY <1>1 DEF JobsOK, Job
<1>3. DOMAIN log = 1 .. Len(log) /\ Len(log) \in Nat /\ Len(log) <= MaxCalls /\ MaxCalls \in Nat
  BY <1>1, Constants DEF LogOK
<1>4. Requested(j) \subseteq Files
  BY <1>2 DEF Requested
<1>5. job[j].step # "idle" => /\ job[j].id \in DOMAIN log /\ job[j].id \in 1 .. MaxCalls
                             /\ log[job[j].id].by = home[j]
                             /\ log[job[j].id].result = "working"
                             /\ Len(job[j].files) >= 1
  BY <1>1, <1>3 DEF GuardInv
<1>6. job[j].step \notin {"idle", "guards", "publish"} =>
         /\ job[j].at \in 1 .. Len(job[j].files) /\ Current(j) \in Files
         /\ Current(j) \in Requested(j) /\ Current(j) \in job[j].held
  BY <1>1, <1>2 DEF AtOK, GuardInv, Current, Requested
<1>7. home[j] \in Processes
  BY <1>1 DEF HomeOK
<1> QED BY <1>2, <1>3, <1>4, <1>5, <1>6, <1>7

(* A step that leaves the records alone is a step of the records.           *)
LEMMA LogKept ==
    ASSUME Inv, log' = log
    PROVE  LogStep /\ LogOK'
<1>1. LogOK /\ Len(log) \in Nat
  BY TypeParts DEF Inv, LogOK
<1> QED BY <1>1 DEF LogStep, LogOK

(* A call's end changes the record of that call alone.                      *)
LEMMA LogEnds ==
    ASSUME Inv, NEW j \in Jobs, job[j].step # "idle", NEW result \in Results, End(j, result),
           result \in {"undone", "denied", "refused"} => Clear(j)
    PROVE  LogStep /\ LogOK'
<1>1. JobsOK /\ LogOK /\ Len(log) \in Nat
  BY TypeParts DEF Inv, LogOK
<1>2. /\ job'[j] = Idle /\ LogOK' /\ Len(log') = Len(log)
      /\ \A id \in DOMAIN log : /\ log'[id].by = log[id].by
                               /\ log'[id].result = IF id = job[j].id THEN result ELSE log[id].result
  BY <1>1, EndFacts
<1>3. ASSUME NEW id \in DOMAIN log
      PROVE  \/ log'[id].result = log[id].result
             \/ /\ job[j].id = id /\ job[j].step # "idle" /\ Stops(j)
                /\ log'[id].result \in {"undone", "denied", "refused"} => Clear(j)
  <2>1. CASE id = job[j].id
    BY <1>2, <2>1 DEF Stops
  <2>2. CASE id # job[j].id
    BY <1>2, <2>2
  <2> QED BY <2>1, <2>2
<1> QED BY <1>1, <1>2, <1>3 DEF LogStep

(* A step of one job that leaves the files alone.                           *)
LEMMA QuietStep ==
    ASSUME Inv, NEW j \in Jobs, \A k \in Jobs \ {j} : job'[k] = job[k],
           JobsOK', AtOK(j)', JobStep(j), LogOK', LogStep,
           UNCHANGED <<home, disk, orphans, writers, lost, outside, stops, cuts>>
    PROVE  TypeOK' /\ StepFacts
<1>1. /\ HomeOK /\ DiskOK /\ JobsOK /\ (\A k \in Jobs : AtOK(k))
      /\ OrphansOK /\ WritersOK /\ LostOK /\ FaultsOK
  BY TypeParts DEF Inv
<1>2. HomeOK' /\ DiskOK' /\ OrphansOK' /\ WritersOK' /\ LostOK' /\ FaultsOK'
  BY <1>1 DEF HomeOK, DiskOK, OrphansOK, WritersOK, LostOK, FaultsOK, Faults
<1>3. \A k \in Jobs : AtOK(k)'
  BY <1>1 DEF AtOK
<1>4. TypeOK'
  BY <1>2, <1>3, TypePartsNext
<1>5. \A k \in Jobs : JobStep(k)
  BY DEF JobStep, Same
<1>6. ASSUME NEW f \in Files PROVE DiskStep(f)
  <2>1. disk[f].node \in Nat
    BY <1>1 DEF DiskOK, File
  <2> QED BY <2>1 DEF DiskStep
<1>7. LostStep /\ OrphansStep /\ OneMoves
  BY DEF LostStep, OrphansStep, OneMoves, Same
<1> QED BY <1>4, <1>5, <1>6, <1>7 DEF StepFacts
(* A call that ends without writing a file: refused, denied, published or   *)
(* given up.                                                                *)
LEMMA QuietEnd ==
    ASSUME Inv, NEW j \in Jobs, job[j].step # "idle", NEW result \in Results, End(j, result),
           result \in {"undone", "denied", "refused"} => Clear(j),
           UNCHANGED <<home, disk, orphans, writers, lost, outside, stops, cuts>>
    PROVE  TypeOK' /\ StepFacts
<1>1. JobsOK /\ LogOK
  BY TypeParts DEF Inv
<1>2. LogStep /\ LogOK'
  BY LogEnds
<1>3. job'[j] = Idle /\ JobsOK' /\ \A k \in Jobs \ {j} : job'[k] = job[k]
  BY <1>1, EndFacts
<1>4. AtOK(j)' /\ JobStep(j)
  BY <1>3 DEF AtOK, JobStep, Stops, Idle
<1> QED BY <1>2, <1>3, <1>4, QuietStep

(* A step that only goes on to another step or file.                        *)
LEMMA QuietGoto ==
    ASSUME Inv, NEW j \in Jobs, NEW step \in Steps, NEW at \in Nat, Goto(j, step, at), log' = log,
           step \notin {"idle", "guards", "publish"} => at \in 1 .. Len(job[j].files),
           KeepsFiles(j) /\ job'[j].step = step /\ job'[j].at = at /\ job'[j].node = job[j].node
              /\ job'[j].clean = job[j].clean => JobStep(j),
           job[j].step # "idle", step # "idle",
           UNCHANGED <<home, disk, orphans, writers, lost, outside, stops, cuts>>
    PROVE  TypeOK' /\ StepFacts
<1>1. JobsOK /\ DOMAIN job[j].files = 1 .. Len(job[j].files)
  BY TypeParts, JobFacts DEF Inv
<1>2. LogStep /\ LogOK'
  BY LogKept
<1>3. /\ job'[j].step = step /\ job'[j].at = at /\ job'[j].node = job[j].node
      /\ job'[j].clean = job[j].clean /\ job'[j].files = job[j].files
      /\ KeepsFiles(j) /\ JobsOK' /\ \A k \in Jobs \ {j} : job'[k] = job[k]
  BY <1>1, GotoFacts DEF KeepsFiles, GoesOn
<1>4. AtOK(j)'
  BY <1>1, <1>3 DEF AtOK
<1>5. JobStep(j)
  BY <1>3
<1> QED BY <1>2, <1>3, <1>4, <1>5, QuietStep

(* A new call: its number is fresh, and it holds no guard yet.              *)
LEMMA StartStep ==
    ASSUME Inv, NEW j \in Jobs, Start(j)
    PROVE  TypeOK' /\ StepFacts
<1>0. PICK kind \in Kinds : \E files \in Requests(kind) :
         /\ Set(j, [Idle EXCEPT !.step = "guards", !.kind = kind, !.files = files,
                                !.id = Len(log) + 1])
         /\ log' = Append(log, [kind |-> kind, by |-> home[j], result |-> "working"])
  BY DEF Start
<1>1. PICK files \in Requests(kind) :
         /\ Set(j, [Idle EXCEPT !.step = "guards", !.kind = kind, !.files = files,
                                !.id = Len(log) + 1])
         /\ log' = Append(log, [kind |-> kind, by |-> home[j], result |-> "working"])
  BY <1>0
<1> DEFINE c == [Idle EXCEPT !.step = "guards", !.kind = kind, !.files = files, !.id = Len(log) + 1]
<1>2. /\ job[j].step = "idle" /\ Len(log) < MaxCalls
      /\ UNCHANGED <<home, disk, orphans, writers, lost, outside, stops, cuts>>
  BY DEF Start
<1>3. /\ JobsOK /\ LogOK /\ Len(log) \in Nat /\ log \in Seq(Call) /\ MaxCalls \in Nat
      /\ home[j] \in Processes
  BY TypeParts, JobFacts, Constants DEF Inv, LogOK
<1>4. /\ files \in Lists /\ files \in Seq(Files) /\ Len(files) >= 1
      /\ kind \in {"range", "write"} => Len(files) <= 1
  <2>2. files \in Lists
    BY DEF Requests
  <2>3. PICK n \in 1 .. Cardinality(Files) : files \in [1 .. n -> Files]
    BY <2>2 DEF Lists
  <2>4. Cardinality(Files) \in Nat
    BY FileConstants, FS_CardinalityType
  <2>5. files \in Seq(Files) /\ Len(files) = n /\ n >= 1
    BY <2>3, <2>4
  <2>6. kind \in {"range", "write"} => Len(files) = 1
    BY DEF Requests
  <2> QED BY <2>2, <2>5, <2>6
<1>5. /\ c.step = "guards" /\ c.kind = kind /\ c.files = files /\ c.id = Len(log) + 1
      /\ c.held = {} /\ c.base = Idle.base /\ c.clean = TRUE /\ c \in Job
  <2>1. Len(log) + 1 \in 0 .. MaxCalls /\ "guards" \in Steps
    BY <1>2, <1>3 DEF Steps
  <2>2. Idle \in Job /\ Idle.held = {} /\ Idle.clean = TRUE
    BY Constants DEF Idle
  <2>3. /\ c.step = "guards" /\ c.kind = kind /\ c.files = files /\ c.id = Len(log) + 1
        /\ c.held = Idle.held /\ c.base = Idle.base /\ c.clean = Idle.clean
    BY <2>2 DEF Job
  <2>4. c \in Job
    BY <1>4, <2>1, <2>2 DEF Job
  <2> QED BY <2>2, <2>3, <2>4
<1>6. job'[j] = c /\ JobsOK' /\ \A k \in Jobs \ {j} : job'[k] = job[k]
  BY <1>1, <1>3, <1>5, SetFacts
<1> HIDE DEF c
<1>7. /\ Len(log') = Len(log) + 1 /\ \A id \in DOMAIN log : log'[id] = log[id]
      /\ log'[Len(log) + 1] = [kind |-> kind, by |-> home[j], result |-> "working"]
      /\ LogOK'
  <2> DEFINE call == [kind |-> kind, by |-> home[j], result |-> "working"]
  <2>1. call \in Call
    BY <1>3 DEF Call, Results
  <2>2. log' = Append(log, call)
    BY <1>1
  <2> HIDE DEF call
  <2>3. /\ Len(log') = Len(log) + 1 /\ \A id \in DOMAIN log : log'[id] = log[id]
        /\ log'[Len(log) + 1] = call /\ log' \in Seq(Call)
    BY <1>3, <2>1, <2>2
  <2>4. LogOK'
    BY <1>2, <1>3, <2>3 DEF LogOK
  <2> QED BY <2>3, <2>4 DEF call
<1>8. LogStep
  BY <1>3, <1>7 DEF LogStep
<1>9. JobStep(j)
  BY <1>2, <1>4, <1>5, <1>6, <1>7 DEF JobStep, Begins
<1>10. AtOK(j)'
  BY <1>5, <1>6 DEF AtOK
<1> QED BY <1>2, <1>6, <1>7, <1>8, <1>9, <1>10, QuietStep

(* The guard waited for is one of those missing.                            *)
LEMMA NextIsMissing ==
    ASSUME Inv, NEW j \in Jobs, job[j].step = "guards"
    PROVE  NextGuard(j) \in Requested(j) \ job[j].held
<1> DEFINE missing == Requested(j) \ job[j].held
<1>1. missing \subseteq Nat
  BY JobFacts, Constants
<1>2. missing # {}
  BY DEF Inv, GuardInv
<1>3. NextGuard(j) = CHOOSE f \in missing : \A g \in missing : f <= g
  BY DEF NextGuard
<1> HIDE DEF missing
<1>4. \E f \in missing : \A g \in missing : f <= g
  BY <1>1, <1>2, SmallestElement
<1>5. NextGuard(j) \in missing
  BY <1>3, <1>4
<1> QED BY <1>5 DEF missing

(* lock_file_paths: a job takes the guard it waits for, which no job of its *)
(* process holds.                                                           *)
LEMMA TakeGuardStep ==
    ASSUME Inv, NEW j \in Jobs, TakeGuard(j)
    PROVE  TypeOK' /\ StepFacts
<1> DEFINE g == NextGuard(j)
           held == job[j].held \cup {g}
           all == held = Requested(j)
           c == [job[j] EXCEPT !.held = held, !.at = IF all THEN 1 ELSE 0,
                               !.step = IF all THEN AfterGuards(job[j].kind) ELSE "guards"]
<1>1. /\ job[j].step = "guards" /\ GuardFree(j, g) /\ Set(j, c) /\ log' = log
      /\ UNCHANGED <<home, disk, orphans, writers, lost, outside, stops, cuts>>
  BY DEF TakeGuard
<1>2. g \in Requested(j) \ job[j].held
  BY <1>1, NextIsMissing
<1>3. /\ job[j] \in Job /\ JobsOK /\ Requested(j) \subseteq Files
      /\ Len(job[j].files) >= 1 /\ DOMAIN job[j].files = 1 .. Len(job[j].files)
      /\ Len(job[j].files) \in Nat
  BY <1>1, JobFacts, TypeParts DEF Inv
<1>4. held \subseteq Files /\ AfterGuards(job[j].kind) \in {"ask", "read", "rename"}
  BY <1>2, <1>3 DEF Job, AfterGuards, Kinds
<1>5. /\ c.kind = job[j].kind /\ c.id = job[j].id /\ c.files = job[j].files /\ c.base = job[j].base
      /\ c.clean = job[j].clean /\ c.held = held
      /\ all => c.step = AfterGuards(job[j].kind) /\ c.at = 1
      /\ ~all => c.step = "guards" /\ c.at = 0
  BY <1>3 DEF Job
<1>6. c \in Job
  <2>1. (IF all THEN AfterGuards(job[j].kind) ELSE "guards") \in Steps /\ (IF all THEN 1 ELSE 0) \in Nat
    BY <1>4 DEF Steps
  <2>2. held \in SUBSET Files
    BY <1>4
  <2> HIDE DEF held, all
  <2> QED BY <1>3, <2>1, <2>2 DEF Job
<1>7. job'[j] = c /\ JobsOK' /\ \A k \in Jobs \ {j} : job'[k] = job[k]
  BY <1>1, <1>3, <1>6, SetFacts
<1> HIDE DEF c
<1>8. GoesOn(j)
  BY <1>1, <1>4, <1>5, <1>7 DEF GoesOn
<1>9. Guards(j)
  <2>1. \/ job'[j].step = "guards" /\ job'[j].held # Requested(j)
        \/ /\ job'[j].step = AfterGuards(job[j].kind) /\ job'[j].at = 1
           /\ job'[j].held = Requested(j)
    BY <1>5, <1>7
  <2> QED BY <1>1, <1>2, <1>5, <1>7, <1>8, <2>1 DEF Guards
<1>10. AtOK(j)'
  BY <1>3, <1>5, <1>7 DEF AtOK
<1> QED BY <1>1, <1>7, <1>9, <1>10, LogKept, QuietStep DEF JobStep
(* What a read returns is the file's text, or a torn one.                   *)
LEMMA ViewType ==
    ASSUME DiskOK, NEW f \in Files
    PROVE  /\ View(f) \in Views /\ View(f).text = Content(f) /\ View(f).node = disk[f].node
           /\ Content(f) \in {Torn, disk[f].text}
<1>1. disk[f] \in File /\ Torn \in Texts
  BY Constants DEF DiskOK, Texts, Torn
<1>2. Content(f) \in Texts /\ Content(f) \in {Torn, disk[f].text}
  BY <1>1 DEF Content, File
<1> QED BY <1>1, <1>2 DEF View, Views, File

(* A file of the request is read.                                           *)
LEMMA ReadFileStep ==
    ASSUME Inv, NEW j \in Jobs, ReadFile(j)
    PROVE  TypeOK' /\ StepFacts
<1> DEFINE f == Current(j)
           at == IF LastFile(j) THEN 1 ELSE job[j].at + 1
           step == IF LastFile(j) THEN AfterReads(job[j].kind) ELSE "read"
           c == [job[j] EXCEPT !.base[f] = View(f), !.at = at, !.step = step]
<1>1. /\ job[j].step = "read" /\ log' = log /\ Set(j, c)
      /\ UNCHANGED <<home, disk, orphans, writers, lost, outside, stops, cuts>>
  BY DEF ReadFile
<1>2. /\ job[j] \in Job /\ JobsOK /\ f \in Files /\ DiskOK
      /\ job[j].at \in 1 .. Len(job[j].files) /\ Len(job[j].files) \in Nat
      /\ DOMAIN job[j].files = 1 .. Len(job[j].files)
  BY <1>1, JobFacts, TypeParts DEF Inv
<1>3. step \in {"read", "ask", "check"} /\ at \in 1 .. Len(job[j].files) /\ step \in Steps /\ at \in Nat
  BY <1>2 DEF AfterReads, LastFile, Steps
<1>4. View(f) \in Views
  BY <1>2, ViewType
<1>5. step = "read" \/ (step = AfterReads(job[j].kind) /\ at = 1)
  OBVIOUS
<1>6. /\ c.kind = job[j].kind /\ c.id = job[j].id /\ c.files = job[j].files /\ c.held = job[j].held
      /\ c.clean = job[j].clean /\ c.base = [job[j].base EXCEPT ![f] = View(f)]
      /\ c.step = step /\ c.at = at
  BY <1>2 DEF Job
<1>7. c \in Job
  <2>1. [job[j].base EXCEPT ![f] = View(f)] \in [Files -> Views]
    BY <1>2, <1>4 DEF Job
  <2> HIDE DEF step, at, f
  <2> QED BY <1>2, <1>3, <2>1 DEF Job
<1>8. job'[j] = c /\ JobsOK' /\ \A k \in Jobs \ {j} : job'[k] = job[k]
  BY <1>1, <1>2, <1>7, SetFacts
<1> HIDE DEF c, at, step
<1>9. Reads(j)
  BY <1>1, <1>3, <1>5, <1>6, <1>8 DEF Reads, GoesOn
<1>10. AtOK(j)'
  BY <1>2, <1>3, <1>6, <1>8 DEF AtOK
<1> QED BY <1>1, <1>8, <1>9, <1>10, LogKept, QuietStep DEF JobStep

(* A list without one of its files is a list of the others.                 *)
LEMMA WithoutFacts ==
    ASSUME NEW list \in Seq(Files), NEW k \in 1 .. Len(list), Len(list) # 1,
           \A i, m \in DOMAIN list : i # m => list[i] # list[m]
    PROVE  /\ Without(list, k) \in Seq(Files) /\ Len(Without(list, k)) = Len(list) - 1
           /\ Len(list) - 1 >= 1 /\ DOMAIN Without(list, k) = 1 .. Len(list) - 1
           /\ \A i \in DOMAIN Without(list, k) : \E m \in DOMAIN list : Without(list, k)[i] = list[m]
           /\ \A i, m \in DOMAIN Without(list, k) : i # m => Without(list, k)[i] # Without(list, k)[m]
<1> DEFINE n == Len(list) - 1
           at(i) == IF i < k THEN i ELSE i + 1
           w == Without(list, k)
<1>1. Len(list) \in Nat /\ n \in Nat /\ n >= 1 /\ DOMAIN list = 1 .. Len(list)
  <2>1. Len(list) \in Nat /\ DOMAIN list = 1 .. Len(list)
    OBVIOUS
  <2> QED BY <2>1
<1>2. \A i \in 1 .. n : at(i) \in 1 .. Len(list)
  BY <1>1
<1>3. \A i, m \in 1 .. n : i # m => at(i) # at(m)
  BY <1>1
<1>4. w = [i \in 1 .. n |-> list[at(i)]]
  BY DEF Without
<1>5. w \in [1 .. n -> Files]
  BY <1>1, <1>2, <1>4
<1>6. w \in Seq(Files) /\ Len(w) = n /\ DOMAIN w = 1 .. n
  <2> HIDE DEF w, n
  <2> QED BY <1>1, <1>5
<1>7. \A i \in 1 .. n : w[i] = list[at(i)]
  BY <1>4
<1> HIDE DEF at, w
<1>8. \A i, m \in 1 .. n : i # m => w[i] # w[m]
  BY <1>1, <1>2, <1>3, <1>7
<1>9. \A i \in 1 .. n : \E m \in DOMAIN list : w[i] = list[m]
  BY <1>1, <1>2, <1>7
<1> QED BY <1>1, <1>6, <1>8, <1>9 DEF w

(* A file that is refused is left out; the last one ends the call.          *)
LEMMA SkipFileStep ==
    ASSUME Inv, NEW j \in Jobs, SkipFile(j)
    PROVE  TypeOK' /\ StepFacts
<1>1. /\ job[j].step = "read" /\ job[j].kind \in {"edit", "symbol"}
      /\ UNCHANGED <<home, disk, orphans, writers, lost, outside, stops, cuts>>
  BY DEF SkipFile
<1>2. /\ job[j] \in Job /\ JobsOK /\ job[j].files \in Seq(Files)
      /\ job[j].at \in 1 .. Len(job[j].files) /\ Len(job[j].files) \in Nat
      /\ DOMAIN job[j].files = 1 .. Len(job[j].files)
  BY <1>1, JobFacts, TypeParts DEF Inv
<1>3. CASE Len(job[j].files) = 1
  <2>1. End(j, "refused")
    BY <1>3 DEF SkipFile
  <2>2. Clear(j)
    BY <1>1 DEF Clear, Pending
  <2> QED BY <1>1, <2>1, <2>2, QuietEnd DEF Results
<1>4. CASE Len(job[j].files) # 1
  <2> DEFINE files == Without(job[j].files, job[j].at)
             at == IF LastFile(j) THEN 1 ELSE job[j].at
             step == IF LastFile(j) THEN AfterReads(job[j].kind) ELSE "read"
             c == [job[j] EXCEPT !.files = files, !.at = at, !.step = step]
  <2>1. log' = log /\ Set(j, c)
    BY <1>4 DEF SkipFile
  <2>2. \A i, m \in DOMAIN job[j].files : i # m => job[j].files[i] # job[j].files[m]
    BY DEF Inv, GuardInv
  <2>3. /\ files \in Seq(Files) /\ Len(files) = Len(job[j].files) - 1 /\ Len(files) >= 1
        /\ \A i \in DOMAIN files : \E m \in DOMAIN job[j].files : files[i] = job[j].files[m]
        /\ \A i, m \in DOMAIN files : i # m => files[i] # files[m]
        /\ DOMAIN files = 1 .. Len(files)
    BY <1>2, <1>4, <2>2, WithoutFacts
  <2>4. \A i \in DOMAIN files : files[i] \in Requested(j)
    BY <2>3 DEF Requested
  <2> HIDE DEF files
  <2>5. /\ step \in {"read", "ask", "check"} /\ at \in 1 .. Len(files) /\ at \in Nat
        /\ step = "read" \/ (step = AfterReads(job[j].kind) /\ at = 1)
    BY <1>2, <2>3 DEF AfterReads, LastFile
  <2>6. /\ c.kind = job[j].kind /\ c.id = job[j].id /\ c.files = files /\ c.held = job[j].held
        /\ c.clean = job[j].clean /\ c.base = job[j].base /\ c.step = step /\ c.at = at
    BY <1>2 DEF Job
  <2>7. c \in Job
    <3>1. step \in Steps
      BY <2>5 DEF Steps
    <3> HIDE DEF step, at
    <3> QED BY <1>2, <2>3, <2>5, <3>1 DEF Job
  <2>8. job'[j] = c /\ JobsOK' /\ \A k \in Jobs \ {j} : job'[k] = job[k]
    BY <1>2, <2>1, <2>7, SetFacts
  <2> HIDE DEF c, at, step
  <2>9. Skips(j)
    BY <1>1, <2>3, <2>4, <2>5, <2>6, <2>8 DEF Skips, GoesOn
  <2>10. AtOK(j)'
    BY <2>3, <2>5, <2>6, <2>8 DEF AtOK
  <2> QED BY <1>1, <2>1, <2>8, <2>9, <2>10, LogKept, QuietStep DEF JobStep
<1> QED BY <1>3, <1>4
(* A failure before the first write ends the call with nothing to undo, a   *)
(* later one turns it back.                                                 *)
LEMMA UndoFromStep ==
    ASSUME Inv, NEW j \in Jobs, NEW n \in Nat, UndoFrom(j, n),
           \/ job[j].step \in {"open", "lock", "check", "rename"} /\ n = job[j].at - 1
           \/ job[j].step = "verify" /\ n = Len(job[j].files)
           \/ job[j].step = "ask" /\ n = 0,
           UNCHANGED <<home, disk, orphans, writers, lost, outside, stops, cuts>>
    PROVE  TypeOK' /\ StepFacts
<1>1. /\ job[j].at \in 1 .. Len(job[j].files) /\ Len(job[j].files) \in Nat /\ Len(job[j].files) >= 1
      /\ job[j].step \notin {"idle", "undo", "restore"}
  BY JobFacts
<1>2. CASE n > 0
  <2>1. Goto(j, "undo", n) /\ log' = log /\ "undo" \in Steps /\ n \in 1 .. Len(job[j].files)
    BY <1>1, <1>2 DEF UndoFrom, Steps
  <2>2. KeepsFiles(j) /\ job'[j].step = "undo" /\ job'[j].at = n /\ job'[j].node = job[j].node
           /\ job'[j].clean = job[j].clean => JobStep(j)
    BY <1>1, <1>2 DEF JobStep, Moves, TurnsBack
  <2> QED BY <1>1, <2>1, <2>2, QuietGoto
<1>3. CASE n = 0
  <2>1. PICK result \in {"undone", "refused"} : End(j, result)
    BY <1>3 DEF UndoFrom
  <2>2. Pending(j) = {}
    BY <1>1, <1>3 DEF Pending
  <2>3. Clear(j) /\ result \in Results
    BY <1>1, <2>2 DEF Clear, Results
  <2> QED BY <1>1, <2>1, <2>3, QuietEnd
<1> QED BY <1>2, <1>3

(* A file that cannot be restored: a symbol tool goes on with the file      *)
(* before it, edit_file stops.                                              *)
LEMMA UndoNextStep ==
    ASSUME Inv, NEW j \in Jobs, NEW result \in {"incomplete", "failed"}, UndoNext(j, FALSE, result),
           job[j].step \in {"undo", "restore"},
           UNCHANGED <<home, disk, orphans, writers, lost, outside, stops, cuts>>
    PROVE  TypeOK' /\ StepFacts
<1>1. /\ job[j].at \in 1 .. Len(job[j].files) /\ Len(job[j].files) \in Nat /\ job[j].step # "idle"
      /\ DOMAIN job[j].files = 1 .. Len(job[j].files) /\ job[j] \in Job /\ JobsOK
  BY JobFacts, TypeParts DEF Inv
<1>2. CASE job[j].kind = "symbol" /\ job[j].at > 1
  <2> DEFINE c == [job[j] EXCEPT !.step = "undo", !.at = @ - 1, !.clean = FALSE]
  <2>1. Set(j, c) /\ log' = log
    BY <1>2 DEF UndoNext
  <2>2. /\ c \in Job /\ c.step = "undo" /\ c.at = job[j].at - 1 /\ c.clean = FALSE
        /\ c.kind = job[j].kind /\ c.id = job[j].id /\ c.files = job[j].files
        /\ c.held = job[j].held /\ c.base = job[j].base
    <3>1. job[j].at - 1 \in Nat /\ "undo" \in Steps
      BY <1>1, <1>2 DEF Steps
    <3> QED BY <1>1, <3>1 DEF Job
  <2>3. job'[j] = c /\ JobsOK' /\ \A k \in Jobs \ {j} : job'[k] = job[k]
    BY <1>1, <2>1, <2>2, SetFacts
  <2> HIDE DEF c
  <2>4. GivesUp(j)
    BY <1>1, <2>2, <2>3 DEF GivesUp, KeepsFiles, GoesOn
  <2>5. AtOK(j)'
    BY <1>1, <1>2, <2>2, <2>3 DEF AtOK
  <2> QED BY <2>1, <2>3, <2>4, <2>5, LogKept, QuietStep DEF JobStep, Moves
<1>3. CASE ~(job[j].kind = "symbol" /\ job[j].at > 1)
  BY <1>1, <1>3, QuietEnd DEF UndoNext, Results
<1> QED BY <1>2, <1>3

(* Every step of a job that leaves the files alone.                         *)
LEMMA QuietWork ==
    ASSUME Inv, NEW j \in Jobs, Work(j), ~Rename(j), ~Restore(j)
    PROVE  TypeOK' /\ StepFacts
<1>1. job[j].step \notin {"idle", "guards", "publish"} =>
         /\ job[j].at \in 1 .. Len(job[j].files) /\ job[j].at \in Nat
         /\ Len(job[j].files) \in Nat /\ Len(job[j].files) >= 1
  BY JobFacts
<1>2. CASE TakeGuard(j)
  BY <1>2, TakeGuardStep
<1>3. CASE ReadFile(j)
  BY <1>3, ReadFileStep
<1>4. CASE SkipFile(j)
  BY <1>4, SkipFileStep
<1>5. CASE Refuse(j)
  BY <1>5, QuietEnd DEF Refuse, Clear, Pending, Results
<1>6. CASE Approve(j)
  <2> DEFINE step == IF job[j].kind = "edit" THEN "open" ELSE "read"
  <2>1. Goto(j, step, 1) /\ log' = log /\ step \in Steps /\ step \notin {"idle"} /\ job[j].step = "ask"
    BY <1>6 DEF Approve, Steps
  <2>2. KeepsFiles(j) /\ job'[j].step = step /\ job'[j].at = 1 /\ job'[j].node = job[j].node
           /\ job'[j].clean = job[j].clean => JobStep(j)
    BY <2>1 DEF JobStep, Moves, Asked
  <2>3. 1 \in 1 .. Len(job[j].files)
    BY <1>1, <2>1
  <2> HIDE DEF step
  <2> QED BY <1>6, <2>1, <2>2, <2>3, QuietGoto DEF Approve
<1>7. CASE Deny(j)
  BY <1>7, QuietEnd DEF Deny, Clear, Pending, Results
<1>8. CASE Invalid(j)
  BY <1>8, UndoFromStep DEF Invalid
<1>9. CASE Open(j)
  <2> DEFINE node == disk[Current(j)].node
             c == [job[j] EXCEPT !.step = "lock", !.node = node]
  <2>1. /\ job[j].step = "open" /\ Set(j, c) /\ log' = log
        /\ UNCHANGED <<home, disk, orphans, writers, lost, outside, stops, cuts>>
    BY <1>9 DEF Open
  <2>2. job[j] \in Job /\ JobsOK /\ node \in Nat
    BY <2>1, JobFacts, TypeParts DEF Inv, DiskOK, File
  <2>3. /\ c \in Job /\ c.step = "lock" /\ c.at = job[j].at /\ c.clean = job[j].clean
        /\ c.kind = job[j].kind /\ c.id = job[j].id /\ c.files = job[j].files
        /\ c.held = job[j].held /\ c.base = job[j].base /\ c.node = node
    BY <2>2 DEF Job, Steps
  <2>4. job'[j] = c /\ JobsOK' /\ \A k \in Jobs \ {j} : job'[k] = job[k]
    BY <2>1, <2>2, <2>3, SetFacts
  <2> HIDE DEF c
  <2>5. Opens(j)
    BY <2>1, <2>3, <2>4 DEF Opens, KeepsFiles, GoesOn
  <2>6. AtOK(j)'
    BY <2>1, <2>3, <2>4, TypeParts DEF AtOK, Inv
  <2> QED BY <2>1, <2>4, <2>5, <2>6, LogKept, QuietStep DEF JobStep, Moves
<1>10. CASE CannotOpen(j)
  BY <1>1, <1>10, UndoFromStep DEF CannotOpen
<1>11. CASE TryLock(j)
  <2>1. CASE LockFree(Current(j), job[j].node)
    BY <1>1, <1>11, <2>1, QuietGoto DEF TryLock, JobStep, Moves, Locks, Steps
  <2>2. CASE ~LockFree(Current(j), job[j].node)
    BY <1>1, <1>11, <2>2, UndoFromStep DEF TryLock
  <2> QED BY <2>1, <2>2
<1>12. CASE Check(j)
  <2>1. CASE Unchanged(j)
    BY <1>1, <1>12, <2>1, QuietGoto DEF Check, JobStep, Moves, Checks, Steps
  <2>2. CASE ~Unchanged(j)
    BY <1>1, <1>12, <2>2, UndoFromStep DEF Check
  <2> QED BY <2>1, <2>2
<1>13. CASE CannotWrite(j)
  BY <1>1, <1>13, UndoFromStep DEF CannotWrite
<1>14. CASE Verify(j)
  <2>1. CASE Content(Current(j)) # job[j].id
    BY <1>1, <1>14, <2>1, UndoFromStep DEF Verify
  <2>2. CASE Content(Current(j)) = job[j].id /\ LastFile(j)
    BY <1>1, <1>14, <2>2, QuietGoto DEF Verify, JobStep, Moves, Verifies, Steps
  <2>3. CASE Content(Current(j)) = job[j].id /\ ~LastFile(j)
    BY <1>1, <1>14, <2>3, QuietGoto DEF Verify, JobStep, Moves, Verifies, Steps, LastFile
  <2> QED BY <2>1, <2>2, <2>3
<1>15. CASE Publish(j)
  BY <1>15, QuietEnd DEF Publish, Results
<1>16. CASE Compare(j)
  <2>1. CASE StillOurs(j)
    BY <1>1, <1>16, <2>1, QuietGoto DEF Compare, JobStep, Moves, Compares, Steps
  <2>2. CASE ~StillOurs(j)
    BY <1>16, <2>2, UndoNextStep DEF Compare
  <2> QED BY <2>1, <2>2
<1>17. CASE CannotRestore(j)
  BY <1>17, UndoNextStep DEF CannotRestore
<1> QED BY <1>2, <1>3, <1>4, <1>5, <1>6, <1>7, <1>8, <1>9, <1>10, <1>11, <1>12, <1>13, <1>14,
           <1>15, <1>16, <1>17 DEF Work
-----------------------------------------------------------------------------
(* Steps that write a file.                                                 *)
LEMMA ReplaceFacts ==
    ASSUME DiskOK, WritersOK, FaultsOK, NEW f \in Files, NEW text \in Texts, NEW who \in Writer,
           Replace(f, text, who), outside' = outside, stops' = stops
    PROVE  /\ DiskOK' /\ WritersOK' /\ FaultsOK'
           /\ disk'[f].text = text /\ disk'[f].node = disk[f].node + 1 /\ disk[f].node \in Nat
           /\ \A g \in Files \ {f} : disk'[g] = disk[g] /\ writers'[g] = writers[g]
           /\ writers'[f] = writers[f] \cup {who}
<1>1. PICK whole \in {TRUE, Fsync \/ who[2] = "range" \/ Faults = MaxFaults} :
         /\ disk' = [disk EXCEPT ![f] = [text |-> text, node |-> @.node + 1, whole |-> whole]]
         /\ writers' = [writers EXCEPT ![f] = @ \cup {who}]
         /\ cuts' = IF whole THEN cuts ELSE cuts + 1
  BY DEF Replace
<1>2. whole \in BOOLEAN
  BY <1>1, Constants
<1>3. ~whole => Faults # MaxFaults
  BY <1>1
<1>4. disk \in [Files -> File] /\ disk[f] \in File /\ disk[f].node \in Nat
  BY DEF DiskOK, File
<1>5. [text |-> text, node |-> disk[f].node + 1, whole |-> whole] \in File
  BY <1>2, <1>4 DEF File
<1>6. /\ DiskOK' /\ disk'[f].text = text /\ disk'[f].node = disk[f].node + 1
      /\ \A g \in Files \ {f} : disk'[g] = disk[g]
  BY <1>1, <1>4, <1>5 DEF DiskOK
<1>7. /\ WritersOK' /\ writers'[f] = writers[f] \cup {who}
      /\ \A g \in Files \ {f} : writers'[g] = writers[g]
  <2>1. writers \in [Files -> SUBSET Writer]
    BY DEF WritersOK
  <2>2. writers[f] \cup {who} \in SUBSET Writer
    BY <2>1
  <2> QED BY <1>1, <2>1, <2>2 DEF WritersOK
<1>8. FaultsOK'
  <2>1. /\ outside \in Nat /\ stops \in Nat /\ cuts \in Nat /\ outside + stops + cuts <= MaxFaults
        /\ MaxFaults \in Nat
    BY Constants DEF FaultsOK, Faults
  <2>2. ~whole => outside + stops + cuts # MaxFaults
    BY <1>3 DEF Faults
  <2>3. cuts' \in Nat /\ outside + stops + cuts' <= MaxFaults
    BY <1>1, <1>2, <2>1, <2>2
  <2> QED BY <2>1, <2>3 DEF FaultsOK, Faults
<1> QED BY <1>4, <1>6, <1>7, <1>8

(* A write that leaves what others do as it is.                             *)
LEMMA WriteStep ==
    ASSUME Inv, NEW j \in Jobs, job[j].step \in {"rename", "restore"},
           NEW f \in Files, f = Current(j), NEW text \in Texts, NEW how \in Kinds \cup {"undo"},
           NEW when \in {"write", "undo"}, NEW expected \in Texts,
           Replace(f, text, <<home[j], how>>),
           lost' = lost \/ lost' = lost \cup Loses(f, expected, job[j].id, when),
           UNCHANGED <<home, orphans, outside, stops>>,
           JobsOK', AtOK(j)', LogOK', LogStep, JobStep(j), DiskStep(f), LostStep,
           \A k \in Jobs \ {j} : job'[k] = job[k]
    PROVE  TypeOK' /\ StepFacts
<1>1. /\ HomeOK /\ DiskOK /\ JobsOK /\ (\A k \in Jobs : AtOK(k))
      /\ OrphansOK /\ WritersOK /\ LostOK /\ FaultsOK
  BY TypeParts DEF Inv
<1>2. <<home[j], how>> \in Writer /\ job[j].id \in 1 .. MaxCalls
  BY <1>1, JobFacts DEF Writer
<1>3. /\ DiskOK' /\ WritersOK' /\ FaultsOK'
      /\ \A g \in Files \ {f} : disk'[g] = disk[g] /\ writers'[g] = writers[g]
  BY <1>1, <1>2, ReplaceFacts
<1>4. HomeOK' /\ OrphansOK' /\ \A k \in Jobs : AtOK(k)'
  BY <1>1 DEF HomeOK, OrphansOK, AtOK
<1>5. LostOK'
  <2>1. disk[f].text \in Texts
    BY <1>1 DEF DiskOK, File
  <2>2. Loses(f, expected, job[j].id, when) \subseteq Loss
    BY <1>2, <2>1 DEF Loses, Loss
  <2> QED BY <1>1, <2>2 DEF LostOK
<1>6. TypeOK'
  BY <1>3, <1>4, <1>5, TypePartsNext
<1>7. \A k \in Jobs : JobStep(k)
  BY DEF JobStep, Same
<1>8. ASSUME NEW g \in Files PROVE DiskStep(g)
  <2>1. CASE g # f
    <3>1. disk'[g] = disk[g] /\ writers'[g] = writers[g] /\ disk[g].node \in Nat
      BY <1>1, <1>3, <2>1 DEF DiskOK, File
    <3> QED BY <3>1 DEF DiskStep
  <2> QED BY <2>1
<1>9. OrphansStep /\ OneMoves
  BY DEF OrphansStep, OneMoves, Same
<1> QED BY <1>6, <1>7, <1>8, <1>9 DEF StepFacts

(* What a job has read of a file is a text.                                 *)
LEMMA BaseText ==
    ASSUME NEW r \in Job, NEW f \in Files
    PROVE  r.base[f] \in Views /\ r.base[f].text \in Texts
<1>1. r.base[f] \in Views
  BY DEF Job
<1>2. MaxCalls \in Nat /\ MaxFaults \in Nat /\ Torn = -1
  BY Constants
<1>3. Torn \in Texts
  BY <1>2 DEF Texts
<1> QED BY <1>1, <1>3 DEF Views, NoView

(* The rename of the temporary file over the target, and what the call does *)
(* next.                                                                    *)
LEMMA RenameStep ==
    ASSUME Inv, NEW j \in Jobs, Rename(j)
    PROVE  TypeOK' /\ StepFacts
<1> DEFINE f == Current(j)
           text == job[j].base[f].text
<1>1. /\ job[j].step = "rename" /\ Replace(f, job[j].id, <<home[j], job[j].kind>>) /\ Written(j)
      /\ lost' = IF job[j].kind = "write" THEN lost ELSE lost \cup Loses(f, text, job[j].id, "write")
      /\ UNCHANGED <<home, orphans, outside, stops>>
  BY DEF Rename
<1>2. /\ job[j] \in Job /\ f \in Files /\ JobsOK /\ LogOK /\ DiskOK /\ WritersOK /\ FaultsOK
      /\ job[j].at \in 1 .. Len(job[j].files) /\ Len(job[j].files) \in Nat
      /\ DOMAIN job[j].files = 1 .. Len(job[j].files)
      /\ job[j].id \in 1 .. MaxCalls /\ job[j].id \in DOMAIN log /\ job[j].id \in Texts
      /\ log[job[j].id].result = "working" /\ home[j] \in Processes
  <2>1. JobsOK /\ LogOK /\ DiskOK /\ WritersOK /\ FaultsOK
    BY TypeParts DEF Inv
  <2>2. /\ job[j] \in Job /\ f \in Files
        /\ job[j].at \in 1 .. Len(job[j].files) /\ Len(job[j].files) \in Nat
        /\ DOMAIN job[j].files = 1 .. Len(job[j].files)
        /\ job[j].id \in 1 .. MaxCalls /\ job[j].id \in DOMAIN log
        /\ log[job[j].id].result = "working" /\ home[j] \in Processes
    BY <1>1, JobFacts
  <2>3. job[j].id \in Texts
    BY <2>2, Constants
  <2> QED BY <2>1, <2>2, <2>3
<1>3. job[j].kind \in Kinds /\ <<home[j], job[j].kind>> \in Writer
  BY <1>2 DEF Job, Writer
<1>4. text \in Texts
  BY <1>2, BaseText
<1>5. /\ disk'[f].text = job[j].id /\ disk'[f].node = disk[f].node + 1 /\ disk[f].node \in Nat
      /\ writers'[f] = writers[f] \cup {<<home[j], job[j].kind>>}
  BY <1>1, <1>2, <1>3, ReplaceFacts
<1>6. /\ \A k \in Jobs \ {j} : job'[k] = job[k]
      /\ JobsOK' /\ AtOK(j)' /\ LogOK' /\ LogStep /\ JobStep(j) /\ (Renames(j) \/ Stops(j))
      /\ log'[job[j].id].result \in {"working", "applied"}
  <2>1. CASE End(j, "applied")
    <3>1. "applied" \in Results /\ job[j].step # "idle"
      BY <1>1 DEF Results
    <3>2. /\ job'[j] = Idle /\ (\A k \in Jobs \ {j} : job'[k] = job[k]) /\ JobsOK'
          /\ log'[job[j].id].result = "applied"
      BY <1>2, <2>1, <3>1, EndFacts
    <3>3. LogStep /\ LogOK'
      BY <2>1, <3>1, LogEnds
    <3> QED BY <3>2, <3>3 DEF AtOK, JobStep, Stops, Idle
  <2>2. ASSUME NEW step \in {"check", "open", "verify"}, NEW at \in 1 .. Len(job[j].files),
               Goto(j, step, at), log' = log,
               \/ job[j].kind = "symbol" /\ step = "check" /\ at = job[j].at + 1
               \/ job[j].kind = "edit" /\ step = "open" /\ at = job[j].at + 1
               \/ job[j].kind = "edit" /\ LastFile(j) /\ step = "verify"
        PROVE  /\ \A k \in Jobs \ {j} : job'[k] = job[k]
               /\ JobsOK' /\ AtOK(j)' /\ LogOK' /\ LogStep /\ JobStep(j) /\ (Renames(j) \/ Stops(j))
               /\ log'[job[j].id].result \in {"working", "applied"}
    <3>1. step \in Steps /\ at \in Nat
      BY <1>2, <2>2 DEF Steps
    <3>2. /\ job'[j].step = step /\ job'[j].at = at
          /\ job'[j].kind = job[j].kind /\ job'[j].id = job[j].id
          /\ job'[j].files = job[j].files /\ job'[j].held = job[j].held
          /\ job'[j].base = job[j].base /\ job'[j].clean = job[j].clean
          /\ (\A k \in Jobs \ {j} : job'[k] = job[k])
          /\ JobsOK'
      BY <1>2, <2>2, <3>1, GotoFacts
    <3>3. KeepsFiles(j)
      BY <1>1, <2>2, <3>2 DEF KeepsFiles, GoesOn
    <3>4. Renames(j)
      BY <1>1, <1>5, <2>2, <3>2, <3>3 DEF Renames
    <3>5. AtOK(j)'
      BY <1>2, <2>2, <3>2 DEF AtOK
    <3> QED BY <1>2, <2>2, <3>2, <3>4, <3>5, LogKept DEF JobStep
  <2>3. CASE job[j].kind \in {"range", "write"} \/ (job[j].kind = "symbol" /\ LastFile(j))
    <3>1. End(j, "applied")
      BY <1>1, <2>3 DEF Written
    <3> QED BY <2>1, <3>1
  <2>4. CASE job[j].kind = "symbol" /\ ~LastFile(j)
    <3>1. Goto(j, "check", job[j].at + 1) /\ log' = log
      BY <1>1, <2>4 DEF Written
    <3>2. job[j].at + 1 \in 1 .. Len(job[j].files)
      BY <1>2, <2>4 DEF LastFile
    <3> QED BY <2>2, <2>4, <3>1, <3>2
  <2>5. CASE job[j].kind = "edit" /\ LastFile(j)
    <3>1. Goto(j, "verify", 1) /\ log' = log
      BY <1>1, <2>5 DEF Written
    <3>2. 1 \in 1 .. Len(job[j].files)
      BY <1>2
    <3> QED BY <2>2, <2>5, <3>1, <3>2
  <2>6. CASE job[j].kind = "edit" /\ ~LastFile(j)
    <3>1. Goto(j, "open", job[j].at + 1) /\ log' = log
      BY <1>1, <2>6 DEF Written
    <3>2. job[j].at + 1 \in 1 .. Len(job[j].files)
      BY <1>2, <2>6 DEF LastFile
    <3> QED BY <2>2, <2>6, <3>1, <3>2
  <2> QED BY <1>3, <2>3, <2>4, <2>5, <2>6 DEF Kinds
<1>7. DiskStep(f)
  <2>1. disk[f].node <= disk'[f].node /\ writers[f] \subseteq writers'[f]
    BY <1>5
  <2> QED BY <1>1, <1>5, <1>6, <2>1 DEF DiskStep
<1>8. LostStep
  <2>1. ASSUME NEW l \in lost' \ lost
        PROVE  /\ job[j].kind # "write" /\ l.when = "write" /\ l.file = f
               /\ l.read = text /\ disk[f].text # l.read
    BY <1>1, <2>1 DEF Loses
  <2> QED BY <1>1, <1>5, <2>1 DEF LostStep
<1> HIDE DEF f, text
<1>9. lost' = lost \/ lost' = lost \cup Loses(f, text, job[j].id, "write")
  BY <1>1
<1> QED BY <1>1, <1>2, <1>3, <1>4, <1>6, <1>7, <1>8, <1>9, WriteStep DEF f
(* The rename of the original content back over the target.                 *)
LEMMA RestoreStep ==
    ASSUME Inv, NEW j \in Jobs, Restore(j)
    PROVE  TypeOK' /\ StepFacts
<1> DEFINE f == Current(j)
           text == job[j].base[f].text
           result == IF job[j].clean THEN "undone" ELSE "incomplete"
<1>1. /\ job[j].step = "restore" /\ Replace(f, text, <<home[j], "undo">>)
      /\ lost' = lost \cup Loses(f, job[j].id, job[j].id, "undo")
      /\ IF AllUndone(j) THEN End(j, result)
         ELSE Goto(j, "undo", job[j].at - 1) /\ log' = log
      /\ UNCHANGED <<home, orphans, outside, stops>>
  BY DEF Restore
<1>2. /\ job[j] \in Job /\ f \in Files
      /\ job[j].at \in 1 .. Len(job[j].files) /\ Len(job[j].files) \in Nat
      /\ DOMAIN job[j].files = 1 .. Len(job[j].files)
      /\ job[j].id \in 1 .. MaxCalls /\ home[j] \in Processes
  BY <1>1, JobFacts
<1>3. JobsOK /\ LogOK /\ DiskOK /\ WritersOK /\ FaultsOK
  BY TypeParts DEF Inv
<1>4. text \in Texts /\ job[j].id \in Texts
  <2>1. text \in Texts
    BY <1>2, BaseText
  <2>2. job[j].id \in Texts
    BY <1>2, Constants
  <2> QED BY <2>1, <2>2
<1>5. <<home[j], "undo">> \in Writer
  BY <1>2 DEF Writer
<1>6. /\ disk'[f].text = text /\ disk'[f].node = disk[f].node + 1 /\ disk[f].node \in Nat
      /\ writers'[f] = writers[f] \cup {<<home[j], "undo">>}
  BY <1>1, <1>2, <1>3, <1>4, <1>5, ReplaceFacts
<1>7. /\ \A k \in Jobs \ {j} : job'[k] = job[k]
      /\ JobsOK' /\ AtOK(j)' /\ LogOK' /\ LogStep /\ JobStep(j) /\ (Restores(j) \/ Stops(j))
  <2>1. CASE AllUndone(j)
    <3>1. End(j, result) /\ result \in Results /\ job[j].step # "idle"
      BY <1>1, <2>1 DEF Results
    <3>2. result \in {"undone", "denied", "refused"} => Clear(j)
      BY <1>1, <1>6, <2>1 DEF AllUndone, Clear
    <3>3. job'[j] = Idle /\ (\A k \in Jobs \ {j} : job'[k] = job[k]) /\ JobsOK'
      BY <1>3, <3>1, EndFacts
    <3>4. LogStep /\ LogOK'
      BY <3>1, <3>2, LogEnds
    <3> QED BY <3>3, <3>4 DEF AtOK, JobStep, Stops, Idle
  <2>2. CASE ~AllUndone(j)
    <3>1. Goto(j, "undo", job[j].at - 1) /\ log' = log
      BY <1>1, <2>2
    <3>2. job[j].at - 1 \in 1 .. Len(job[j].files) /\ job[j].at - 1 \in Nat /\ "undo" \in Steps
      BY <1>2, <2>2 DEF AllUndone, Steps
    <3>3. /\ job'[j].step = "undo" /\ job'[j].at = job[j].at - 1
          /\ job'[j].kind = job[j].kind /\ job'[j].id = job[j].id
          /\ job'[j].files = job[j].files /\ job'[j].held = job[j].held
          /\ job'[j].base = job[j].base /\ job'[j].clean = job[j].clean
          /\ (\A k \in Jobs \ {j} : job'[k] = job[k])
          /\ JobsOK'
      BY <1>3, <3>1, <3>2, GotoFacts
    <3>4. Restores(j)
      BY <1>1, <1>6, <3>3 DEF Restores, KeepsFiles, GoesOn
    <3>5. AtOK(j)'
      BY <1>2, <3>2, <3>3 DEF AtOK
    <3> QED BY <3>1, <3>3, <3>4, <3>5, LogKept DEF JobStep
  <2> QED BY <2>1, <2>2
<1>8. DiskStep(f)
  <2>1. disk[f].node <= disk'[f].node /\ writers[f] \subseteq writers'[f]
    BY <1>6
  <2> QED BY <1>1, <1>6, <1>7, <2>1 DEF DiskStep
<1>9. LostStep
  <2>1. ASSUME NEW l \in lost' \ lost
        PROVE  l.when = "undo" /\ l.file = f /\ disk[f].text # job[j].id
    BY <1>1, <2>1 DEF Loses
  <2> QED BY <1>1, <1>6, <2>1 DEF LostStep
<1> HIDE DEF f, text, result
<1> QED BY <1>1, <1>2, <1>3, <1>4, <1>7, <1>8, <1>9, WriteStep DEF f

(* An aborted task: a rename already handed over goes on without it.        *)
LEMMA DropStep ==
    ASSUME Inv, NEW j \in Jobs, Drop(j)
    PROVE  TypeOK' /\ StepFacts
<1>1. PICK left \in SUBSET UnderWay(j) : orphans' = orphans \cup left
  BY DEF Drop
<1>2. /\ job[j].step # "idle" /\ Faults < MaxFaults /\ stops' = stops + 1 /\ End(j, "dropped")
      /\ UNCHANGED <<home, disk, writers, lost, outside, cuts>> /\ "dropped" \in Results
  BY DEF Drop, Results
<1>3. /\ HomeOK /\ DiskOK /\ JobsOK /\ (\A k \in Jobs : AtOK(k)) /\ LogOK
      /\ OrphansOK /\ WritersOK /\ LostOK /\ FaultsOK
  BY TypeParts DEF Inv
<1>4. job'[j] = Idle /\ JobsOK' /\ \A k \in Jobs \ {j} : job'[k] = job[k]
  BY <1>2, <1>3, EndFacts
<1>5. LogStep /\ LogOK'
  BY <1>2, LogEnds
<1>6. ASSUME NEW o \in left
      PROVE  /\ o \in [by : Processes, file : Files, text : Texts]
             /\ o.text = job[j].id \/ \E f \in Files : o.text = job[j].base[f].text
  <2>1. o \in UnderWay(j) /\ job[j].step \in {"rename", "restore"}
    BY <1>1, <1>6 DEF UnderWay
  <2>2. /\ Current(j) \in Files /\ home[j] \in Processes /\ job[j] \in Job
        /\ job[j].id \in 1 .. MaxCalls
    BY <2>1, JobFacts
  <2>3. job[j].id \in Texts /\ job[j].base[Current(j)].text \in Texts
    BY <2>2, BaseText, Constants
  <2>4. CASE job[j].step = "rename"
    <3>1. o = [by |-> home[j], file |-> Current(j), text |-> job[j].id]
      BY <2>1, <2>4 DEF UnderWay
    <3> QED BY <2>2, <2>3, <3>1
  <2>5. CASE job[j].step = "restore"
    <3>1. o = [by |-> home[j], file |-> Current(j), text |-> job[j].base[Current(j)].text]
      BY <2>1, <2>5 DEF UnderWay
    <3> QED BY <2>2, <2>3, <3>1
  <2> QED BY <2>1, <2>4, <2>5
<1>7. OrphansOK' /\ OrphansStep
  BY <1>1, <1>2, <1>3, <1>6 DEF OrphansOK, OrphansStep
<1>8. FaultsOK'
  BY <1>2, <1>3, Constants DEF FaultsOK, Faults
<1>9. HomeOK' /\ DiskOK' /\ WritersOK' /\ LostOK' /\ \A k \in Jobs : AtOK(k)'
  BY <1>2, <1>3, <1>4 DEF HomeOK, DiskOK, WritersOK, LostOK, AtOK, Idle
<1>10. TypeOK'
  BY <1>4, <1>5, <1>7, <1>8, <1>9, TypePartsNext
<1>11. \A k \in Jobs : JobStep(k)
  BY <1>4 DEF JobStep, Same, Stops
<1>12. ASSUME NEW f \in Files PROVE DiskStep(f)
  BY <1>2, <1>3 DEF DiskStep, DiskOK, File
<1>13. LostStep /\ OneMoves
  BY <1>2, <1>4 DEF LostStep, OneMoves, Same
<1> QED BY <1>2, <1>5, <1>7, <1>10, <1>11, <1>12, <1>13 DEF StepFacts

(* A killed process: its jobs are gone, its calls are settled as dropped,   *)
(* what it handed over is lost.                                             *)
LEMMA KillStep ==
    ASSUME Inv, NEW p \in Processes, Kill(p)
    PROVE  TypeOK' /\ StepFacts
<1> DEFINE mine == {j \in Jobs : home[j] = p}
           ids == {job[j].id : j \in mine}
<1>1. /\ Faults < MaxFaults /\ stops' = stops + 1
      /\ job' = [j \in Jobs |-> IF j \in mine THEN Idle ELSE job[j]]
      /\ log' = [i \in DOMAIN log |-> IF i \in ids THEN [log[i] EXCEPT !.result = "dropped"] ELSE log[i]]
      /\ orphans' = {o \in orphans : o.by # p}
      /\ UNCHANGED <<home, disk, writers, lost, outside, cuts>>
  BY DEF Kill
<1>2. /\ HomeOK /\ DiskOK /\ JobsOK /\ (\A k \in Jobs : AtOK(k)) /\ LogOK
      /\ OrphansOK /\ WritersOK /\ LostOK /\ FaultsOK
  BY TypeParts DEF Inv
<1>3. /\ \A j \in mine : job'[j] = Idle
      /\ \A j \in Jobs \ mine : job'[j] = job[j]
      /\ JobsOK'
  BY <1>1, <1>2, Constants DEF JobsOK
<1>4. \A j \in Jobs : JobStep(j) /\ AtOK(j)'
  <2>1. \A j \in Jobs : JobStep(j)
    BY <1>3 DEF JobStep, Same, Stops
  <2>2. \A j \in mine : AtOK(j)'
    BY <1>3 DEF AtOK, Idle
  <2>3. \A j \in Jobs \ mine : AtOK(j)'
    BY <1>2, <1>3 DEF AtOK
  <2> QED BY <2>1, <2>2, <2>3
<1>5. log \in Seq(Call) /\ Len(log) \in Nat /\ Len(log) <= MaxCalls /\ DOMAIN log = 1 .. Len(log)
  BY <1>2 DEF LogOK
<1>6. ASSUME NEW i \in DOMAIN log
      PROVE  /\ log'[i] \in Call /\ log'[i].by = log[i].by
             /\ i \in ids => log'[i].result = "dropped"
             /\ i \notin ids => log'[i] = log[i]
  <2>1. log[i] \in Call /\ "dropped" \in Results
    BY <1>5 DEF Results
  <2>2. log'[i] = IF i \in ids THEN [log[i] EXCEPT !.result = "dropped"] ELSE log[i]
    BY <1>1
  <2> HIDE DEF ids
  <2> QED BY <2>1, <2>2 DEF Call
<1>7. log' \in Seq(Call) /\ Len(log') = Len(log)
  <2> HIDE DEF ids
  <2>1. log' \in [1 .. Len(log) -> Call]
    BY <1>1, <1>5, <1>6
  <2> QED BY <1>5, <2>1
<1>8. LogStep
  <2>1. ASSUME NEW i \in ids, i \in DOMAIN log
        PROVE  \E j \in Jobs : job[j].id = i /\ job[j].step # "idle" /\ Stops(j)
    <3>1. PICK j \in mine : i = job[j].id
      BY <2>1
    <3>2. job[j].step # "idle"
      <4>1. job[j].step = "idle" => job[j].id = 0
        BY DEF Inv, GuardInv, Idle
      <4> QED BY <1>5, <2>1, <3>1, <4>1
    <3> QED BY <1>3, <3>1, <3>2 DEF Stops
  <2> HIDE DEF ids
  <2>2. ASSUME NEW i \in DOMAIN log
        PROVE  /\ log'[i].by = log[i].by
               /\ \/ log'[i].result = log[i].result
                  \/ \E j \in Jobs :
                        /\ job[j].id = i /\ job[j].step # "idle" /\ Stops(j)
                        /\ log'[i].result \in {"undone", "denied", "refused"} => Clear(j)
    <3>1. CASE i \in ids
      <4>1. log'[i].result = "dropped" /\ log'[i].by = log[i].by
        BY <1>6, <3>1
      <4> QED BY <2>1, <3>1, <4>1
    <3>2. CASE i \notin ids
      BY <1>6, <3>2
    <3> QED BY <3>1, <3>2
  <2>3. Len(log') = Len(log)
    BY <1>7
  <2>4. Len(log) # Len(log) + 1
    <3>1. Len(log) \in Nat
      BY <1>5
    <3> HIDE DEF mine
    <3> QED BY <3>1
  <2> HIDE DEF mine
  <2> QED BY <2>2, <2>3, <2>4 DEF LogStep
<1>9. LogOK'
  BY <1>5, <1>7 DEF LogOK
<1>10. OrphansOK' /\ OrphansStep
  BY <1>1, <1>2 DEF OrphansOK, OrphansStep
<1>11. FaultsOK'
  BY <1>1, <1>2, Constants DEF FaultsOK, Faults
<1>12. HomeOK' /\ DiskOK' /\ WritersOK' /\ LostOK'
  BY <1>1, <1>2 DEF HomeOK, DiskOK, WritersOK, LostOK
<1>13. TypeOK'
  BY <1>3, <1>4, <1>9, <1>10, <1>11, <1>12, TypePartsNext
<1>14. ASSUME NEW f \in Files PROVE DiskStep(f)
  BY <1>1, <1>2 DEF DiskStep, DiskOK, File
<1>15. LostStep /\ OneMoves
  BY <1>1, <1>3 DEF LostStep, OneMoves, Same, Stops
<1> QED BY <1>1, <1>4, <1>8, <1>10, <1>13, <1>14, <1>15 DEF StepFacts
(* Another program's write.                                                 *)
LEMMA OutsideStep ==
    ASSUME Inv, NEW f \in Files, OutsideWrite(f)
    PROVE  TypeOK' /\ StepFacts
<1> DEFINE text == MaxCalls + outside'
<1>1. PICK node \in {disk[f].node, disk[f].node + 1} :
         disk' = [disk EXCEPT ![f] = [text |-> text, node |-> node, whole |-> TRUE]]
  BY DEF OutsideWrite
<1>2. /\ Faults < MaxFaults /\ outside' = outside + 1
      /\ writers' = [writers EXCEPT ![f] = @ \cup {Outsider}]
      /\ UNCHANGED <<home, job, log, orphans, lost, stops, cuts>>
  BY DEF OutsideWrite
<1>3. /\ HomeOK /\ DiskOK /\ JobsOK /\ (\A k \in Jobs : AtOK(k)) /\ LogOK
      /\ OrphansOK /\ WritersOK /\ LostOK /\ FaultsOK
  BY TypeParts DEF Inv
<1>4. FaultsOK' /\ text \in Texts /\ text > MaxCalls
  <2>1. /\ outside \in Nat /\ stops \in Nat /\ cuts \in Nat /\ outside + stops + cuts < MaxFaults
        /\ MaxFaults \in Nat /\ MaxCalls \in Nat /\ Torn = -1
    BY <1>2, <1>3, Constants DEF FaultsOK, Faults
  <2> QED BY <1>2, <2>1 DEF FaultsOK, Faults, Texts
<1> HIDE DEF text
<1>5. disk \in [Files -> File] /\ disk[f] \in File /\ disk[f].node \in Nat /\ node \in Nat
  BY <1>3 DEF DiskOK, File
<1>6. [text |-> text, node |-> node, whole |-> TRUE] \in File
  BY <1>4, <1>5 DEF File
<1>7. /\ DiskOK' /\ disk'[f].text = text /\ disk[f].node <= disk'[f].node
      /\ \A g \in Files \ {f} : disk'[g] = disk[g]
  BY <1>1, <1>5, <1>6 DEF DiskOK
<1>8. /\ WritersOK' /\ writers'[f] = writers[f] \cup {Outsider}
      /\ \A g \in Files \ {f} : writers'[g] = writers[g]
  <2>1. writers \in [Files -> SUBSET Writer]
    BY <1>3 DEF WritersOK
  <2>2. writers[f] \cup {Outsider} \in SUBSET Writer
    BY <2>1 DEF Writer
  <2> QED BY <1>2, <2>1, <2>2 DEF WritersOK
<1>9. HomeOK' /\ JobsOK' /\ LogOK' /\ OrphansOK' /\ LostOK' /\ \A k \in Jobs : AtOK(k)'
  BY <1>2, <1>3 DEF HomeOK, JobsOK, LogOK, OrphansOK, LostOK, AtOK
<1>10. TypeOK'
  BY <1>4, <1>7, <1>8, <1>9, TypePartsNext
<1>11. ASSUME NEW g \in Files PROVE DiskStep(g)
  <2>1. CASE g = f
    BY <1>4, <1>7, <1>8, <2>1 DEF DiskStep
  <2>2. CASE g # f
    <3>1. disk'[g] = disk[g] /\ writers'[g] = writers[g] /\ disk[g].node \in Nat
      BY <1>3, <1>7, <1>8, <2>2 DEF DiskOK, File
    <3> QED BY <3>1 DEF DiskStep
  <2> QED BY <2>1, <2>2
<1>12. LogStep
  BY <1>2, LogKept
<1>13. LostStep /\ OrphansStep /\ OneMoves /\ \A k \in Jobs : JobStep(k)
  BY <1>2 DEF LostStep, OrphansStep, OneMoves, JobStep, Same
<1> QED BY <1>2, <1>10, <1>11, <1>12, <1>13 DEF StepFacts

(* The last piece of an asynchronous write reaches the file.                *)
LEMMA ArriveStep ==
    ASSUME Inv, NEW f \in Files, Arrive(f)
    PROVE  TypeOK' /\ StepFacts
<1>1. /\ disk' = [disk EXCEPT ![f].whole = TRUE]
      /\ UNCHANGED <<home, job, log, orphans, writers, lost, outside, stops, cuts>>
  BY DEF Arrive
<1>2. /\ HomeOK /\ DiskOK /\ JobsOK /\ (\A k \in Jobs : AtOK(k)) /\ LogOK
      /\ OrphansOK /\ WritersOK /\ LostOK /\ FaultsOK
  BY TypeParts DEF Inv
<1>3. /\ \A g \in Files : /\ disk'[g].text = disk[g].text /\ disk'[g].node = disk[g].node
                          /\ disk[g].node \in Nat
      /\ DiskOK'
  BY <1>1, <1>2 DEF DiskOK, File
<1>4. /\ HomeOK' /\ JobsOK' /\ LogOK' /\ OrphansOK' /\ WritersOK' /\ LostOK' /\ FaultsOK'
      /\ \A k \in Jobs : AtOK(k)'
  BY <1>1, <1>2 DEF HomeOK, JobsOK, LogOK, OrphansOK, WritersOK, LostOK, FaultsOK, Faults, AtOK
<1>5. TypeOK'
  BY <1>3, <1>4, TypePartsNext
<1>6. \A g \in Files : DiskStep(g)
  BY <1>1, <1>3 DEF DiskStep
<1>7. LogStep
  BY <1>1, LogKept
<1>8. LostStep /\ OrphansStep /\ OneMoves /\ \A k \in Jobs : JobStep(k)
  BY <1>1 DEF LostStep, OrphansStep, OneMoves, JobStep, Same
<1> QED BY <1>1, <1>5, <1>6, <1>7, <1>8 DEF StepFacts

(* A rename whose job is gone.                                              *)
LEMMA OrphanStep ==
    ASSUME Inv, OrphanRename
    PROVE  TypeOK' /\ StepFacts
<1>1. PICK o \in orphans :
         /\ Replace(o.file, o.text, <<o.by, "orphan">>)
         /\ orphans' = orphans \ {o}
         /\ UNCHANGED <<home, job, log, lost, outside, stops>>
  BY DEF OrphanRename
<1>2. /\ HomeOK /\ DiskOK /\ JobsOK /\ (\A k \in Jobs : AtOK(k)) /\ LogOK
      /\ OrphansOK /\ WritersOK /\ LostOK /\ FaultsOK
  BY TypeParts DEF Inv
<1>3. o.file \in Files /\ o.text \in Texts /\ <<o.by, "orphan">> \in Writer
  BY <1>2 DEF OrphansOK, Writer
<1> DEFINE f == o.file
           who == <<o.by, "orphan">>
<1>4. /\ DiskOK' /\ WritersOK' /\ FaultsOK'
      /\ disk'[f].text = o.text /\ disk'[f].node = disk[f].node + 1 /\ disk[f].node \in Nat
      /\ \A g \in Files \ {f} : disk'[g] = disk[g] /\ writers'[g] = writers[g]
      /\ writers'[f] = writers[f] \cup {who}
  BY <1>1, <1>2, <1>3, ReplaceFacts
<1>5. HomeOK' /\ JobsOK' /\ LogOK' /\ OrphansOK' /\ LostOK' /\ \A k \in Jobs : AtOK(k)'
  BY <1>1, <1>2 DEF HomeOK, JobsOK, LogOK, OrphansOK, LostOK, AtOK
<1>6. TypeOK'
  BY <1>4, <1>5, TypePartsNext
<1>7. ASSUME NEW g \in Files PROVE DiskStep(g)
  <2>1. CASE g = f
    <3>1. disk[f].node <= disk'[f].node /\ writers[f] \subseteq writers'[f]
      BY <1>4
    <3> QED BY <1>4, <2>1, <3>1 DEF DiskStep
  <2>2. CASE g # f
    <3>1. disk'[g] = disk[g] /\ writers'[g] = writers[g] /\ disk[g].node \in Nat
      BY <1>2, <1>4, <2>2 DEF DiskOK, File
    <3> QED BY <3>1 DEF DiskStep
  <2> QED BY <2>1, <2>2
<1>8. LogStep
  BY <1>1, LogKept
<1>9. LostStep /\ OrphansStep /\ OneMoves /\ \A k \in Jobs : JobStep(k)
  BY <1>1 DEF LostStep, OrphansStep, OneMoves, JobStep, Same
<1> QED BY <1>1, <1>6, <1>7, <1>8, <1>9 DEF StepFacts

(* Every step keeps the types and is one of the steps above to every job,   *)
(* record and file.                                                         *)
LEMMA AnyStep ==
    ASSUME Inv, [Next]_vars
    PROVE  TypeOK' /\ StepFacts
<1>1. CASE UNCHANGED vars
  <2>1. UNCHANGED <<home, disk, job, log, orphans, writers, lost, outside, stops, cuts>>
    BY <1>1 DEF vars
  <2>2. TypeOK /\ DiskOK
    BY TypeParts DEF Inv
  <2>3. TypeOK'
    BY <2>1, <2>2 DEF TypeOK, Faults
  <2>4. \A f \in Files : DiskStep(f)
    BY <2>1, <2>2 DEF DiskStep, DiskOK, File
  <2>5. LogStep
    BY <2>1, LogKept
  <2> QED BY <2>1, <2>3, <2>4, <2>5 DEF StepFacts, LostStep, OrphansStep, OneMoves, JobStep, Same
<1>2. ASSUME NEW j \in Jobs, Start(j) \/ Work(j) \/ Drop(j)
      PROVE  TypeOK' /\ StepFacts
  BY <1>2, StartStep, QuietWork, RenameStep, RestoreStep, DropStep
<1>3. ASSUME NEW f \in Files, OutsideWrite(f) \/ Arrive(f)
      PROVE  TypeOK' /\ StepFacts
  BY <1>3, OutsideStep, ArriveStep
<1> QED BY <1>1, <1>2, <1>3, KillStep, OrphanStep DEF Next
-----------------------------------------------------------------------------
(* Each part of the invariant is kept.                                      *)

(* The record of a call at work changes only when the call ends.            *)
LEMMA StillWorking ==
    ASSUME Inv, TypeOK', StepFacts, NEW j \in Jobs, job[j].step # "idle", job'[j] # Idle
    PROVE  /\ job[j].id \in DOMAIN log' /\ log'[job[j].id].result = "working"
           /\ log'[job[j].id].by = home[j]
<1>1. /\ job[j].id \in DOMAIN log /\ log[job[j].id].result = "working"
      /\ log[job[j].id].by = home[j] /\ DOMAIN log = 1 .. Len(log) /\ Len(log) \in Nat
  BY JobFacts
<1>2. LogStep /\ Apart
  BY DEF StepFacts, Inv
<1>3. job[j].id \in DOMAIN log'
  <2>1. log' \in Seq(Call)
    BY TypePartsNext DEF LogOK
  <2>2. DOMAIN log' = 1 .. Len(log')
    BY <2>1
  <2>3. Len(log') >= Len(log)
    BY <1>1, <1>2 DEF LogStep
  <2> QED BY <1>1, <2>2, <2>3, <2>1
<1>4. log'[job[j].id].by = home[j]
  BY <1>1, <1>2 DEF LogStep
<1>5. log'[job[j].id].result = log[job[j].id].result
  <2>1. ASSUME NEW k \in Jobs, job[k].id = job[j].id, job[k].step # "idle", Stops(k) PROVE FALSE
    <3>1. k = j
      BY <1>2, <2>1 DEF Apart
    <3> QED BY <2>1, <3>1 DEF Stops
  <2> QED BY <1>1, <1>2, <2>1 DEF LogStep
<1> QED BY <1>1, <1>3, <1>4, <1>5

(* A call at work keeps its record and its guards.                          *)
LEMMA GuardNext ==
    ASSUME Inv, TypeOK', StepFacts, NEW j \in Jobs
    PROVE  GuardInv(j)'
<1>1. /\ GuardInv(j) /\ KindInv(j) /\ JobStep(j) /\ home' = home
      /\ job[j] \in Job /\ Len(log) \in Nat
  BY JobFacts DEF Inv, StepFacts
<1>2. job'[j] \in Job /\ log' \in Seq(Call)
  BY TypePartsNext DEF JobsOK, LogOK
<1>3. Idle.step = "idle" /\ Idle.files = <<>> /\ Idle.base = [f \in Files |-> NoView]
  BY DEF Idle
<1>4. GoesOn(j) => /\ job'[j].step # "idle" /\ job'[j].id \in DOMAIN log'
                   /\ log'[job'[j].id].result = "working" /\ log'[job'[j].id].by = home'[j]
  <2> SUFFICES ASSUME GoesOn(j) PROVE /\ job'[j].step # "idle" /\ job'[j].id \in DOMAIN log'
                   /\ log'[job'[j].id].result = "working" /\ log'[job'[j].id].by = home'[j]
    OBVIOUS
  <2>1. job[j].step # "idle" /\ job'[j].step # "idle" /\ job'[j].id = job[j].id /\ job'[j] # Idle
    BY <1>3 DEF GoesOn
  <2> QED BY <1>1, <2>1, StillWorking
<1>5. CASE Same(j)
  <2>1. job[j].step # "idle" => /\ job[j].id \in DOMAIN log'
                               /\ log'[job[j].id].result = "working" /\ log'[job[j].id].by = home[j]
    BY <1>3, <1>5, StillWorking DEF Same
  <2> QED BY <1>1, <1>5, <2>1 DEF Same, GuardInv, Requested
<1>6. CASE Stops(j)
  BY <1>3, <1>6 DEF Stops, GuardInv
<1>7. CASE Begins(j)
  <2>1. /\ job'[j].step = "guards" /\ job'[j].id = Len(log) + 1 /\ job'[j].held = {}
        /\ job'[j].base = Idle.base /\ Len(log') = Len(log) + 1
        /\ log'[Len(log) + 1].result = "working" /\ log'[Len(log) + 1].by = home[j]
        /\ job'[j].files \in Lists /\ Len(job'[j].files) >= 1
    BY <1>7 DEF Begins
  <2>2. Len(log) + 1 \in DOMAIN log'
    BY <1>1, <1>2, <2>1
  <2>3. \A i, k \in DOMAIN job'[j].files : i # k => job'[j].files[i] # job'[j].files[k]
    BY <2>1 DEF Lists
  <2>4. job'[j].held \subseteq Requested(j)' /\ job'[j].held # Requested(j)'
    <3>1. 1 \in DOMAIN job'[j].files
      <4>1. job'[j].files \in Seq(Files)
        BY <1>2 DEF Job
      <4> QED BY <2>1, <4>1
    <3>2. job'[j].files[1] \in Requested(j)'
      BY <3>1 DEF Requested
    <3> QED BY <2>1, <3>2
  <2>5. \A f \in Files \ job'[j].held : job'[j].base[f] = NoView
    BY <1>3, <2>1
  <2> QED BY <1>1, <2>1, <2>2, <2>3, <2>4, <2>5 DEF GuardInv
<1>8. CASE Guards(j)
  <2>1. PICK g \in Requested(j) \ job[j].held :
          /\ GuardFree(j, g) /\ job'[j].held = job[j].held \cup {g}
          /\ \/ job'[j].step = "guards" /\ job'[j].held # Requested(j)
             \/ /\ job'[j].step = AfterGuards(job[j].kind) /\ job'[j].at = 1
                /\ job'[j].held = Requested(j)
    BY <1>8 DEF Guards
  <2>2. /\ GoesOn(j) /\ job'[j].files = job[j].files /\ job'[j].base = job[j].base
        /\ job[j].step = "guards"
    BY <1>8 DEF Guards
  <2>3. Requested(j)' = Requested(j)
    BY <2>2 DEF Requested
  <2>4. AfterGuards(job[j].kind) \notin {"idle", "guards"}
    BY DEF AfterGuards
  <2> QED BY <1>1, <1>4, <2>1, <2>2, <2>3, <2>4 DEF GuardInv
<1>9. CASE Reads(j)
  <2>1. /\ GoesOn(j) /\ job'[j].files = job[j].files /\ job'[j].held = job[j].held
        /\ job'[j].base = [job[j].base EXCEPT ![Current(j)] = View(Current(j))]
        /\ job[j].step = "read" /\ job'[j].step \in {"read", "ask", "check"}
    BY <1>9 DEF Reads, AfterReads
  <2>2. Requested(j)' = Requested(j)
    BY <2>1 DEF Requested
  <2>3. Current(j) \in job[j].held
    BY <2>1, JobFacts
  <2>4. \A f \in Files \ job'[j].held : job'[j].base[f] = NoView
    BY <1>1, <2>1, <2>3 DEF GuardInv, Job
  <2> QED BY <1>1, <1>4, <2>1, <2>2, <2>4 DEF GuardInv
<1>10. CASE Skips(j)
  <2>1. /\ GoesOn(j) /\ job'[j].held = job[j].held /\ job'[j].base = job[j].base
        /\ job[j].step = "read" /\ job'[j].step \in {"read", "ask", "check"}
        /\ Len(job'[j].files) >= 1
        /\ \A i \in DOMAIN job'[j].files : job'[j].files[i] \in Requested(j)
        /\ \A i, k \in DOMAIN job'[j].files : i # k => job'[j].files[i] # job'[j].files[k]
    BY <1>10 DEF Skips, AfterReads
  <2>2. Requested(j)' \subseteq Requested(j)
    BY <2>1 DEF Requested
  <2> QED BY <1>1, <1>4, <2>1, <2>2 DEF GuardInv
<1>11. CASE Moves(j) \/ Renames(j) \/ Restores(j)
  <2>1. /\ GoesOn(j) /\ job'[j].held = job[j].held /\ job'[j].base = job[j].base
        /\ job'[j].files = job[j].files
        /\ job[j].step # "guards" /\ job'[j].step # "guards"
    BY <1>11 DEF Moves, Renames, Restores, KeepsFiles, Asked, Opens, Locks, Checks, TurnsBack,
                 Verifies, Compares, GivesUp
  <2>2. Requested(j)' = Requested(j)
    BY <2>1 DEF Requested
  <2>3. job[j].step # "idle"
    BY <2>1 DEF GoesOn
  <2> QED BY <1>1, <1>4, <2>1, <2>2, <2>3 DEF GuardInv
<1> QED BY <1>1, <1>5, <1>6, <1>7, <1>8, <1>9, <1>10, <1>11 DEF JobStep

(* Each tool takes its own steps only.                                      *)
LEMMA KindNext ==
    ASSUME Inv, TypeOK', StepFacts, NEW j \in Jobs
    PROVE  KindInv(j)'
<1>1. KindInv(j) /\ JobStep(j) /\ job[j].kind \in Kinds /\ Len(job[j].files) \in Nat
  BY JobFacts DEF Inv, StepFacts, Job
<1>2. CASE Same(j)
  BY <1>1, <1>2 DEF Same, KindInv
<1>3. CASE Stops(j)
  BY <1>3 DEF Stops, KindInv, Idle
<1>4. CASE Begins(j)
  BY <1>4 DEF Begins, KindInv
<1>5. CASE Guards(j)
  BY <1>1, <1>5 DEF Guards, GoesOn, KindInv, AfterGuards, Kinds
<1>6. CASE Reads(j)
  BY <1>1, <1>6 DEF Reads, GoesOn, KindInv, AfterReads, Kinds
<1>7. CASE Skips(j)
  BY <1>1, <1>7 DEF Skips, GoesOn, KindInv, AfterReads, Kinds
<1>8. CASE Asked(j)
  BY <1>1, <1>8 DEF Asked, KeepsFiles, GoesOn, KindInv, Kinds
<1>9. CASE Opens(j)
  BY <1>1, <1>9 DEF Opens, KeepsFiles, GoesOn, KindInv
<1>10. CASE Locks(j)
  BY <1>1, <1>10 DEF Locks, KeepsFiles, GoesOn, KindInv
<1>11. CASE Checks(j)
  BY <1>1, <1>11 DEF Checks, KeepsFiles, GoesOn, KindInv
<1>12. CASE TurnsBack(j)
  <2>1. job[j].step # "verify" => job[j].at \in 1 .. Len(job[j].files)
    BY <1>12, JobFacts DEF TurnsBack
  <2>2. job[j].step # "verify" => job[j].kind \in {"edit", "symbol"}
    BY <1>1, <1>12, <2>1 DEF TurnsBack, KindInv, Kinds
  <2> QED BY <1>1, <1>12, <2>2 DEF TurnsBack, KeepsFiles, GoesOn, KindInv
<1>13. CASE Verifies(j)
  BY <1>1, <1>13 DEF Verifies, KeepsFiles, GoesOn, KindInv
<1>14. CASE Compares(j)
  BY <1>1, <1>14 DEF Compares, KeepsFiles, GoesOn, KindInv
<1>15. CASE GivesUp(j)
  BY <1>1, <1>15 DEF GivesUp, KeepsFiles, GoesOn, KindInv
<1>16. CASE Renames(j)
  BY <1>1, <1>16 DEF Renames, KeepsFiles, GoesOn, KindInv
<1>17. CASE Restores(j)
  BY <1>1, <1>17 DEF Restores, KeepsFiles, GoesOn, KindInv
<1> QED BY <1>1, <1>2, <1>3, <1>4, <1>5, <1>6, <1>7, <1>8, <1>9, <1>10, <1>11, <1>12, <1>13,
           <1>14, <1>15, <1>16, <1>17 DEF JobStep, Moves
(* What a job holds and has read only grows by its own steps.               *)
LEMMA HeldGrows ==
    ASSUME Inv, StepFacts, NEW j \in Jobs
    PROVE  \/ job'[j].held = {}
           \/ job'[j].held = job[j].held
           \/ Guards(j) /\ \E g \in Requested(j) \ job[j].held :
                              GuardFree(j, g) /\ job'[j].held = job[j].held \cup {g}
<1>1. JobStep(j)
  BY DEF StepFacts
<1>2. CASE Same(j) \/ Stops(j) \/ Begins(j)
  BY <1>2 DEF Same, Stops, Begins, Idle
<1>3. CASE Guards(j)
  BY <1>3 DEF Guards
<1>4. CASE Reads(j) \/ Skips(j)
  BY <1>4 DEF Reads, Skips
<1>5. CASE Moves(j) \/ Renames(j) \/ Restores(j)
  BY <1>5 DEF Moves, Renames, Restores, KeepsFiles, Asked, Opens, Locks, Checks, TurnsBack,
              Verifies, Compares, GivesUp
<1> QED BY <1>1, <1>2, <1>3, <1>4, <1>5 DEF JobStep

(* A call keeps its number and its kind.                                    *)
LEMMA NumberKept ==
    ASSUME Inv, StepFacts, NEW j \in Jobs, job'[j].step # "idle"
    PROVE  \/ job[j].step # "idle" /\ job'[j].id = job[j].id /\ job'[j].kind = job[j].kind
           \/ Begins(j)
<1>1. JobStep(j)
  BY DEF StepFacts
<1>2. CASE Same(j) \/ Stops(j) \/ Begins(j)
  BY <1>2 DEF Same, Stops, Idle
<1>3. CASE Guards(j) \/ Reads(j) \/ Skips(j)
  BY <1>3 DEF Guards, Reads, Skips, GoesOn
<1>5. CASE Moves(j) \/ Renames(j) \/ Restores(j)
  BY <1>5 DEF Moves, Renames, Restores, KeepsFiles, GoesOn, Asked, Opens, Locks, Checks, TurnsBack,
              Verifies, Compares, GivesUp
<1> QED BY <1>1, <1>2, <1>3, <1>5 DEF JobStep

(* FileLockManager: the guard taken is free among the jobs of the process,  *)
(* and a new call's number is new.                                          *)
LEMMA ApartNext ==
    ASSUME Inv, TypeOK', StepFacts
    PROVE  Apart'
<1>1. Apart /\ home' = home /\ OneMoves
  BY DEF Inv, StepFacts
<1>2. ASSUME NEW j \in Jobs, NEW k \in Jobs, j # k, home[j] = home[k], Same(k)
      PROVE  job'[j].held \cap job'[k].held = {}
  <2>1. job[j].held \cap job[k].held = {} /\ job'[k].held = job[k].held
    BY <1>1, <1>2 DEF Apart, Same
  <2>2. \A g : GuardFree(j, g) => g \notin job[k].held
    BY <1>2 DEF GuardFree
  <2> QED BY <2>1, <2>2, HeldGrows
<1>3. ASSUME NEW j \in Jobs, NEW k \in Jobs, j # k, home[j] = home[k]
      PROVE  job'[j].held \cap job'[k].held = {}
  <2>1. Stops(j) => job'[j].held = {}
    BY DEF Stops, Idle
  <2> QED BY <1>1, <1>2, <1>3, <2>1 DEF OneMoves
<1>4. ASSUME NEW j \in Jobs, NEW k \in Jobs, j # k, job'[j].step # "idle", Same(j) \/ Same(k)
      PROVE  job'[j].id # job'[k].id
  <2>1. \A i \in Jobs : job[i].step = "idle" => job[i].id = 0
    BY DEF Inv, GuardInv, Idle
  <2>2. \A i \in Jobs : job[i].step # "idle" => job[i].id \in 1 .. Len(log) /\ Len(log) \in Nat
    BY JobFacts
  <2>3. Len(log) \in Nat
    BY JobFacts, <1>4
  <2>4. \A i \in Jobs : Stops(i) => job'[i].id = 0
    BY DEF Stops, Idle
  <2>5. Idle.step = "idle"
    BY DEF Idle
  <2>6. \A i \in Jobs : Begins(i) => job'[i].id = Len(log) + 1 /\ ~Same(i)
    BY DEF Begins, Same
  <2>7. \A i \in Jobs : job'[i].step # "idle" =>
          (job'[i].id = Len(log) + 1 /\ ~Same(i)) \/ (job[i].step # "idle" /\ job'[i].id = job[i].id)
    BY <2>6, NumberKept
  <2>8. \A i \in Jobs : job'[i].step = "idle" => job'[i].id = 0
    <3>1. ASSUME NEW i \in Jobs, job'[i].step = "idle" PROVE Same(i) \/ Stops(i)
      <4>1. JobStep(i)
        BY DEF StepFacts
      <4>2. ~GoesOn(i) /\ ~Begins(i)
        BY <3>1 DEF GoesOn, Begins
      <4> QED BY <4>1, <4>2 DEF JobStep, Moves, Guards, Reads, Skips, Renames, Restores, KeepsFiles,
                   Asked, Opens, Locks, Checks, TurnsBack, Verifies, Compares, GivesUp
    <3> QED BY <2>1, <2>4, <3>1 DEF Same
  <2>9. \A i \in Jobs : job'[i].step # "idle" => job'[i].id \in 1 .. Len(log) + 1
    BY <2>2, <2>3, <2>7
  <2>10. CASE job'[k].step = "idle"
    BY <1>4, <2>3, <2>8, <2>9, <2>10
  <2>11. CASE job'[k].step # "idle" /\ job[j].step # "idle" /\ job'[j].id = job[j].id
    <3>1. job'[k].id = job[k].id /\ job[k].step # "idle" => job[k].id # job[j].id
      BY <1>1, <1>4 DEF Apart
    <3>2. job'[k].id = Len(log) + 1 => job'[k].id # job[j].id
      BY <2>2, <2>3, <2>11
    <3> QED BY <2>7, <2>11, <3>1, <3>2
  <2>12. CASE job'[k].step # "idle" /\ job'[j].id = Len(log) + 1 /\ ~Same(j)
    <3>1. Same(k)
      BY <1>4, <2>12
    <3>2. job[k].step # "idle" /\ job'[k].id = job[k].id
      BY <2>7, <2>12, <3>1
    <3> QED BY <2>2, <2>3, <2>12, <3>2
  <2> QED BY <1>4, <2>7, <2>10, <2>11, <2>12
<1>5. ASSUME NEW j \in Jobs, NEW k \in Jobs, j # k, job'[j].step # "idle"
      PROVE  job'[j].id # job'[k].id
  <2>1. ~Stops(j)
    BY <1>5 DEF Stops, Idle
  <2> QED BY <1>1, <1>4, <1>5, <2>1 DEF OneMoves
<1> QED BY <1>1, <1>3, <1>5 DEF Apart
(* A text is read only from the file, by the job that holds the guard.      *)
LEMMA BaseStep ==
    ASSUME Inv, StepFacts, NEW j \in Jobs, NEW f \in Files
    PROVE  \/ job'[j].base[f] = NoView
           \/ job'[j].base[f] = job[j].base[f]
           \/ job[j].step = "read" /\ f = Current(j) /\ job'[j].base[f] = View(f)
<1>1. JobStep(j)
  BY DEF StepFacts
<1>2. CASE Same(j) \/ Stops(j) \/ Begins(j)
  BY <1>2 DEF Same, Stops, Begins, Idle
<1>3. CASE Guards(j) \/ Skips(j)
  BY <1>3 DEF Guards, Skips
<1>4. CASE Reads(j)
  <2>1. job[j].base \in [Files -> Views]
    BY JobFacts DEF Job
  <2> QED BY <1>4, <2>1 DEF Reads
<1>5. CASE Moves(j) \/ Renames(j) \/ Restores(j)
  BY <1>5 DEF Moves, Renames, Restores, KeepsFiles, Asked, Opens, Locks, Checks, TurnsBack,
              Verifies, Compares, GivesUp
<1> QED BY <1>1, <1>2, <1>3, <1>4, <1>5 DEF JobStep

(* No step produces the text of a call that has not begun.                  *)
LEMMA NotYetWritten ==
    ASSUME Inv, TypeOK', StepFacts, NEW id \in (Len(log) + 1) .. MaxCalls
    PROVE  /\ \A f \in Files : disk'[f].text # id /\ \A j \in Jobs : job'[j].base[f].text # id
           /\ \A o \in orphans' : o.text # id
<1>1. NoFutureTexts /\ DiskOK /\ OrphansStep /\ LogOK
  BY TypeParts DEF Inv, StepFacts
<1>2. /\ Len(log) \in Nat /\ MaxCalls \in Nat /\ Torn = -1 /\ NoView.text = Torn
  BY <1>1, Constants DEF LogOK
<1>3. id > Len(log) /\ id # Torn /\ ~(id > MaxCalls)
  BY <1>2
<1>4. /\ \A f \in Files : disk[f].text # id /\ \A j \in Jobs : job[j].base[f].text # id
      /\ \A o \in orphans : o.text # id
  BY <1>1 DEF NoFutureTexts
<1>5. \A j \in Jobs : job[j].step # "idle" => job[j].id # id
  <2>1. \A j \in Jobs : job[j].step # "idle" => job[j].id \in 1 .. Len(log)
    BY JobFacts
  <2> QED BY <1>2, <1>3, <2>1
<1>6. ASSUME NEW f \in Files PROVE disk'[f].text # id
  <2>1. DiskStep(f)
    BY DEF StepFacts
  <2> QED BY <1>3, <1>4, <1>5, <2>1 DEF DiskStep
<1>7. ASSUME NEW f \in Files, NEW j \in Jobs PROVE job'[j].base[f].text # id
  <2>1. View(f).text # id
    BY <1>1, <1>3, <1>4, ViewType
  <2> QED BY <1>2, <1>3, <1>4, <2>1, BaseStep
<1>8. ASSUME NEW o \in orphans' PROVE o.text # id
  BY <1>1, <1>4, <1>5 DEF OrphansStep
<1> QED BY <1>6, <1>7, <1>8

(* ... so the numbers not given out stay unwritten.                         *)
LEMMA FutureNext ==
    ASSUME Inv, TypeOK', StepFacts
    PROVE  NoFutureTexts'
<1>1. Len(log) \in Nat /\ Len(log') \in Nat /\ Len(log) <= Len(log') /\ MaxCalls \in Nat
  BY TypeParts, TypePartsNext, Constants DEF Inv, LogOK, LogStep, StepFacts
<1>2. \A id \in (Len(log') + 1) .. MaxCalls : id \in (Len(log) + 1) .. MaxCalls
  BY <1>1
<1> QED BY <1>2, NotYetWritten DEF NoFutureTexts

(* Who has written a file that only one process, or it and outsiders, write.*)
LEMMA OwnWriter ==
    ASSUME NEW p \in Processes, NEW who, who \in OwnOr(p)
    PROVE  /\ \A q \in Processes, how \in Kinds \cup {"undo"} : who = <<q, how>> => q = p
           /\ \A q : who # <<q, "orphan">>
<1>1. p # 0 /\ \A q \in Processes : q # 0
  BY Constants
<1>2. CASE who \in Own(p)
  BY <1>2 DEF Own, Kinds
<1>3. CASE who = Outsider
  BY <1>1, <1>3 DEF Outsider
<1> QED BY <1>2, <1>3 DEF OwnOr

(* Own names no outsider.                                                   *)
LEMMA NoOutsider ==
    ASSUME NEW p \in Processes
    PROVE  Outsider \notin Own(p) /\ Own(p) \subseteq OwnOr(p)
<1>1. p # 0
  BY Constants
<1> QED BY <1>1 DEF Own, OwnOr, Outsider

(* ... and what such a file may hold after a step.                          *)
LEMMA OwnText ==
    ASSUME Inv, TypeOK', StepFacts, NEW f \in Files, NEW p \in Processes, writers'[f] \subseteq OwnOr(p)
    PROVE  /\ WrittenBy(f, OwnOr(p))
           /\ \/ disk'[f].text = disk[f].text
              \/ \E j \in Jobs : /\ home[j] = p /\ f \in job[j].held /\ Current(j) = f
                                 /\ job[j].step = "rename" /\ (Renames(j) \/ Stops(j))
                                 /\ disk'[f].text = job[j].id
                                 /\ log'[job[j].id].result \in {"working", "applied"}
              \/ \E j \in Jobs : /\ home[j] = p /\ f \in job[j].held /\ Current(j) = f
                                 /\ job[j].step = "restore" /\ (Restores(j) \/ Stops(j))
                                 /\ disk'[f].text = job[j].base[f].text
              \/ Outsider \in writers'[f] /\ disk'[f].text > MaxCalls
<1>1. DiskStep(f)
  BY DEF StepFacts
<1>2. WrittenBy(f, OwnOr(p))
  BY <1>1 DEF DiskStep, WrittenBy
<1>3. ASSUME NEW j \in Jobs, job[j].step = "rename", Renames(j) \/ Stops(j), Current(j) = f,
             disk'[f].text = job[j].id, <<home[j], job[j].kind>> \in writers'[f],
             log'[job[j].id].result \in {"working", "applied"}
      PROVE  /\ home[j] = p /\ f \in job[j].held /\ Current(j) = f
             /\ job[j].step = "rename" /\ (Renames(j) \/ Stops(j))
             /\ disk'[f].text = job[j].id
             /\ log'[job[j].id].result \in {"working", "applied"}
  <2>1. home[j] \in Processes /\ job[j].kind \in Kinds /\ f \in job[j].held
    BY <1>3, JobFacts DEF Job
  <2>2. home[j] = p
    BY <1>3, <2>1, OwnWriter
  <2> QED BY <1>3, <2>1, <2>2
<1>4. ASSUME NEW j \in Jobs, job[j].step = "restore", Restores(j) \/ Stops(j), Current(j) = f,
             disk'[f].text = job[j].base[f].text, <<home[j], "undo">> \in writers'[f]
      PROVE  /\ home[j] = p /\ f \in job[j].held /\ Current(j) = f
             /\ job[j].step = "restore" /\ (Restores(j) \/ Stops(j))
             /\ disk'[f].text = job[j].base[f].text
  <2>1. home[j] \in Processes /\ f \in job[j].held
    BY <1>4, JobFacts
  <2>2. home[j] = p
    BY <1>4, <2>1, OwnWriter
  <2> QED BY <1>4, <2>1, <2>2
<1>5. ASSUME NEW o \in orphans, <<o.by, "orphan">> \in writers'[f] PROVE FALSE
  BY <1>5, OwnWriter
<1> QED BY <1>1, <1>2, <1>3, <1>4, <1>5 DEF DiskStep

(* A file is not written behind the back of the job that holds its guard,   *)
(* by a process that alone writes it.                                       *)
LEMMA Protected ==
    ASSUME Inv, TypeOK', StepFacts, NEW j \in Jobs, NEW f \in job[j].held, f \in Files,
           writers'[f] \subseteq Own(home[j])
    PROVE  /\ WrittenBy(f, Own(home[j]))
           /\ \/ disk'[f].text = disk[f].text
              \/ /\ job[j].step = "rename" /\ (Renames(j) \/ Stops(j)) /\ Current(j) = f
                 /\ disk'[f].text = job[j].id
              \/ job[j].step = "restore" /\ (Restores(j) \/ Stops(j)) /\ Current(j) = f
<1>1. home[j] \in Processes /\ Apart
  BY JobFacts DEF Inv
<1>2. writers'[f] \subseteq OwnOr(home[j]) /\ Outsider \notin writers'[f]
  BY <1>1, NoOutsider
<1>3. WrittenBy(f, Own(home[j]))
  BY DEF StepFacts, DiskStep, WrittenBy
<1>4. ASSUME NEW k \in Jobs, home[k] = home[j], f \in job[k].held PROVE k = j
  BY <1>1, <1>4 DEF Apart
<1> QED BY <1>1, <1>2, <1>3, <1>4, OwnText
(* The files to be undone stay so until they are restored, and a file that  *)
(* is written becomes one of them.                                          *)
LEMMA PendingKept ==
    ASSUME Inv, StepFacts, NEW j \in Jobs, GoesOn(j), job'[j].clean, NEW i \in Pending(j)
    PROVE  \/ \E m \in Pending(j)' : job'[j].files[m] = job[j].files[i]
           \/ Restores(j) /\ i = job[j].at
<1>1. JobStep(j) /\ Len(job[j].files) \in Nat /\ job[j].at \in Nat
      /\ DOMAIN job[j].files = 1 .. Len(job[j].files)
  BY JobFacts DEF StepFacts
<1>2. job[j].step \notin {"idle", "guards", "publish"} => job[j].at \in 1 .. Len(job[j].files)
  BY JobFacts
<1>3. job[j].step \in {"open", "lock", "check", "rename", "verify", "publish", "undo", "restore"}
  BY DEF Pending
<1>4. CASE Same(j)
  BY <1>4 DEF Same, Pending
<1>5. CASE Stops(j) \/ Begins(j) \/ Guards(j) \/ Reads(j) \/ Skips(j) \/ Asked(j)
  <2>1. ~Stops(j)
    BY DEF Stops, GoesOn, Idle
  <2> QED BY <1>3, <1>5, <2>1 DEF Begins, Guards, Reads, Skips, Asked
<1>6. CASE Opens(j) \/ Locks(j) \/ Checks(j) \/ Compares(j)
  BY <1>6 DEF Opens, Locks, Checks, Compares, KeepsFiles, Pending
<1>7. CASE TurnsBack(j)
  <2>1. job'[j].files = job[j].files /\ Pending(j)' = 1 .. job'[j].at
    BY <1>7 DEF TurnsBack, KeepsFiles, Pending
  <2>2. CASE job[j].step = "verify"
    BY <1>1, <1>7, <2>1, <2>2 DEF TurnsBack, Pending
  <2>3. CASE job[j].step # "verify"
    BY <1>1, <1>7, <2>1, <2>3 DEF TurnsBack, Pending
  <2> QED BY <2>2, <2>3
<1>8. CASE Verifies(j)
  BY <1>8 DEF Verifies, KeepsFiles, Pending
<1>9. CASE GivesUp(j)
  BY <1>9 DEF GivesUp
<1>10. CASE Renames(j)
  <2>1. job'[j].files = job[j].files /\ i \in 1 .. job[j].at - 1
    BY <1>10 DEF Renames, KeepsFiles, Pending
  <2>2. CASE job'[j].step = "verify"
    <3>1. Pending(j)' = DOMAIN job[j].files
      BY <2>1, <2>2 DEF Pending
    <3>2. i \in DOMAIN job[j].files
      BY <1>1, <1>2, <1>10, <2>1 DEF Renames
    <3> QED BY <2>1, <3>1, <3>2
  <2>3. CASE job'[j].step # "verify"
    <3>1. Pending(j)' = 1 .. job[j].at
      BY <1>1, <1>10, <2>3 DEF Renames, Pending
    <3>2. i \in 1 .. job[j].at
      BY <1>1, <2>1
    <3> QED BY <2>1, <3>1, <3>2
  <2> QED BY <2>2, <2>3
<1>11. CASE Restores(j)
  <2>1. /\ job'[j].files = job[j].files /\ i \in 1 .. job[j].at
        /\ Pending(j)' = 1 .. job[j].at - 1
    BY <1>11 DEF Restores, KeepsFiles, Pending
  <2>2. i # job[j].at => i \in 1 .. job[j].at - 1
    BY <1>1, <2>1
  <2> QED BY <1>11, <2>1, <2>2
<1> QED BY <1>1, <1>4, <1>5, <1>6, <1>7, <1>8, <1>9, <1>10, <1>11 DEF JobStep, Moves

(* The file just written is one of those to be undone.                      *)
LEMMA WrittenIsPending ==
    ASSUME Inv, NEW j \in Jobs, Renames(j)
    PROVE  \E m \in Pending(j)' : job'[j].files[m] = Current(j)
<1>1. /\ Len(job[j].files) \in Nat /\ job[j].at \in 1 .. Len(job[j].files)
      /\ DOMAIN job[j].files = 1 .. Len(job[j].files)
  BY JobFacts DEF Renames
<1>2. job'[j].files = job[j].files /\ Current(j) = job[j].files[job[j].at]
  BY DEF Renames, KeepsFiles, Current
<1>3. CASE job'[j].step = "verify"
  BY <1>1, <1>2, <1>3 DEF Pending
<1>4. CASE job'[j].step # "verify"
  <2>1. Pending(j)' = 1 .. job[j].at
    BY <1>1, <1>4 DEF Renames, Pending
  <2> QED BY <1>1, <1>2, <2>1
<1> QED BY <1>3, <1>4

(* A call's text stays where the call can undo it: guards keep the other    *)
(* jobs of the process from reading or writing over it, and a restore puts  *)
(* back a text that is not the call's own.                                  *)
LEMMA TextNext ==
    ASSUME Inv, TypeOK', StepFacts, NEW j \in Jobs
    PROVE  TextInv(j)'
<1> SUFFICES ASSUME NEW f \in Files, job'[j].step # "idle", writers'[f] \subseteq OwnOr(home[j])
             PROVE  /\ disk'[f].text = job'[j].id => f \in job'[j].held
                    /\ disk'[f].text = job'[j].id /\ job'[j].clean =>
                          \E i \in Pending(j)' : job'[j].files[i] = f
                    /\ \A k \in Jobs : home[k] = home[j] => job'[k].base[f].text # job'[j].id
  BY DEF TextInv, WrittenBy, StepFacts
<1>1. /\ home[j] \in Processes /\ JobStep(j) /\ OneMoves /\ Apart /\ DiskOK
      /\ MaxCalls \in Nat /\ Torn = -1 /\ NoView.text = Torn
  BY JobFacts, TypeParts, Constants DEF Inv, StepFacts
<1>2. WrittenBy(f, OwnOr(home[j]))
  BY <1>1, OwnText
<1>3. CASE Begins(j)
  <2>1. job'[j].id = Len(log) + 1 /\ Len(log') = Len(log) + 1
    BY <1>3 DEF Begins
  <2>2. Len(log) \in Nat /\ Len(log) + 1 <= MaxCalls
    BY <2>1, TypeParts, TypePartsNext DEF LogOK, Inv
  <2>3. job'[j].id \in (Len(log) + 1) .. MaxCalls
    BY <1>1, <2>1, <2>2
  <2> QED BY <2>3, NotYetWritten
<1>4. CASE ~Begins(j)
  <2>1. job[j].step # "idle" /\ job'[j].id = job[j].id
    BY <1>4, NumberKept
  <2> DEFINE id == job[j].id
  <2>2. /\ disk[f].text = id => f \in job[j].held
        /\ disk[f].text = id /\ job[j].clean => \E i \in Pending(j) : job[j].files[i] = f
        /\ \A k \in Jobs : home[k] = home[j] => job[k].base[f].text # id
    BY <1>2, <2>1 DEF Inv, TextInv
  <2>3. id \in 1 .. MaxCalls
    BY <2>1, JobFacts
  <2>4. ~Stops(j) /\ (Same(j) \/ GoesOn(j))
    <3>1. ~Stops(j)
      BY DEF Stops, Idle
    <3>2. job[j].step # "idle" /\ job'[j].step # "idle"
      BY <2>1
    <3> QED BY <1>1, <1>4, <3>1, <3>2 DEF JobStep, Guards, Reads, Skips, Moves, Renames, Restores,
               KeepsFiles, Asked, Opens, Locks, Checks, TurnsBack, Verifies, Compares, GivesUp
  <2>5. GoesOn(j)
    BY <2>1, <2>4 DEF Same, GoesOn
  <2>6. disk'[f].text = id =>
           disk[f].text = id \/ (Renames(j) /\ f = Current(j) /\ f \in job[j].held)
    <3>1. ASSUME NEW k \in Jobs, job[k].step = "rename", Renames(k) \/ Stops(k), disk'[f].text = job[k].id,
                 disk'[f].text = id, f \in job[k].held, Current(k) = f
          PROVE  Renames(j) /\ f = Current(j) /\ f \in job[j].held
      <4>1. k = j
        BY <1>1, <2>1, <3>1 DEF Apart
      <4> QED BY <2>4, <3>1, <4>1
    <3>2. ASSUME NEW k \in Jobs, home[k] = home[j], disk'[f].text = job[k].base[f].text
          PROVE  disk'[f].text # id
      BY <2>2, <3>2
    <3>3. ~(disk'[f].text = id /\ disk'[f].text > MaxCalls)
      BY <1>1, <2>3
    <3> HIDE DEF id
    <3> QED BY <1>1, <3>1, <3>2, <3>3, OwnText
  <2>7. job[j].held \subseteq job'[j].held
    <3>1. job'[j].held = {} => job[j].held = {}
      BY <1>1, <1>4, <2>4 DEF JobStep, Same, Guards, Reads, Skips, Moves, Renames, Restores,
               KeepsFiles, Asked, Opens, Locks, Checks, TurnsBack, Verifies, Compares, GivesUp
    <3> QED BY <3>1, HeldGrows
  <2>8. disk'[f].text = id => f \in job'[j].held
    BY <2>2, <2>6, <2>7
  <2>9. disk'[f].text = id /\ job'[j].clean => \E i \in Pending(j)' : job'[j].files[i] = f
    <3> SUFFICES ASSUME disk'[f].text = id, job'[j].clean
                 PROVE  \E i \in Pending(j)' : job'[j].files[i] = f
      OBVIOUS
    <3>1. CASE Renames(j) /\ f = Current(j)
      BY <3>1, WrittenIsPending
    <3>2. CASE disk[f].text = id
      <4>1. job[j].clean
        BY <1>1, <1>4, <2>4 DEF JobStep, Same, Guards, Reads, Skips, Moves, Renames, Restores,
               Asked, Opens, Locks, Checks, TurnsBack, Verifies, Compares, GivesUp
      <4>2. PICK i \in Pending(j) : job[j].files[i] = f
        BY <2>2, <3>2, <4>1
      <4>3. ~(Restores(j) /\ i = job[j].at)
        <5> SUFFICES ASSUME Restores(j), i = job[j].at PROVE FALSE
          OBVIOUS
        <5>1. f = Current(j) /\ disk'[f].text = job[j].base[f].text
          BY <4>2 DEF Restores, Current
        <5> QED BY <2>2, <5>1
      <4> QED BY <2>5, <4>2, <4>3, PendingKept
    <3> QED BY <2>6, <3>1, <3>2
  <2>10. ASSUME NEW k \in Jobs, home[k] = home[j] PROVE job'[k].base[f].text # id
    <3>1. Torn # id
      BY <1>1, <2>3
    <3>2. CASE job[k].step = "read" /\ f = Current(k) /\ job'[k].base[f] = View(f)
      <4> SUFFICES ASSUME disk[f].text = id PROVE FALSE
        BY <1>1, <3>1, <3>2, ViewType
      <4>1. f \in job[j].held /\ f \in job[k].held
        BY <2>2, <3>2, JobFacts
      <4>2. k = j
        BY <1>1, <2>10, <4>1 DEF Apart
      <4>3. job[j].clean /\ Pending(j) = {}
        BY <3>2, <4>2 DEF Inv, KindInv, Pending
      <4> QED BY <2>2, <4>3
    <3> QED BY <1>1, <2>2, <2>10, <3>1, <3>2, BaseStep
  <2> QED BY <2>1, <2>8, <2>9, <2>10
<1> QED BY <1>3, <1>4
(* A call that ends with nothing left had written nothing or has restored   *)
(* all, and nobody of the process has read its text.                        *)
LEMMA NoneLeftNext ==
    ASSUME Inv, TypeOK', StepFacts
    PROVE  NoneLeft'
<1> SUFFICES ASSUME NEW id \in DOMAIN log', log'[id].result \in {"undone", "denied", "refused"},
                    NEW f \in Files, writers'[f] \subseteq OwnOr(log'[id].by)
             PROVE  /\ disk'[f].text # id
                    /\ \A k \in Jobs : home[k] = log'[id].by => job'[k].base[f].text # id
  BY DEF NoneLeft, WrittenBy, StepFacts
<1>1. LogStep /\ OneMoves /\ DiskOK /\ LogOK /\ LogOK' /\ NoneLeft
  BY TypeParts, TypePartsNext DEF Inv, StepFacts
<1>2. /\ id \in DOMAIN log /\ id \in 1 .. MaxCalls /\ MaxCalls \in Nat
      /\ Torn = -1 /\ NoView.text = Torn
  <2>1. /\ Len(log) \in Nat /\ Len(log') \in Nat /\ DOMAIN log = 1 .. Len(log)
        /\ DOMAIN log' = 1 .. Len(log') /\ Len(log') <= MaxCalls /\ MaxCalls \in Nat
    BY <1>1, Constants DEF LogOK
  <2>2. id # Len(log) + 1 \/ Len(log') = Len(log)
    BY <1>1, <2>1 DEF LogStep
  <2>3. Len(log') \in {Len(log), Len(log) + 1}
    BY <1>1 DEF LogStep
  <2>4. id \in 1 .. Len(log)
    <3>1. CASE Len(log') = Len(log)
      <4>1. 1 .. Len(log') = 1 .. Len(log)
        BY <3>1
      <4> QED BY <2>1, <4>1
    <3>2. CASE Len(log') = Len(log) + 1
      <4>1. id # Len(log) + 1
        <5>1. \A n \in Nat : n + 1 # n
          OBVIOUS
        <5>2. Len(log) + 1 # Len(log)
          BY <2>1, <5>1
        <5> QED BY <2>2, <3>2, <5>2
      <4>2. id \in 1 .. Len(log) + 1
        BY <2>1, <3>2
      <4> QED BY <2>1, <4>1, <4>2
    <3> QED BY <2>3, <3>1, <3>2
  <2>5. id \in 1 .. MaxCalls
    BY <2>1
  <2> QED BY <2>1, <2>4, <2>5, Constants
<1> DEFINE p == log[id].by
<1>3. log'[id].by = p /\ p \in Processes
  <2>1. log[id] \in Call
    BY <1>1, <1>2 DEF LogOK
  <2>2. log'[id].by = p
    BY <1>1, <1>2 DEF LogStep
  <2> QED BY <2>1, <2>2 DEF Call
<1>4. WrittenBy(f, OwnOr(p))
  BY <1>3, OwnText
<1>5. id # Torn /\ ~(id > MaxCalls)
  BY <1>2
<1>6. CASE log'[id].result = log[id].result
  <2>1. /\ disk[f].text # id
        /\ \A k \in Jobs : home[k] = p => job[k].base[f].text # id
    BY <1>1, <1>2, <1>4, <1>6 DEF NoneLeft
  <2>2. disk'[f].text # id
    BY <1>3, <1>5, <2>1, OwnText
  <2>3. View(f).text # id
    BY <1>1, <1>5, <2>1, ViewType
  <2>4. ASSUME NEW k \in Jobs, home[k] = p PROVE job'[k].base[f].text # id
    BY <1>2, <1>5, <2>1, <2>3, <2>4, BaseStep
  <2> QED BY <1>3, <2>2, <2>4
<1>7. CASE log'[id].result # log[id].result
  <2>1. PICK j \in Jobs : job[j].id = id /\ job[j].step # "idle" /\ Stops(j) /\ Clear(j)
    BY <1>1, <1>2, <1>7 DEF LogStep
  <2>2. home[j] = p
    BY <2>1, JobFacts
  <2>3. /\ disk[f].text = id /\ job[j].clean => \E i \in Pending(j) : job[j].files[i] = f
        /\ \A k \in Jobs : home[k] = p => job[k].base[f].text # id
    BY <1>4, <2>1, <2>2 DEF Inv, TextInv
  <2>4. disk'[f].text # id
    <3>1. CASE job[j].step \notin {"undo", "restore"} /\ Pending(j) = {} /\ disk' = disk
      <4>1. job[j].clean
        BY <3>1 DEF Inv, KindInv
      <4> QED BY <2>3, <3>1, <4>1
    <3>2. CASE /\ job[j].step = "restore" /\ job[j].at = 1 /\ job[j].clean
               /\ disk'[Current(j)].text = job[j].base[Current(j)].text
      <4>1. Pending(j) = {1}
        BY <3>2 DEF Pending
      <4>2. disk[f].text = id => f = Current(j)
        BY <2>3, <3>2, <4>1 DEF Current
      <4>3. f = Current(j) => disk'[f].text # id
        BY <2>2, <2>3, <3>2
      <4>4. ASSUME NEW k \in Jobs, job[k].step = "rename" PROVE job[k].id # id
        <5>1. k # j
          BY <3>2, <4>4
        <5> QED BY <2>1, <5>1 DEF Inv, Apart
      <4> QED BY <1>3, <1>5, <2>3, <4>2, <4>3, <4>4, OwnText
    <3> QED BY <2>1, <3>1, <3>2 DEF Clear
  <2>5. ASSUME NEW k \in Jobs, home[k] = p PROVE job'[k].base[f].text # id
    <3>1. \A i \in Jobs : Stops(i) => job'[i].base[f].text = Torn
      BY <1>2 DEF Stops, Idle
    <3>2. ~Same(j)
      BY <2>1 DEF Same, Stops, Idle
    <3>3. Stops(k) \/ Same(k)
      BY <1>1, <2>1, <3>2 DEF OneMoves
    <3> QED BY <1>5, <2>3, <2>5, <3>1, <3>3 DEF Same
  <2> QED BY <1>3, <2>4, <2>5
<1> QED BY <1>6, <1>7

(* What an edit has written stays until it is undone: the guards keep the   *)
(* others of its process out.                                               *)
LEMMA WrittenNext ==
    ASSUME Inv, TypeOK', StepFacts, NEW j \in Jobs
    PROVE  WrittenInv(j)'
<1> SUFFICES ASSUME job'[j].kind = "edit", job'[j].step \notin {"idle", "undo", "restore"},
                    NEW i \in Pending(j)'
             PROVE  /\ <<home[j], "edit">> \in writers'[job'[j].files[i]]
                    /\ writers'[job'[j].files[i]] \subseteq Own(home[j]) =>
                          disk'[job'[j].files[i]].text = job'[j].id
  BY DEF WrittenInv, WrittenBy, StepFacts
<1> DEFINE f == job'[j].files[i]
<1>1. JobStep(j) /\ Len(job[j].files) \in Nat /\ job[j].at \in Nat
      /\ DOMAIN job[j].files = 1 .. Len(job[j].files)
  BY JobFacts DEF StepFacts
<1>2. job'[j].step \in {"open", "lock", "check", "rename", "verify", "publish"}
  BY DEF Pending
<1>3. ~Begins(j)
  BY <1>2 DEF Begins
<1>4. job[j].step # "idle" /\ job'[j].id = job[j].id /\ job[j].kind = "edit"
  BY <1>3, NumberKept
<1>5. \/ i \in Pending(j) /\ job'[j].files = job[j].files
         /\ job[j].step \notin {"idle", "guards", "undo", "restore"}
      \/ Renames(j) /\ f = Current(j)
  <2>1. CASE Same(j)
    BY <1>2, <2>1 DEF Same, Pending
  <2>2. CASE Stops(j) \/ Begins(j)
    BY <1>2, <1>3, <2>2 DEF Stops, Idle
  <2>3. CASE Guards(j) \/ Reads(j) \/ Skips(j)
    BY <1>2, <1>4, <2>3 DEF Guards, Reads, Skips, AfterGuards, AfterReads
  <2>4. CASE Asked(j)
    <3>1. job'[j].at = 1 /\ job'[j].step = "open"
      BY <1>4, <2>4 DEF Asked
    <3>2. Pending(j)' = {}
      BY <3>1 DEF Pending
    <3> QED BY <3>2
  <2>5. CASE Opens(j) \/ Locks(j) \/ Checks(j) \/ Verifies(j)
    BY <2>5 DEF Opens, Locks, Checks, Verifies, KeepsFiles, Pending
  <2>6. CASE TurnsBack(j) \/ Compares(j) \/ GivesUp(j) \/ Restores(j)
    BY <1>2, <2>6 DEF TurnsBack, Compares, GivesUp, Restores
  <2>7. CASE Renames(j)
    <3>1. /\ job'[j].files = job[j].files /\ Pending(j) = 1 .. job[j].at - 1
          /\ job[j].at \in 1 .. Len(job[j].files) /\ job[j].step = "rename"
      BY <2>7, JobFacts DEF Renames, KeepsFiles, Pending
    <3>2. Pending(j)' = 1 .. job[j].at
      <4>1. CASE job'[j].step = "verify"
        <5>1. Len(job[j].files) = job[j].at
          BY <2>7, <4>1 DEF Renames, LastFile
        <5> QED BY <1>1, <3>1, <4>1, <5>1 DEF Pending
      <4>2. CASE job'[j].step # "verify"
        <5>1. job'[j].step = "open" /\ job'[j].at = job[j].at + 1
          BY <1>4, <2>7, <4>2 DEF Renames
        <5> QED BY <1>1, <5>1 DEF Pending
      <4> QED BY <4>1, <4>2
    <3>3. i \in 1 .. job[j].at - 1 \/ i = job[j].at
      BY <1>1, <3>2
    <3>4. i = job[j].at => f = Current(j)
      BY <3>1 DEF Current
    <3> QED BY <2>7, <3>1, <3>3, <3>4
  <2> QED BY <1>1, <2>1, <2>2, <2>3, <2>4, <2>5, <2>6, <2>7 DEF JobStep, Moves
<1>6. CASE Renames(j) /\ f = Current(j)
  BY <1>4, <1>6 DEF Renames
<1>7. CASE /\ i \in Pending(j) /\ job'[j].files = job[j].files
           /\ job[j].step \notin {"idle", "guards", "undo", "restore"}
  <2>1. /\ <<home[j], "edit">> \in writers[f]
        /\ WrittenBy(f, Own(home[j])) => disk[f].text = job[j].id
    BY <1>4, <1>7 DEF Inv, WrittenInv
  <2>2. i \in DOMAIN job[j].files
    <3>1. job[j].step # "publish" => job[j].at \in 1 .. Len(job[j].files)
      BY <1>7, JobFacts
    <3> QED BY <1>1, <1>7, <3>1 DEF Pending
  <2>3. f \in Files /\ f \in job[j].held
    <3>1. f \in Requested(j) /\ Requested(j) \subseteq Files
      BY <1>7, <2>2, JobFacts DEF Requested
    <3> QED BY <1>7, <3>1 DEF Inv, GuardInv
  <2>4. <<home[j], "edit">> \in writers'[f]
    BY <2>1, <2>3 DEF StepFacts, DiskStep
  <2>5. writers'[f] \subseteq Own(home[j]) => disk'[f].text = job[j].id
    BY <1>7, <2>1, <2>3, Protected
  <2> QED BY <1>4, <2>4, <2>5
<1> QED BY <1>5, <1>6, <1>7

(* What was compared is still there at the rename, and what is restored is  *)
(* the call's own text.                                                     *)
LEMMA ReadyNext ==
    ASSUME Inv, TypeOK', StepFacts, NEW j \in Jobs
    PROVE  ReadyInv(j)'
<1>1. JobStep(j) /\ home' = home /\ ReadyInv(j) /\ DiskOK
  BY TypeParts DEF StepFacts, Inv
<1>2. ASSUME job'[j].step = "rename", job'[j].kind # "write",
             writers'[Current(j)'] \subseteq Own(home[j])
      PROVE  job'[j].base[Current(j)'].text \in {Torn, disk'[Current(j)'].text}
  <2>1. Same(j) \/ Checks(j)
    BY <1>1, <1>2 DEF JobStep, Stops, Begins, Guards, Reads, Skips, Moves, Renames, Restores, KeepsFiles,
           GoesOn, AfterGuards, AfterReads,
           Asked, Opens, Locks, TurnsBack, Verifies, Compares, GivesUp, Idle
  <2>2. Current(j)' = Current(j) /\ job'[j].base = job[j].base /\ job'[j].kind = job[j].kind
    BY <2>1 DEF Same, Checks, KeepsFiles, GoesOn, Current
  <2> DEFINE f == Current(j)
  <2>3. job[j].step \in {"check", "rename"}
    BY <1>2, <2>1 DEF Same, Checks
  <2>4. f \in Files /\ f \in job[j].held
    BY <2>3, JobFacts
  <2>5. WrittenBy(f, Own(home[j])) /\ disk'[f].text = disk[f].text
    <3>1. ~(job[j].step = "rename" /\ (Renames(j) \/ Stops(j)))
      BY <1>2 DEF Renames, Stops, Idle
    <3>2. job[j].step # "restore"
      BY <2>3
    <3> QED BY <1>2, <2>2, <2>4, <3>1, <3>2, Protected
  <2>6. CASE Same(j)
    BY <1>1, <1>2, <2>2, <2>5, <2>6 DEF ReadyInv, Same
  <2>7. CASE Checks(j)
    <3>1. job[j].base[f].text = Content(f)
      BY <2>7 DEF Checks, Unchanged
    <3> QED BY <1>1, <2>2, <2>4, <2>5, <3>1, ViewType
  <2> QED BY <2>1, <2>6, <2>7
<1>3. ASSUME job'[j].step = "restore", writers'[Current(j)'] \subseteq Own(home[j])
      PROVE  disk'[Current(j)'].text = job'[j].id
  <2>1. Same(j) \/ Compares(j)
    BY <1>1, <1>3 DEF JobStep, Stops, Begins, Guards, Reads, Skips, Moves, Renames, Restores, KeepsFiles,
           GoesOn, AfterGuards, AfterReads,
           Asked, Opens, Locks, Checks, TurnsBack, Verifies, GivesUp, Idle
  <2>2. Current(j)' = Current(j) /\ job'[j].id = job[j].id
    BY <2>1 DEF Same, Compares, KeepsFiles, GoesOn, Current
  <2> DEFINE f == Current(j)
  <2>3. job[j].step \in {"undo", "restore"}
    BY <1>3, <2>1 DEF Same, Compares
  <2>4. f \in Files /\ f \in job[j].held /\ job[j].id \in 1 .. MaxCalls
    BY <2>3, JobFacts
  <2>5. WrittenBy(f, Own(home[j])) /\ disk'[f].text = disk[f].text
    <3>1. ~(Restores(j) \/ Stops(j))
      BY <1>3 DEF Restores, Stops, Idle
    <3>2. job[j].step # "rename"
      BY <2>3
    <3> QED BY <1>3, <2>2, <2>4, <3>1, <3>2, Protected
  <2>6. CASE Same(j)
    BY <1>1, <1>3, <2>2, <2>5, <2>6 DEF ReadyInv, Same
  <2>7. CASE Compares(j)
    <3>1. Content(f) = job[j].id
      BY <2>7 DEF Compares, StillOurs
    <3>2. job[j].id # Torn
      BY <2>4, Constants
    <3> QED BY <1>1, <2>2, <2>4, <2>5, <3>1, <3>2, ViewType
  <2> QED BY <2>1, <2>6, <2>7
<1> QED BY <1>1, <1>2, <1>3 DEF ReadyInv, WrittenBy
(* Which steps lead to the lock and keep it.                                *)
LEMMA LockSteps ==
    ASSUME Inv, TypeOK', StepFacts, NEW j \in Jobs, job'[j].kind = "edit",
           job'[j].step \in {"lock", "check", "rename"}
    PROVE  /\ Same(j) \/ Opens(j) \/ Locks(j) \/ Checks(j)
           /\ Current(j)' = Current(j) /\ job'[j].base = job[j].base /\ job[j].kind = "edit"
           /\ Current(j) \in Files
           /\ ~Opens(j) => job'[j].node = job[j].node
<1>1. JobStep(j)
  BY DEF StepFacts
<1>2. Same(j) \/ Opens(j) \/ Locks(j) \/ Checks(j)
  BY <1>1 DEF JobStep, Stops, Begins, Guards, Reads, Skips, Moves, Renames, Restores, KeepsFiles,
        GoesOn, AfterGuards, AfterReads, Asked, TurnsBack, Verifies, Compares, GivesUp, Idle
<1>3. Current(j)' = Current(j) /\ job'[j].base = job[j].base /\ job[j].kind = "edit"
  BY <1>2 DEF Same, Opens, Locks, Checks, KeepsFiles, GoesOn, Current
<1>4. ~Opens(j) => job'[j].node = job[j].node
  BY <1>2 DEF Same, Locks, Checks
<1>5. job[j].step \in {"open", "lock", "check", "rename"}
  BY <1>2 DEF Same, Opens, Locks, Checks
<1> QED BY <1>2, <1>3, <1>4, <1>5, JobFacts

(* Nobody replaces a file that only edits write, while another has the lock *)
(* on what is there.                                                        *)
LEMMA LockedKept ==
    ASSUME Inv, TypeOK', StepFacts, NEW j \in Jobs, NEW f \in Files, f = Current(j),
           writers'[f] \subseteq Processes \X {"edit"},
           \/ Same(j) /\ job[j].step = "rename" /\ job[j].kind = "edit"
           \/ Checks(j)
    PROVE  OnlyEdits(f) /\ disk'[f].text = disk[f].text /\ disk'[f].node = disk[f].node
<1>1. DiskStep(f) /\ OneMoves
  BY DEF StepFacts
<1>2. OnlyEdits(f)
  BY <1>1 DEF DiskStep, OnlyEdits, WrittenBy
<1>3. ASSUME NEW k \in Jobs, job[k].step = "rename", Renames(k) \/ Stops(k), Current(k) = f,
             <<home[k], job[k].kind>> \in writers'[f]
      PROVE  FALSE
  <2>1. job[k].kind = "edit"
    BY <1>3
  <2>2. ~Same(k)
    BY <1>3 DEF Renames, Stops, Same, Idle
  <2>3. CASE Checks(j)
    <3>1. j # k /\ ~Same(j) /\ ~Stops(j)
      BY <1>3, <2>3 DEF Checks, Same, Stops, Idle
    <3> QED BY <1>1, <2>2, <3>1 DEF OneMoves
  <2>4. CASE Same(j) /\ job[j].step = "rename" /\ job[j].kind = "edit"
    <3>1. job[j].node = disk[f].node /\ job[k].node = disk[f].node
      BY <1>2, <1>3, <2>1, <2>4 DEF Inv, LockInv
    <3>2. Holds(j, Current(j), job[j].node) /\ Holds(k, Current(j), job[j].node)
      BY <1>3, <2>1, <2>4, <3>1 DEF Holds
    <3>3. j = k
      BY <3>2 DEF Inv, LocksApart
    <3> QED BY <2>2, <2>4, <3>3
  <2> QED BY <2>3, <2>4
<1>4. ASSUME NEW k \in Jobs, <<home[k], "undo">> \in writers'[f] PROVE FALSE
  BY <1>4
<1>5. Outsider \notin writers'[f]
  BY DEF Outsider
<1>6. ASSUME NEW o \in orphans, <<o.by, "orphan">> \in writers'[f] PROVE FALSE
  BY <1>6
<1> QED BY <1>1, <1>2, <1>3, <1>4, <1>5, <1>6 DEF DiskStep

(* The inode that was locked is the one compared, so among edits it is the  *)
(* one replaced.                                                            *)
LEMMA LockNext ==
    ASSUME Inv, TypeOK', StepFacts, NEW j \in Jobs
    PROVE  LockInv(j)'
<1>1. LockInv(j) /\ DiskOK /\ DiskOK' /\ JobsOK
  BY TypeParts, TypePartsNext DEF Inv
<1>2. \A f \in Files : /\ disk[f].node \in Nat /\ disk'[f].node \in Nat
                      /\ disk[f].node <= disk'[f].node
                      /\ job[j].base[f].node \in Int
  <2>1. \A f \in Files : job[j].base[f] \in Views
    BY <1>1, BaseText DEF JobsOK
  <2> QED BY <1>1, <2>1, Constants DEF DiskOK, File, StepFacts, DiskStep, Views
<1>3. job[j].node \in Int
  BY JobFacts DEF Job
<1>4. ASSUME NEW f \in Files PROVE job'[j].base[f].node <= disk'[f].node
  <2>1. job[j].base[f].node <= disk[f].node /\ NoView.node = -1 /\ View(f).node = disk[f].node
    BY <1>1, ViewType, Constants DEF LockInv
  <2> QED BY <1>2, <2>1, BaseStep
<1>5. ASSUME job'[j].kind = "edit", job'[j].step \in {"lock", "check", "rename"}
      PROVE  /\ job'[j].base[Current(j)'].node <= job'[j].node
             /\ job'[j].node <= disk'[Current(j)'].node
  <2>1. CASE Opens(j)
    <3>1. job'[j].node = disk[Current(j)].node
      BY <2>1 DEF Opens
    <3>2. job[j].base[Current(j)].node <= disk[Current(j)].node
      BY <1>1, <1>5, LockSteps DEF LockInv
    <3> QED BY <1>2, <1>5, <3>1, <3>2, LockSteps
  <2>2. CASE ~Opens(j)
    <3>1. job[j].step \in {"lock", "check", "rename"}
      BY <1>5, <2>2, LockSteps DEF Same, Locks, Checks
    <3>2. job[j].base[Current(j)].node <= job[j].node /\ job[j].node <= disk[Current(j)].node
      BY <1>1, <1>5, <3>1, LockSteps DEF LockInv
    <3> QED BY <1>2, <1>3, <1>5, <2>2, <3>2, LockSteps
  <2> QED BY <2>1, <2>2
<1>6. ASSUME job'[j].kind = "edit", job'[j].step = "rename",
             writers'[Current(j)'] \subseteq Processes \X {"edit"}
      PROVE  /\ job'[j].node = disk'[Current(j)'].node
             /\ job'[j].base[Current(j)'].text \in {Torn, disk'[Current(j)'].text}
  <2> DEFINE f == Current(j)
  <2>1. /\ Same(j) \/ Checks(j)
        /\ Current(j)' = f /\ job'[j].base = job[j].base /\ job[j].kind = "edit"
        /\ f \in Files /\ job'[j].node = job[j].node
    BY <1>6, LockSteps DEF Opens, Locks
  <2>2. OnlyEdits(f) /\ disk'[f].text = disk[f].text /\ disk'[f].node = disk[f].node
    BY <1>6, <2>1, LockedKept DEF Same
  <2>3. CASE Same(j)
    BY <1>1, <1>6, <2>1, <2>2, <2>3 DEF LockInv, Same
  <2>4. CASE Checks(j)
    <3>1. View(f) = job[j].base[f] /\ job[j].step = "check"
      BY <2>1, <2>4 DEF Checks, Unchanged
    <3>2. job[j].base[f].node = disk[f].node /\ job[j].base[f].text \in {Torn, disk[f].text}
      BY <1>1, <2>1, <3>1, ViewType
    <3>3. job[j].base[f].node <= job[j].node /\ job[j].node <= disk[f].node
      BY <1>1, <2>1, <3>1 DEF LockInv
    <3>4. job[j].node = disk[f].node
      BY <1>2, <1>3, <2>1, <3>2, <3>3
    <3> QED BY <2>1, <2>2, <3>2, <3>4
  <2> QED BY <2>1, <2>3, <2>4
<1> QED BY <1>4, <1>5, <1>6 DEF LockInv, OnlyEdits, WrittenBy

(* try_lock_exclusive: a lock is taken only when no other job has it.       *)
LEMMA LocksApartNext ==
    ASSUME Inv, TypeOK', StepFacts
    PROVE  LocksApart'
<1> SUFFICES ASSUME NEW j \in Jobs, NEW k \in Jobs, j # k,
                    job'[j].kind = "edit", job'[j].step \in {"check", "rename"},
                    job'[k].kind = "edit", job'[k].step \in {"check", "rename"},
                    Current(k)' = Current(j)', job'[k].node = job'[j].node
             PROVE  FALSE
  BY DEF LocksApart, Holds
<1>1. OneMoves /\ LocksApart
  BY DEF Inv, StepFacts
<1>2. ASSUME NEW i \in {j, k}
      PROVE  /\ Current(i)' = Current(i) /\ job'[i].node = job[i].node
             /\ \/ Holds(i, Current(i), job[i].node)
                \/ Locks(i) /\ LockFree(Current(i), job[i].node)
  <2>1. i \in Jobs /\ job'[i].kind = "edit" /\ job'[i].step \in {"check", "rename"}
    OBVIOUS
  <2>2. ~Opens(i)
    BY <2>1 DEF Opens
  <2>3. Locks(i) => LockFree(Current(i), job[i].node)
    BY DEF Locks
  <2>4. Same(i) \/ Checks(i) => Holds(i, Current(i), job[i].node)
    BY <2>1, LockSteps DEF Same, Checks, Holds
  <2> QED BY <2>1, <2>2, <2>3, <2>4, LockSteps
<1>3. Current(k) = Current(j) /\ job[k].node = job[j].node
  BY <1>2
<1>4. ~(Holds(j, Current(j), job[j].node) /\ Holds(k, Current(j), job[j].node))
  BY <1>1 DEF LocksApart
<1>5. ~(Locks(j) /\ Locks(k))
  BY <1>1 DEF OneMoves, Locks, Same, Stops, Idle
<1> QED BY <1>2, <1>3, <1>4, <1>5 DEF LockFree

(* A text lost at a rename or a restore was in a file others write.         *)
LEMMA LostNext ==
    ASSUME Inv, TypeOK', StepFacts
    PROVE  NoLostUpdate'
<1> SUFFICES ASSUME NEW l \in lost', l.read # Torn
             PROVE  /\ ~ \E p \in Processes : writers'[l.file] \subseteq {p} \X (Kinds \cup {"undo"})
                    /\ l.when = "write" => ~(writers'[l.file] \subseteq Processes \X {"edit"})
  BY DEF NoLostUpdate, InOneProcess, OnlyEdits, WrittenBy
<1>1. NoLostUpdate /\ LostStep /\ LostOK'
  BY TypePartsNext DEF Inv, StepFacts
<1>2. l.file \in Files
  BY <1>1 DEF LostOK, Loss
<1>3. writers[l.file] \subseteq writers'[l.file]
  BY <1>2 DEF StepFacts, DiskStep
<1>4. CASE l \in lost
  BY <1>1, <1>3, <1>4 DEF NoLostUpdate, InOneProcess, OnlyEdits, WrittenBy
<1>5. ASSUME NEW j \in Jobs, l.file = Current(j), job[j].step = "rename", job[j].kind # "write",
             l.when = "write", l.read = job[j].base[l.file].text, disk[l.file].text # l.read,
             <<home[j], job[j].kind>> \in writers'[l.file]
      PROVE  /\ ~ \E p \in Processes : writers'[l.file] \subseteq {p} \X (Kinds \cup {"undo"})
             /\ ~(writers'[l.file] \subseteq Processes \X {"edit"})
  <2>1. ASSUME NEW p \in Processes, writers'[l.file] \subseteq {p} \X (Kinds \cup {"undo"})
        PROVE  FALSE
    <3>1. p = home[j]
      BY <1>5, <2>1
    <3>2. WrittenBy(l.file, Own(home[j]))
      BY <1>3, <2>1, <3>1 DEF WrittenBy, Own
    <3> QED BY <1>5, <3>2 DEF Inv, ReadyInv
  <2>2. ASSUME writers'[l.file] \subseteq Processes \X {"edit"} PROVE FALSE
    <3>1. job[j].kind = "edit"
      BY <1>5, <2>2
    <3>2. OnlyEdits(l.file)
      BY <1>3, <2>2 DEF OnlyEdits, WrittenBy
    <3> QED BY <1>5, <3>1, <3>2 DEF Inv, LockInv
  <2> QED BY <2>1, <2>2
<1>6. ASSUME NEW j \in Jobs, l.file = Current(j), job[j].step = "restore", l.when = "undo",
             disk[l.file].text # job[j].id, <<home[j], "undo">> \in writers'[l.file],
             NEW p \in Processes, writers'[l.file] \subseteq {p} \X (Kinds \cup {"undo"})
      PROVE  FALSE
  <2>1. p = home[j]
    BY <1>6
  <2>2. WrittenBy(l.file, Own(home[j]))
    BY <1>3, <1>6, <2>1 DEF WrittenBy, Own
  <2> QED BY <1>6, <2>2 DEF Inv, ReadyInv
<1>7. CASE l \notin lost
  BY <1>1, <1>5, <1>6, <1>7 DEF LostStep
<1> QED BY <1>4, <1>7
-----------------------------------------------------------------------------
(* The inductive invariant, and what follows from it.                       *)
LEMMA InvInit ==
    ASSUME Init
    PROVE  Inv
<1>1. /\ home \in [Jobs -> Processes]
      /\ disk = [f \in Files |-> [text |-> 0, node |-> 0, whole |-> TRUE]]
      /\ job = [j \in Jobs |-> Idle] /\ log = <<>> /\ orphans = {}
      /\ writers = [f \in Files |-> {}] /\ lost = {}
      /\ outside = 0 /\ stops = 0 /\ cuts = 0
  BY DEF Init
<1>2. Idle \in Job /\ 0 \in Texts /\ MaxCalls \in Nat /\ MaxFaults \in Nat
  BY Constants
<1>3. /\ Idle.step = "idle" /\ Idle.kind = "edit" /\ Idle.id = 0 /\ Idle.files = <<>>
      /\ Idle.held = {} /\ Idle.at = 0 /\ Idle.base = [f \in Files |-> NoView] /\ Idle.clean = TRUE
  BY DEF Idle
<1>4. \A j \in Jobs : job[j] = Idle
  BY <1>1
<1>5. TypeOK
  <2>1. HomeOK /\ JobsOK /\ OrphansOK /\ LostOK /\ WritersOK
    BY <1>1, <1>2 DEF HomeOK, JobsOK, OrphansOK, LostOK, WritersOK
  <2>2. DiskOK
    BY <1>1, <1>2 DEF DiskOK, File
  <2>3. LogOK /\ FaultsOK
    BY <1>1, <1>2 DEF LogOK, FaultsOK, Faults
  <2>4. \A j \in Jobs : AtOK(j)
    BY <1>3, <1>4 DEF AtOK
  <2> QED BY <2>1, <2>2, <2>3, <2>4, TypeParts
<1>6. \A j \in Jobs : GuardInv(j) /\ KindInv(j) /\ TextInv(j) /\ WrittenInv(j) /\ ReadyInv(j)
  BY <1>3, <1>4 DEF GuardInv, KindInv, TextInv, WrittenInv, ReadyInv
<1>7. \A j \in Jobs : LockInv(j)
  <2>1. NoView.node = -1
    BY Constants
  <2> QED BY <1>1, <1>3, <1>4, <2>1 DEF LockInv
<1>8. Apart /\ LocksApart /\ NoLostUpdate
  BY <1>1, <1>3, <1>4 DEF Apart, LocksApart, Holds, NoLostUpdate
<1>9. NoFutureTexts /\ NoneLeft
  <2>1. DOMAIN log = {} /\ Len(log) = 0
    BY <1>1
  <2>2. \A id \in 1 .. MaxCalls : id # 0 /\ id # Torn
    BY <1>2, Constants
  <2>3. \A f \in Files : disk[f].text = 0 /\ \A j \in Jobs : job[j].base[f].text = Torn
    BY <1>1, <1>3, <1>4, Constants
  <2> QED BY <1>1, <2>1, <2>2, <2>3 DEF NoFutureTexts, NoneLeft
<1> QED BY <1>5, <1>6, <1>7, <1>8, <1>9 DEF Inv

(* Every step keeps the invariant: AnyStep says what it does, and each part *)
(* is kept by that.                                                         *)
LEMMA InvNext ==
    ASSUME Inv, [Next]_vars
    PROVE  Inv'
<1>1. TypeOK' /\ StepFacts
  BY AnyStep
<1>2. Apart' /\ NoFutureTexts' /\ NoneLeft' /\ LocksApart' /\ NoLostUpdate'
  BY <1>1, ApartNext, FutureNext, NoneLeftNext, LocksApartNext, LostNext
<1>3. ASSUME NEW j \in Jobs
      PROVE  GuardInv(j)' /\ KindInv(j)' /\ TextInv(j)' /\ WrittenInv(j)' /\ ReadyInv(j)' /\ LockInv(j)'
  BY <1>1, GuardNext, KindNext, TextNext, WrittenNext, ReadyNext, LockNext
<1> QED BY <1>1, <1>2, <1>3 DEF Inv

(* Every state of the file tools satisfies the inductive invariant.         *)
THEOREM Invariance == Spec => []Inv
<1>1. Init => Inv
  BY InvInit
<1>2. Inv /\ [Next]_vars => Inv'
  BY InvNext
<1> QED BY <1>1, <1>2, PTL DEF Spec

(* The variables of the file tools keep their types: every record of a      *)
(* call, every file and every guard set is what the code can hold.          *)
THEOREM TypeCorrect == Spec => []TypeOK
<1>1. Inv => TypeOK
  BY DEF Inv
<1> QED BY <1>1, Invariance, PTL

(* NoLostUpdate: edit_file, replace_symbol, rename_symbol and a range edit  *)
(* replace only the text they have read, and undo only what they wrote, in  *)
(* a file that one process writes; among several processes an edit does     *)
(* where all are edits.                                                     *)
THEOREM NoUpdateLost == Spec => []NoLostUpdate
<1>1. Inv => NoLostUpdate
  BY DEF Inv
<1> QED BY <1>1, Invariance, PTL

(* From NoneLeft: the report of a refused, denied or undone call is true.   *)
LEMMA NothingLeft ==
    ASSUME Inv
    PROVE  NothingRetained
<1> SUFFICES ASSUME NEW id \in DOMAIN log, log[id].result \in {"undone", "denied", "refused"},
                    NEW f \in Files, disk[f].text = id,
                    WrittenBy(f, ({log[id].by} \X (Kinds \cup {"undo"})) \cup {Outsider})
             PROVE  FALSE
  BY DEF NothingRetained
<1>1. WrittenBy(f, OwnOr(log[id].by))
  BY DEF WrittenBy, OwnOr, Own
<1> QED BY <1>1 DEF Inv, NoneLeft

(* From WrittenInv: an edit about to report success has all its files.      *)
LEMMA AllWritten ==
    ASSUME Inv
    PROVE  AppliedIsWhole
<1> SUFFICES ASSUME NEW j \in Jobs, job[j].step = "publish", NEW i \in DOMAIN job[j].files,
                    NEW p \in Processes, WrittenBy(job[j].files[i], {p} \X (Kinds \cup {"undo"}))
             PROVE  disk[job[j].files[i]].text = job[j].id
  BY DEF AppliedIsWhole, InOneProcess
<1> DEFINE f == job[j].files[i]
<1>1. job[j].kind = "edit" /\ i \in Pending(j)
  BY DEF Inv, KindInv, Pending
<1>2. /\ <<home[j], "edit">> \in writers[f]
      /\ WrittenBy(f, Own(home[j])) => disk[f].text = job[j].id
  BY <1>1 DEF Inv, WrittenInv
<1>3. p = home[j]
  BY <1>2 DEF WrittenBy
<1> QED BY <1>2, <1>3 DEF Own

(* ResultIsTrue: what apply_edits, its rollback and the other tools report  *)
(* is what they did, all or nothing.                                        *)
THEOREM ResultsTrue == Spec => []ResultIsTrue
<1>1. Inv => ResultIsTrue
  BY NothingLeft, AllWritten DEF ResultIsTrue
<1> QED BY <1>1, Invariance, PTL
=============================================================================
