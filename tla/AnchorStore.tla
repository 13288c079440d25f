---------------------------- MODULE AnchorStore ----------------------------
(***************************************************************************)
(* The line anchors of one file in one task (src/src/core/file_editor.rs). *)
(* read_file shows every line with an identity; edit_file resolves an      *)
(* identity and the quoted line to a position.  The identities are kept in *)
(* a document that several managers share through the task's shard on disk *)
(* and remember in memory; a document is published by comparing both with  *)
(* what the operation saw, with the shard as each manager's cache of the   *)
(* decoded file has it.  Lines carry a ghost number, so that it can be  *)
(* said which line an anchor was shown for.                                *)
(***************************************************************************)
EXTENDS Integers, FiniteSets, SequencesExt

CONSTANTS
    Managers,    \* the managers that share the shard: sned processes, agents
    Texts,       \* what a line can say
    MaxTracked,  \* MAX_TRACKED_LINES: longer files get no document
    MaxLines,    \* bound: lines of the file
    MaxOps,      \* bound: tool calls begun
    MaxFaults,   \* bound: evictions, restarts, resets, changes from outside, late reads
    NoDoc, Unloaded, Right, NoAnchor, Idle

ASSUME BoundsAssumption ==
    /\ MaxTracked \in Nat \ {0} /\ MaxLines \in Nat /\ MaxTracked <= MaxLines
    /\ MaxOps \in Nat /\ MaxFaults \in Nat

VARIABLES
    content,  \* the file: a sequence of [text, line], `line' the ghost number
    durable,  \* the document in the task's shard, or NoDoc
    mem,      \* [Managers -> Unloaded, NoDoc or a document]: tasks[task][path]
    decoded,  \* [Managers -> Right, or what durable_shards has for the shard as it is]
    op,       \* [Managers -> the tool call under way, or Idle]
    held,     \* an anchor some call has shown: [id, text, line], or NoAnchor
    added, removed,  \* texts a line of which was added, was removed (ghost)
    lines,           \* lines there ever were (ghost)
    minted,          \* how far the counter of each namespace got in the shard (ghost)
    rolledBack,      \* whether a version came back after a later one, or was
                     \* written over one its writer had not read (ghost)
    ops, faults      \* calls begun, faults that happened

fileGhost == <<added, removed, lines>>
shardGhost == <<minted, rolledBack>>
ghost == <<held, fileGhost, shardGhost>>
counters == <<ops, faults>>
anchorVars == <<content, durable, mem, decoded, op, ghost, counters>>

----------------------------------------------------------------------------
\* Documents and identities.

TextsOf(c) == [i \in DOMAIN c |-> c[i].text]

Occurs(text, said) == Cardinality({i \in DOMAIN said : said[i] = text})

\* "A<namespace>N<n>" for a tracked line, "L<digest>N<n>" for a line of a file
\* with too many of them; `of' stands for the digest of all lines.
Tracked(space, n) == [space |-> space, n |-> n, of |-> <<>>]
SnapshotIds(said) == [i \in DOMAIN said |-> [space |-> 0, n |-> i, of |-> said]]

\* kept: which positions keep which identity; the others get new ones, in order.
Minted(kept, length, space, next) ==
    [j \in 1..length |->
        IF j \in DOMAIN kept THEN kept[j]
        ELSE Tracked(space, next + Cardinality({i \in 1..(j - 1) : i \notin DOMAIN kept}))]

\* The next version of a document, or a first one when gen is 0.
Document_CounterKept(gen, said, kept, space, next) ==
    [gen |-> gen, texts |-> said, ids |-> Minted(kept, Len(said), space, next),
     space |-> space, next |-> next]
Document(gen, said, kept, space, next) ==
    [gen |-> gen, texts |-> said, ids |-> Minted(kept, Len(said), space, next),
     space |-> space, next |-> next + Len(said) - Cardinality(DOMAIN kept)]

First(said, space) == Document(0, said, <<>>, space, 0)

\* new_anchor_namespace: twelve random characters, never the same twice.
NewSpace == Len(minted) + 1
Named(doc) == minted' = IF doc.space > Len(minted) THEN Append(minted, 0) ELSE minted

\* The line alignments of least difference: a longest common subsequence.
Alignments(old, new) ==
    LET Same == {p \in (DOMAIN old) \X (DOMAIN new) : old[p[1]] = new[p[2]]}
        InOrder(A) == \A p, q \in A : p = q \/ (p[1] < q[1] /\ p[2] < q[2])
                                            \/ (q[1] < p[1] /\ q[2] < p[2])
        Common == {A \in SUBSET Same : InOrder(A)}
    IN {A \in Common : \A B \in Common : Cardinality(B) <= Cardinality(A)}

\* A line that occurs more than once on either side has no identity to keep.
Unambiguous_Always(text, old, new) == TRUE
Unambiguous(text, old, new) == Occurs(text, old) = 1 /\ Occurs(text, new) = 1

KeptBy(alignment, doc, said) ==
    LET Sure == {p \in alignment : Unambiguous(doc.texts[p[1]], doc.texts, said)}
    IN [j \in {p[2] : p \in Sure} |-> doc.ids[(CHOOSE p \in Sure : p[2] = j)[1]]]

Reconciled(alignment, doc, said) ==
    Document(doc.gen + 1, said, KeptBy(alignment, doc, said), doc.space, doc.next)

----------------------------------------------------------------------------
\* Managers.

\* read_task_documents_cached: the shard, or the documents remembered for a file
\* of its time and length.  Every read of the shard goes through it.
View(m) == IF decoded[m] = Right THEN durable ELSE decoded[m]
Misled(m) == View(m) # durable

InMemory(m) == IF mem[m] = Unloaded THEN NoDoc ELSE mem[m]
Loaded(m) == IF mem[m] = Unloaded THEN View(m) ELSE mem[m]

\* The shard is replaced, and what was remembered for the old one is no longer
\* looked at.  But a read asks for the time and length of the file after it has
\* the content, and only writers take the lock of the anchor cache: a manager
\* that read before and asks after remembers the old documents for the new file.
Replaced(writers) ==
    \E late \in SUBSET {m \in Managers \ writers : decoded[m] = Right /\ durable' # durable} :
        decoded' = [m \in Managers |-> IF m \in late THEN durable ELSE Right]

\* The bound counts a write in the middle of someone's read as a fault.
Counted ==
    /\ faults' = IF \A m \in Managers : decoded'[m] = Right THEN faults ELSE faults + 1
    /\ faults' <= MaxFaults

\* m writes the shard, which may not be what it thinks it is.
Written(m) ==
    /\ Replaced({m}) /\ Counted
    /\ rolledBack' = (rolledBack \/ Misled(m))

AnchorInit ==
    /\ content \in {[i \in 1..n |-> [text |-> said[i], line |-> i]] :
                        n \in 1..MaxTracked, said \in [1..MaxLines -> Texts]}
    /\ \/ durable = NoDoc /\ held = NoAnchor /\ minted = <<>>
       \/ durable = First(TextsOf(content), 1)  \* it has been read once
          /\ minted = <<durable.next>>
          /\ \E i \in DOMAIN content :
               held = [id |-> durable.ids[i], text |-> content[i].text, line |-> i]
    /\ mem \in [Managers -> {Unloaded, durable}]  \* durable: the task is loaded
    /\ decoded = [m \in Managers |-> Right]
    /\ op = [m \in Managers |-> Idle]
    /\ added = {} /\ removed = {} /\ lines = MaxTracked /\ rolledBack = FALSE
    /\ ops = 0 /\ faults = 0

Call(kind, said) ==
    [kind |-> kind, at |-> "fetched", read |-> said,
     mexp |-> NoDoc, exp |-> NoDoc, doc |-> NoDoc, new |-> <<>>]

To(m, changed) == op' = [op EXCEPT ![m] = changed]
EndCall(m) == To(m, Idle)

\* A call shows the anchors of its document; the model remembers at most one.
Show(said, ids) ==
    \/ UNCHANGED held
    \/ \E i \in DOMAIN ids :
         held' = [id |-> ids[i], text |-> said[i].text, line |-> said[i].line]

----------------------------------------------------------------------------
\* The file's lines change: one added, one removed or one replaced.

Swapped(new) ==
    /\ content' = new
    /\ LET before == {content[i].line : i \in DOMAIN content}
           after == {new[i].line : i \in DOMAIN new}
           lost == {content[i].text : i \in {i \in DOMAIN content : content[i].line \notin after}}
           gained == {new[i].text : i \in {i \in DOMAIN new : new[i].line \notin before}}
       IN removed' = removed \union lost /\ added' = added \union gained
    /\ lines' = lines + 1

\* A line that was never there before.
NewLine(text) == [text |-> text, line |-> lines + 1]

Added(c, i, text) == InsertAt(c, i, NewLine(text))

\* What one edit at position i can make of the file's lines c.
EditsAt(c, i) ==
    {RemoveAt(c, i)} \union {[c EXCEPT ![i] = NewLine(t)] : t \in Texts \ {c[i].text}}
        \union {Added(c, j, t) : j \in {i, i + 1}, t \in Texts}

Fits(c) == Len(c) \in 1..MaxLines

\* One line removed or added.
ChangesOf(c) ==
    {d \in {RemoveAt(c, i) : i \in DOMAIN c}
           \union {Added(c, i, t) : i \in 1..(Len(c) + 1), t \in Texts} : Fits(d)}

----------------------------------------------------------------------------
\* Calls.

Shown(m, said, ids) ==
    /\ EndCall(m)
    /\ IF op[m].kind = "write" THEN UNCHANGED held ELSE Show(said, ids)

\* AnchorTransitionError::StaleGeneration: "re-read the file with read_file".
RefuseCall(m) == EndCall(m) /\ UNCHANGED ghost

BeginCall == ops < MaxOps /\ ops' = ops + 1

\* read_file and edit_file read the file before they look at its anchors.
Fetch(m, kind) ==
    /\ op[m] = Idle /\ BeginCall
    /\ To(m, Call(kind, content))
    /\ UNCHANGED <<content, durable, mem, decoded, ghost, faults>>

\* write_to_file writes first and reconciles after.
WriteFile(m) ==
    /\ op[m] = Idle /\ BeginCall
    /\ \E new \in ChangesOf(content) : Swapped(new) /\ To(m, Call("write", new))
    /\ UNCHANGED <<durable, mem, decoded, held, shardGhost, faults>>

\* An edit of a range by revision replaces the file and forgets its document.
RangeEdit(m) ==
    /\ op[m] = Idle /\ BeginCall
    /\ \E new \in ChangesOf(content) : Swapped(new)
    /\ mem' = [mem EXCEPT ![m] = NoDoc]
    /\ EndCall(m)
    /\ UNCHANGED <<durable, decoded, held, shardGhost, faults>>

At(m, kinds, step) == op[m] # Idle /\ op[m].kind \in kinds /\ op[m].at = step
Reconciling == {"read", "write"}

Staging(m, doc, mexp) ==
    [op[m] EXCEPT !.at = "reconciled", !.doc = doc, !.mexp = mexp, !.exp = View(m)]

\* reconcile_checked: the durable document replaces the remembered one, and what
\* is then remembered is compared with the lines read.
Adopted(m) == IF View(m) # NoDoc THEN View(m) ELSE Loaded(m)

TooLong(m) ==
    /\ At(m, Reconciling, "fetched") /\ Len(op[m].read) > MaxTracked
    /\ Shown(m, op[m].read, SnapshotIds(TextsOf(op[m].read)))
    /\ UNCHANGED <<content, durable, mem, decoded, fileGhost, shardGhost, counters>>

Unchanged(m) ==
    /\ At(m, Reconciling, "fetched") /\ Len(op[m].read) <= MaxTracked
    /\ Adopted(m) # NoDoc /\ Adopted(m).texts = TextsOf(op[m].read)
    /\ mem' = [mem EXCEPT ![m] = Adopted(m)]
    /\ \/ View(m) # NoDoc /\ Shown(m, op[m].read, Adopted(m).ids)
       \/ View(m) = NoDoc /\ To(m, [op[m] EXCEPT !.at = "republishing", !.doc = Adopted(m)])
                          /\ UNCHANGED held
    /\ UNCHANGED <<content, durable, decoded, fileGhost, shardGhost, counters>>

FirstSeen(m) ==
    /\ At(m, Reconciling, "fetched") /\ Len(op[m].read) <= MaxTracked
    /\ Adopted(m) = NoDoc
    /\ mem' = [mem EXCEPT ![m] = NoDoc]
    /\ LET doc == First(TextsOf(op[m].read), NewSpace)
       IN To(m, Staging(m, doc, NoDoc)) /\ Named(doc)
    /\ UNCHANGED <<content, durable, decoded, held, fileGhost, rolledBack, counters>>

Reconcile(m) ==
    /\ At(m, Reconciling, "fetched") /\ Len(op[m].read) <= MaxTracked
    /\ Adopted(m) # NoDoc /\ Adopted(m).texts # TextsOf(op[m].read)
    /\ mem' = [mem EXCEPT ![m] = Adopted(m)]
    /\ LET said == TextsOf(op[m].read)
       IN \E alignment \in Alignments(Adopted(m).texts, said) :
            To(m, Staging(m, Reconciled(alignment, Adopted(m), said), Adopted(m)))
    /\ UNCHANGED <<content, durable, decoded, ghost, counters>>

\* Memory and shard are still what the operation saw, as far as the manager knows.
Current_InMemory(m, memory) == memory = op[m].mexp
Current(m, memory) == memory = op[m].mexp /\ View(m) = op[m].exp

\* publish_reconciled_document, under the lock of the anchor cache.
CanPublish(m) ==
    /\ ~(op[m].exp = NoDoc /\ op[m].mexp # NoDoc)
    /\ Current(m, InMemory(m))

Publish(m) ==
    /\ At(m, Reconciling, "reconciled") /\ CanPublish(m)
    /\ durable' = op[m].doc
    /\ mem' = [mem EXCEPT ![m] = op[m].doc]
    /\ minted' = [minted EXCEPT ![op[m].doc.space] = op[m].doc.next]
    /\ Written(m)
    /\ Shown(m, op[m].read, op[m].doc.ids)
    /\ UNCHANGED <<content, fileGhost, ops>>

CannotPublish(m) ==
    /\ At(m, Reconciling, "reconciled") /\ ~CanPublish(m)
    /\ RefuseCall(m)
    /\ UNCHANGED <<content, durable, mem, decoded, counters>>

\* republish_document and save: the remembered document is written back unless
\* the shard has one again, which is then remembered.
Resurrects(doc) == doc.next < minted[doc.space]

Republish(m) ==
    /\ At(m, Reconciling, "republishing")
    /\ IF View(m) = NoDoc
       THEN /\ durable' = op[m].doc
            /\ mem' = [mem EXCEPT ![m] = op[m].doc]
            /\ Replaced({m}) /\ Counted
            /\ rolledBack' = (rolledBack \/ Misled(m) \/ Resurrects(op[m].doc))
            /\ Shown(m, op[m].read, op[m].doc.ids)
       ELSE /\ mem' = [mem EXCEPT ![m] = View(m)]
            /\ IF View(m) = op[m].doc THEN Shown(m, op[m].read, op[m].doc.ids)
               ELSE EndCall(m) /\ UNCHANGED held
            /\ UNCHANGED <<durable, decoded, rolledBack, faults>>
    /\ UNCHANGED <<content, fileGhost, minted, ops>>

----------------------------------------------------------------------------
\* edit_file.

\* The document an edit starts from: observe_snapshot.
Observed(m) ==
    LET said == TextsOf(op[m].read)
    IN IF Len(said) > MaxTracked
       THEN [gen |-> IF View(m) = NoDoc THEN 0 ELSE View(m).gen,
             texts |-> said, ids |-> SnapshotIds(said), space |-> 0, next |-> 0]
       ELSE IF View(m) # NoDoc THEN View(m) ELSE First(said, NewSpace)

Remembered(m) == IF View(m) = NoDoc THEN InMemory(m) ELSE Loaded(m)

StaleToEdit(m) ==
    /\ Len(op[m].read) <= MaxTracked
    /\ IF View(m) = NoDoc THEN InMemory(m) # NoDoc
       ELSE View(m).texts # TextsOf(op[m].read)

\* resolve_anchor_with_hint: the identity and the whole line must match.
Resolves(i, m) ==
    /\ held # NoAnchor
    /\ Observed(m).ids[i] = held.id
    /\ op[m].read[i].text = held.text

\* stage_transition: preserved lines keep their identities, the rest get new ones.
Origin(c, d, j) == {i \in DOMAIN c : c[i].line = d[j].line}

Transition(doc, c, d) ==
    LET said == TextsOf(d)
        snapshot == doc.space = 0
        space == IF snapshot THEN NewSpace ELSE doc.space
        preserved == {j \in DOMAIN d : Origin(c, d, j) # {}}
        kept == [j \in (IF snapshot THEN {} ELSE preserved) |->
                    doc.ids[CHOOSE i \in Origin(c, d, j) : TRUE]]
    IN IF Len(said) > MaxTracked
       THEN [doc EXCEPT !.gen = doc.gen + 1, !.texts = said, !.ids = SnapshotIds(said)]
       ELSE Document(doc.gen + 1, said, kept, space, doc.next)

\* By the anchor shown, or by a block of the present text.
Observe(m) ==
    /\ At(m, {"edit"}, "fetched") /\ ~StaleToEdit(m)
    /\ mem' = [mem EXCEPT ![m] = IF View(m) = NoDoc THEN mem[m] ELSE Loaded(m)]
    /\ \E i \in DOMAIN op[m].read : \E new \in EditsAt(op[m].read, i) :
         LET doc == Transition(Observed(m), op[m].read, new)
         IN /\ Fits(new)
            /\ To(m, [op[m] EXCEPT !.at = "staged", !.exp = View(m),
                          !.mexp = Remembered(m), !.doc = doc, !.new = new])
            /\ Named(doc)
    /\ lines' = lines + 1
    /\ UNCHANGED <<content, durable, decoded, held, added, removed, rolledBack, counters>>

RefuseEdit(m) ==
    /\ At(m, {"edit"}, "fetched") /\ StaleToEdit(m)
    /\ mem' = [mem EXCEPT ![m] = IF View(m) = NoDoc THEN mem[m] ELSE Loaded(m)]
    /\ RefuseCall(m)
    /\ UNCHANGED <<content, durable, decoded, counters>>

\* No line has the anchor, or it says something else.
NotFound(m) ==
    /\ At(m, {"edit"}, "fetched") /\ ~StaleToEdit(m)
    /\ \A i \in DOMAIN op[m].read : ~Resolves(i, m)
    /\ mem' = [mem EXCEPT ![m] = IF View(m) = NoDoc THEN mem[m] ELSE Loaded(m)]
    /\ EndCall(m)
    /\ UNCHANGED <<content, durable, decoded, ghost, counters>>

\* check_transitions, before the write and again to publish.
Recalled(m) == IF op[m].mexp = NoDoc THEN InMemory(m) ELSE Loaded(m)

Recall(m) == mem' = [mem EXCEPT ![m] = IF op[m].mexp = NoDoc THEN mem[m] ELSE Loaded(m)]

Validate(m) ==
    /\ At(m, {"edit"}, "staged")
    /\ Recall(m)
    /\ IF Current(m, Recalled(m))
       THEN To(m, [op[m] EXCEPT !.at = "valid"]) /\ UNCHANGED ghost
       ELSE RefuseCall(m)
    /\ UNCHANGED <<content, durable, decoded, counters>>

\* The write phase, a file that changed since it was read being left alone.
WriteEdit(m) ==
    /\ At(m, {"edit"}, "valid")
    /\ IF content = op[m].read
       THEN Swapped(op[m].new) /\ To(m, [op[m] EXCEPT !.at = "written"])
       ELSE EndCall(m) /\ UNCHANGED <<content, fileGhost>>
    /\ UNCHANGED <<durable, mem, decoded, held, shardGhost, counters>>

Commit(m) ==
    /\ At(m, {"edit"}, "written") /\ Current(m, Recalled(m))
    /\ IF Len(op[m].new) > MaxTracked THEN durable' = NoDoc /\ UNCHANGED minted
       ELSE /\ durable' = op[m].doc
            /\ minted' = [minted EXCEPT ![op[m].doc.space] = op[m].doc.next]
    /\ mem' = [mem EXCEPT ![m] = durable']
    /\ Written(m)
    /\ Shown(m, op[m].new, op[m].doc.ids)
    /\ UNCHANGED <<content, fileGhost, ops>>

\* The content stays, the anchors are not published: invalidate_state.
CannotCommit(m) ==
    /\ At(m, {"edit"}, "written") /\ ~Current(m, Recalled(m))
    /\ mem' = [mem EXCEPT ![m] = NoDoc]
    /\ RefuseCall(m)
    /\ UNCHANGED <<content, durable, decoded, counters>>

----------------------------------------------------------------------------
\* What happens to a shard, a manager or the file from elsewhere.

Fault == faults < MaxFaults /\ faults' = faults + 1

\* save, for another file of the task: the shard and memory become what the
\* manager takes the shard to be.
OtherPublishes(m) ==
    /\ mem[m] # View(m) \/ Misled(m)
    /\ durable' = View(m)
    /\ mem' = [mem EXCEPT ![m] = View(m)]
    /\ Written(m)
    /\ UNCHANGED <<content, held, fileGhost, minted, ops, op>>

\* evict_old_task_shards, or MAX_TRACKED_FILES, on another's behalf.
Evict ==
    /\ Fault /\ durable # NoDoc
    /\ durable' = NoDoc /\ Replaced({})
    /\ UNCHANGED <<content, mem, ghost, ops, op>>

\* get_task_state_mut drops the task used longest ago from memory.
Forget(m) ==
    /\ Fault /\ mem[m] # Unloaded
    /\ mem' = [mem EXCEPT ![m] = Unloaded]
    /\ UNCHANGED <<content, durable, decoded, ghost, ops, op>>

\* reset: the document goes if this manager knows it as the shard has it.
Reset(m) ==
    /\ Fault
    /\ IF Loaded(m) = View(m)
       THEN durable' = NoDoc /\ mem' = [mem EXCEPT ![m] = NoDoc] /\ Replaced({m})
       ELSE mem' = [mem EXCEPT ![m] = View(m)] /\ UNCHANGED <<durable, decoded>>
    /\ UNCHANGED <<content, ghost, ops, op>>

\* The process ends, in the middle of a call or not, and another begins.
Restart(m) ==
    /\ Fault
    /\ mem' = [mem EXCEPT ![m] = Unloaded]
    /\ decoded' = [decoded EXCEPT ![m] = Right]
    /\ EndCall(m)
    /\ UNCHANGED <<content, durable, ghost, ops>>

Outside ==
    /\ Fault
    /\ \E new \in ChangesOf(content) : Swapped(new)
    /\ UNCHANGED <<durable, mem, decoded, held, shardGhost, ops, op>>

AnchorNext ==
    \/ Evict \/ Outside
    \/ \E m \in Managers :
        \/ Fetch(m, "read") \/ Fetch(m, "edit") \/ WriteFile(m) \/ RangeEdit(m)
        \/ TooLong(m) \/ Unchanged(m) \/ FirstSeen(m) \/ Reconcile(m)
        \/ Publish(m) \/ CannotPublish(m) \/ Republish(m)
        \/ Observe(m) \/ RefuseEdit(m) \/ NotFound(m)
        \/ Validate(m) \/ WriteEdit(m) \/ Commit(m) \/ CannotCommit(m)
        \/ OtherPublishes(m) \/ Forget(m) \/ Reset(m) \/ Restart(m)

AnchorSpec == AnchorInit /\ [][AnchorNext]_anchorVars

----------------------------------------------------------------------------
\* Properties.

Ids == [space : Nat, n : Nat, of : Seq(Texts)]
Lines == [text : Texts, line : Nat \ {0}]
Docs == [gen : Nat, texts : Seq(Texts), ids : Seq(Ids), space : Nat, next : Nat]
Calls ==
    [kind : {"read", "edit", "write"},
     at : {"fetched", "reconciled", "republishing", "staged", "valid", "written"},
     read : Seq(Lines), mexp : Docs \union {NoDoc},
     exp : Docs \union {NoDoc}, doc : Docs \union {NoDoc}, new : Seq(Lines)]

\* Type and shape: a document names each of its lines, and no two the same way
\* (allocate_identity).
AnchorTypeOK ==
    /\ content \in Seq(Lines) /\ Fits(content)
    /\ durable \in Docs \union {NoDoc}
    /\ mem \in [Managers -> Docs \union {NoDoc, Unloaded}]
    /\ decoded \in [Managers -> Docs \union {NoDoc, Right}]
    /\ op \in [Managers -> Calls \union {Idle}]
    /\ held \in [id : Ids, text : Texts, line : Nat \ {0}] \union {NoAnchor}
    /\ added \subseteq Texts /\ removed \subseteq Texts /\ lines \in Nat
    /\ minted \in Seq(Nat) /\ rolledBack \in BOOLEAN
    /\ ops \in 0..MaxOps /\ faults \in 0..MaxFaults
    /\ durable # NoDoc => /\ Len(durable.ids) = Len(durable.texts)
                          /\ IsInjective(durable.ids)

\* An edit by anchor changes the very line the anchor was shown for, however the
\* file, the shard and the managers went on since, unless a line that said the
\* same was added and one removed, or the shard got an older version back, whose
\* counter mints identities again: after it was emptied, or from a manager whose
\* cache of the shard was wrong (reconcile_checked 2075-2120,
\* stage_transition, resolve_anchor_with_hint).
RightLine ==
    ~rolledBack => \A m \in Managers :
        At(m, {"edit"}, "fetched") /\ ~StaleToEdit(m) =>
            \A i \in DOMAIN op[m].read :
                Resolves(i, m) /\ held.text \notin (added \intersect removed)
                    => op[m].read[i].line = held.line

\* A publication is undone by one that did not see it only where the cache of the
\* decoded shard was wrong: a document in the shard gives way to a later version of
\* itself, is dropped whole, or is written over by a manager misled in this way
\* (publish_reconciled_document, check_transitions, save).
GenerationsGrow ==
    [][durable # NoDoc /\ durable' # NoDoc /\ durable' # durable
         => \/ durable'.gen > durable.gen
            \/ \E m \in Managers : Misled(m) /\ mem'[m] = durable']_anchorVars

\* What a refused read_file is told, "Anchor generation changed" (file_editor.rs
\* 1134), is so: memory or shard are not what the read saw, and to "re-read the
\* file with read_file" helps.
RefusedForChange ==
    [][\A m \in Managers : CannotPublish(m) /\ op[m].kind = "read"
                             => ~Current(m, InMemory(m))]_anchorVars
=============================================================================
