--------------------------- MODULE MCAnchorStore ---------------------------
EXTENDS AnchorStore, TLC

Symmetry == Permutations(Managers) \union Permutations(Texts)

\* "the in-memory and durable baselines must still match under the cache lock"
\* (file_editor.rs 1767): no publication is written over by one that did not see
\* it.  Refuted: the cached decode of a shard can be that of the one before
\* (read_task_documents_cached stats the file after it has read it).
NoPublicationOverwritten ==
    [][durable # NoDoc /\ durable' # NoDoc /\ durable' # durable
         => durable'.gen > durable.gen]_anchorVars

\* "monotonic_allocator" (file_editor.rs 4703): the counter of the shard's document
\* is never behind where it has been.
AllocatorMonotonic == durable # NoDoc => durable.next >= minted[durable.space]

\* "... never_reuses_a_retired_anchor": an identity that was shown for a line is not
\* given to one that says something else.
NeverReused ==
    durable # NoDoc /\ held # NoAnchor =>
        \A i \in DOMAIN durable.ids : durable.ids[i] = held.id => durable.texts[i] = held.text
=============================================================================
