-------------------------- MODULE MCEntryLifecycle --------------------------
\* Options for a server (local only or not) and for a client.
EXTENDS EntryLifecycle

CONSTANTS a1, a2, a3

MCChoices ==
    {[localOnly |-> l, live |-> ~l, import |-> l] : l \in BOOLEAN}
=============================================================================
