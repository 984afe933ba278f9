---------------------------- MODULE BootstrapCache ----------------------------
(***************************************************************************)
(* The bootstrap cache over the life of a process and its restarts (spec   *)
(* sections 3 and 6): read from disk at start, updated with add_peer on    *)
(* each outbound handshake we initiated, written back on a clean shutdown  *)
(* and not on a crash.                                                     *)
(***************************************************************************)
EXTENDS Naturals, Sequences, SequencesExt, CachePolicy

CONSTANTS
    Nodes,        \* the NodeInfo values (model values)
    MaxIns,       \* bound on insertions over all runs of the process
    MaxStarts     \* bound on process starts

VARIABLES
    cache,   \* BootstrapCache in memory
    disk,    \* the cache file
    up,      \* the process is running
    nIns,    \* insertions so far
    nStarts  \* starts so far

vars == <<cache, disk, up, nIns, nStarts>>

\* Cache files an earlier version of the process can have left behind.
Files == {f \in BoundedSeq(Nodes, CacheCap) : IsInjective(f)}

Init ==
    /\ disk \in Files
    /\ up = FALSE
    /\ cache = <<>>
    /\ nIns = 0 /\ nStarts = 0

\* Start: the file is read into memory.
Start ==
    /\ ~up
    /\ nStarts < MaxStarts
    /\ up' = TRUE
    /\ cache' = disk
    /\ nStarts' = nStarts + 1
    /\ UNCHANGED <<disk, nIns>>

\* handle_new_connection_res with we_contacted_peer: add_peer.
Insert(p) ==
    /\ up
    /\ nIns < MaxIns
    /\ cache' = AddPeer(cache, p)
    /\ nIns' = nIns + 1
    /\ UNCHANGED <<disk, up, nStarts>>

\* Clean shutdown: the cache is written to the file.
Shutdown ==
    /\ up
    /\ disk' = cache
    /\ up' = FALSE
    /\ UNCHANGED <<cache, nIns, nStarts>>

\* Crash: the file keeps what the last clean shutdown wrote.
Crash ==
    /\ up
    /\ up' = FALSE
    /\ UNCHANGED <<cache, disk, nIns, nStarts>>

Next ==
    \/ Start
    \/ \E p \in Nodes : Insert(p)
    \/ Shutdown
    \/ Crash

Spec == Init /\ [][Next]_vars

-----------------------------------------------------------------------------
TypeOK ==
    /\ cache \in Seq(Nodes) /\ Len(cache) <= CacheCap
    /\ disk \in Files
    /\ up \in BOOLEAN
    /\ nIns \in 0..MaxIns /\ nStarts \in 0..MaxStarts

=============================================================================
