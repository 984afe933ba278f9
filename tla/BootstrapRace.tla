---------------------------- MODULE BootstrapRace ----------------------------
(***************************************************************************)
(* The bootstrap group as spec sections 4.5 and 9 describe it: a one-shot  *)
(* barrier over candidate nodes.  Candidates enter the race while no one   *)
(* has won; a racing candidate may drop out (its attempt failed) or win,   *)
(* if no one has won yet; once there is a winner every other racing        *)
(* candidate is cancelled.  The race does not stall: while someone is     *)
(* racing, someone eventually leaves the race.                             *)
(***************************************************************************)
CONSTANTS
    Cands      \* candidate nodes

VARIABLES
    racing,    \* candidates whose attempt is still in the race
    won        \* the candidates that have won: at most one

vars == <<racing, won>>

Init == racing = {} /\ won = {}

Enter(p) ==
    /\ won = {}
    /\ p \notin racing
    /\ racing' = racing \cup {p}
    /\ UNCHANGED won

DropOut(p) ==
    /\ p \in racing
    /\ won = {}
    /\ racing' = racing \ {p}
    /\ UNCHANGED won

Win(p) ==
    /\ p \in racing
    /\ won = {}
    /\ won' = {p}
    /\ racing' = racing \ {p}

Cancel(p) ==
    /\ p \in racing
    /\ won # {}
    /\ racing' = racing \ {p}
    /\ UNCHANGED won

Leave == \E p \in racing : DropOut(p) \/ Win(p) \/ Cancel(p)

Next == \/ \E p \in Cands : Enter(p)
        \/ Leave

Spec == Init /\ [][Next]_vars /\ WF_vars(Leave)

=============================================================================
