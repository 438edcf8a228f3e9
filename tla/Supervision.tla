----------------------------- MODULE Supervision -----------------------------
(***************************************************************************)
(* What the supervision context promises its caller (spec 4.3 and 4.5),   *)
(* with none of the mechanism: a scope that is open, then releasing, then *)
(* released, and a monitor that is idle, running or stopped and counts its *)
(* completed rounds.                                                       *)
(*                                                                         *)
(*  - while the scope is open the monitor stops only if it never got to    *)
(*    run a round (its start failed);                                      *)
(*  - the scope is released only once the monitor has stopped;             *)
(*  - once releasing, the monitor is stopped and the release completes.    *)
(***************************************************************************)
EXTENDS Naturals

CONSTANT MaxRounds

VARIABLES scope, monitor, rounds

avars == <<scope, monitor, rounds>>

SupervisionTypeOK ==
    /\ scope \in {"open", "releasing", "released"}
    /\ monitor \in {"idle", "running", "stopped"}
    /\ rounds \in Nat

SInit ==
    /\ scope = "open"
    /\ monitor = "idle"
    /\ rounds = 0

\* The monitor has started its loop.
Start ==
    /\ monitor = "idle"
    /\ monitor' = "running"
    /\ UNCHANGED <<scope, rounds>>

\* A round of the loop completes.
Round ==
    /\ monitor = "running"
    /\ rounds < MaxRounds
    /\ rounds' = rounds + 1
    /\ UNCHANGED <<scope, monitor>>

\* The monitor stops; in an open scope only before its first round.
Stop ==
    /\ monitor # "stopped"
    /\ scope = "open" => rounds = 0
    /\ monitor' = "stopped"
    /\ UNCHANGED <<scope, rounds>>

\* The caller's scope ends.
Close ==
    /\ scope = "open"
    /\ scope' = "releasing"
    /\ UNCHANGED <<monitor, rounds>>

\* Release returns: the monitor is gone.
Release ==
    /\ scope = "releasing"
    /\ monitor = "stopped"
    /\ scope' = "released"
    /\ UNCHANGED <<monitor, rounds>>

SNext == Start \/ Round \/ Stop \/ Close \/ Release

\* Once the scope is releasing, the monitor is made to stop and the release
\* returns.
SFairness ==
    /\ WF_avars(scope = "releasing" /\ Stop)
    /\ WF_avars(Release)

SafeSpec == SInit /\ [][SNext]_avars

SSpec == SafeSpec /\ SFairness

=============================================================================
