----------------------------- MODULE RequestLife -----------------------------
(***************************************************************************)
(* What one request promises, whatever the model says: it runs, its gated  *)
(* writes add rows to pending_actions, and it ends either with one         *)
(* Decision Record that explains every one of those rows, or with none at  *)
(* all.  A row is never taken back, and after the end nothing is added.    *)
(***************************************************************************)
EXTENDS Naturals

CONSTANT Actions    \* ids of rows of pending_actions

VARIABLES
    phase,      \* the request is "running", "recorded" or "lost"
    rows,       \* the rows it added
    explained   \* the rows its Decision Record has evidence of

Phases == {"running", "recorded", "lost"}

Init ==
    /\ phase = "running"
    /\ rows = {}
    /\ explained = {}

Propose(new) ==
    /\ phase = "running"
    /\ rows' = rows \cup new
    /\ UNCHANGED <<phase, explained>>

Record ==
    /\ phase = "running"
    /\ phase' = "recorded"
    /\ explained' = rows
    /\ UNCHANGED rows

(* The request dies.  Gated writes that had committed by then stay.        *)
Lose(new) ==
    /\ phase = "running"
    /\ phase' = "lost"
    /\ rows' = rows \cup new
    /\ UNCHANGED explained

Next ==
    \/ \E new \in SUBSET Actions : Propose(new) \/ Lose(new)
    \/ Record

Spec == Init /\ [][Next]_<<phase, rows, explained>>

=============================================================================
