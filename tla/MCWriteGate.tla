----------------------------- MODULE MCWriteGate -----------------------------
(* Instances of WriteGate for TLC.                                         *)
EXTENDS WriteGate, TLC

CONSTANTS
    c1, c2, d1, d2,       \* calls and deciders
    ann, bob,             \* an employee and an approver
    short, long, vpn,     \* two leave ranges and a ticket
    junk                  \* a ticket without a text

(* Leave ranges of one and two working days. *)
MCDays == short :> 1 @@ long :> 2
MCYearOf == short :> 2026 @@ long :> 2026

(* Only one employee has a balance. *)
OneRecorded == {<<ann, 2026>>}

(* The threads that can wait for each other: calls of one employee, who is *)
(* no approver, and decisions of approvers.                                *)
Contending ==
    /\ Init
    /\ \A c, o \in Calls : Proposer(c) = Proposer(o) /\ Proposer(c) \notin Approvers
    /\ \A d \in Deciders : decision[d].approver \in Approvers

ContendingSpec == Contending /\ FairSpec

Symmetry == Permutations(Calls) \cup Permutations(Deciders)

=============================================================================
