---------------------------- MODULE LeavePayloads ----------------------------
(***************************************************************************)
(* What a gated write asks for, and the arithmetic of leave days.          *)
(*                                                                         *)
(* A payload is a leave range or a ticket.  A leave range has a number of  *)
(* working days and lies in one year; the payload stored in                *)
(* pending_actions contains both, so two equal ranges are equal payloads.  *)
(* A leave account is one row of leave_balances: an employee and a year.   *)
(*                                                                         *)
(* SQL's sum over rows is counted here as a set of day tokens: a leave of  *)
(* d days put forward as action a owns the tokens <<a,1>> .. <<a,d>>, and  *)
(* the sum of some actions is the cardinality of their tokens.             *)
(***************************************************************************)
EXTENDS Integers, FiniteSets

CONSTANTS
    Employees,     \* rows of the employees table
    Approvers,     \* those whose role is in APPROVER_ROLES
    NoOne,         \* decided_by of an undecided action (SQL NULL)
    Years,         \* calendar years
    Leaves,        \* leave ranges that an employee may ask for
    Tickets,       \* ticket texts that an employee may ask for
    MaxDays,       \* no range within one year has more working days
    Days,          \* working days of a leave range
    YearOf,        \* the year of a leave range
    Unacceptable   \* payloads refused before the database is looked at

ASSUME PayloadAssumption ==
    /\ Approvers \subseteq Employees
    /\ NoOne \notin Employees
    /\ Leaves \cap Tickets = {}
    /\ MaxDays \in Nat
    /\ Days \in [Leaves -> 0..MaxDays]
    /\ YearOf \in [Leaves -> Years]
    \* a range without working days is one of the refused ones
    /\ \A p \in Leaves \ Unacceptable : Days[p] > 0

Accounts == Employees \X Years

(* A request of a gated write: the requester of the bound context and the  *)
(* payload the tool built from its arguments.                              *)
Requests == [employee : Employees, payload : Leaves \cup Tickets]

IsLeave(r) == r.payload \in Leaves

Account(r) == <<r.employee, YearOf[r.payload]>>

(* Whether r asks for days of account x. *)
DrawsOn(r, x) == IsLeave(r) /\ Account(r) = x

(* The days a single request asks of account x. *)
DaysAsked(r, x) == IF DrawsOn(r, x) THEN Days[r.payload] ELSE 0

DayTokens(asks, S, x) ==
    {t \in S \X (1..MaxDays) :
        DrawsOn(asks[t[1]], x) /\ t[2] <= Days[asks[t[1]].payload]}

(* The working days that the actions of S ask of account x, where asks     *)
(* gives the request of each action.                                       *)
TotalDays(asks, S, x) == Cardinality(DayTokens(asks, S, x))

=============================================================================
