----------------------------- MODULE ParentLease -----------------------------
(***************************************************************************)
(* The in-memory turn ledger of one parent incarnation                     *)
(* (celln-warden/src/parent_lease.rs).  A lease charges the full ceiling   *)
(* of a turn before its child is launched and never refunds it.  The       *)
(* ledger has no thread of its own: the parent session calls it, so it is  *)
(* written as operators on a lease record.                                 *)
(***************************************************************************)
EXTENDS Integers, FiniteSets

CONSTANTS Turns,          \* turn identities a client may submit
          NoTurn,         \* stands for Option::None
          MaxTurns,       \* max_turns
          TurnRequests, TotalRequests,   \* model requests: per turn, in all
          TurnTokens, TotalTokens,       \* output tokens: per turn, in all
          IdentityLimit   \* the 1024 of parent_lease.rs, parent_journal.rs
                          \* and parent_child_control.rs

(* What ParentLease::new refuses to construct. *)
ASSUME LeaseAssumption ==
    /\ NoTurn \notin Turns
    /\ IdentityLimit \in Nat
    /\ MaxTurns \in 1 .. IdentityLimit
    /\ TurnRequests \in Nat /\ TotalRequests \in Nat
    /\ TurnTokens \in Nat /\ TotalTokens \in Nat
    /\ (TurnRequests = 0) <=> (TurnTokens = 0)
    /\ TurnRequests =< TotalRequests
    /\ TurnTokens =< TotalTokens

Lease == [turns : Int, requests : Int, tokens : Int,
          seen : SUBSET Turns, active : Turns \cup {NoTurn}, stopped : BOOLEAN]

(* ParentLease::new *)
NewLease == [turns |-> MaxTurns, requests |-> TotalRequests,
             tokens |-> TotalTokens, seen |-> {}, active |-> NoTurn,
             stopped |-> FALSE]

(* The deadline test that reserve_at and expired share: passing the deadline *)
(* closes the lease for good.                                                *)
Observed(lease, deadlinePassed) ==
    IF deadlinePassed THEN [lease EXCEPT !.stopped = TRUE] ELSE lease

(* The refusals of reserve_at, Stopped, Replay, Busy and Budget, negated. *)
MayReserve(lease, t) ==
    /\ ~lease.stopped
    /\ t \notin lease.seen
    /\ lease.active = NoTurn
    /\ lease.turns > 0
    /\ lease.requests >= TurnRequests
    /\ lease.tokens >= TurnTokens

(* The state change of a reservation that is granted. *)
Reserved(lease, t) ==
    [lease EXCEPT !.turns = lease.turns - 1,
                  !.requests = lease.requests - TurnRequests,
                  !.tokens = lease.tokens - TurnTokens,
                  !.seen = lease.seen \cup {t},
                  !.active = t]

(* Planted fault: the output tokens are refunded. *)
ChildConfirmedMutant(lease) ==
    [lease EXCEPT !.active = NoTurn, !.tokens = lease.tokens + TurnTokens]

(* confirm_child_destroyed: the owner slot is freed, the charge is kept. *)
ChildConfirmed(lease) == [lease EXCEPT !.active = NoTurn]

(* stop: closes admission and keeps the active owner. *)
Stopped(lease) == [lease EXCEPT !.stopped = TRUE]
==============================================================================
