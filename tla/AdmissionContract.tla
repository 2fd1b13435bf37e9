-------------------------- MODULE AdmissionContract --------------------------
(***************************************************************************)
(* What the admission journal promises the scoped receiver about one run:  *)
(* an operation (the initial start, or one follow-up turn) is granted a    *)
(* launch at most once, a turn only after the start, never more operations *)
(* than the run's turn budget, and nothing once a fence has reached the    *)
(* disk.  How records, locks and directory syncs keep that promise is      *)
(* AdmissionJournal.                                                       *)
(***************************************************************************)
EXTENDS Naturals, FiniteSets

CONSTANTS Root,      \* the scope of the run itself (root_scope)
          Turns,     \* the scopes of its follow-up turns
          MaxTurns   \* budget.maxTurns of the decision: the start counts

VARIABLES grants,    \* how many launch handles each scope was given
          sealed     \* the scopes whose fence was on the disk

vars == <<grants, sealed>>

Scopes == Turns \cup {Root}

Init == /\ grants = [s \in Scopes |-> 0]
        /\ sealed = {}

Grant(s) == /\ grants[s] = 0
            /\ sealed \cap {s, Root} = {}
            /\ s # Root => grants[Root] = 1
            /\ Cardinality({t \in Scopes : grants[t] > 0}) < MaxTurns
            /\ grants' = [grants EXCEPT ![s] = 1]

Seal == sealed \subseteq sealed' /\ sealed' \subseteq Scopes

\* One directory sync may settle a grant and a fence published earlier.
Next == /\ Seal
        /\ UNCHANGED grants \/ \E s \in Scopes : Grant(s)

Spec == Init /\ [][Next]_vars
=============================================================================
