---------------------------- MODULE PoolContract ----------------------------
(***************************************************************************)
(* What the worker pool promises its callers, with no goroutine, channel   *)
(* or counter in sight: accepted jobs begin in the order they were         *)
(* accepted, at most Size of them run at a time, an open pool refuses      *)
(* nobody, a closed one accepts nobody, and the pool is drained only when  *)
(* every job it accepted has ended.                                        *)
(***************************************************************************)
EXTENDS Naturals, Sequences, FiniteSets

CONSTANTS Jobs, Size

VARIABLES
    pending,    \* the accepted jobs that have not begun, in order
    begun,      \* the jobs that are running
    ended,      \* the jobs that ran to their end
    refused,    \* the jobs that were turned down
    phase       \* "open", "stopping", "closed", then "drained"

vars == <<pending, begun, ended, refused, phase>>

Accepted == {pending[i] : i \in 1..Len(pending)} \cup begun \cup ended

Init ==
    /\ pending = <<>>
    /\ begun = {} /\ ended = {} /\ refused = {}
    /\ phase = "open"

Accept(j) ==
    /\ phase \in {"open", "stopping"}
    /\ j \notin Accepted \cup refused
    /\ pending' = Append(pending, j)
    /\ UNCHANGED <<begun, ended, refused, phase>>

Refuse(j) ==
    /\ phase # "open"
    /\ j \notin Accepted \cup refused
    /\ refused' = refused \cup {j}
    /\ UNCHANGED <<pending, begun, ended, phase>>

Begin ==
    /\ pending # <<>>
    /\ Cardinality(begun) < Size
    /\ begun' = begun \cup {Head(pending)}
    /\ pending' = Tail(pending)
    /\ UNCHANGED <<ended, refused, phase>>

End(j) ==
    /\ j \in begun
    /\ begun' = begun \ {j}
    /\ ended' = ended \cup {j}
    /\ UNCHANGED <<pending, refused, phase>>

(* Stopping turns new callers away; closing ends acceptance altogether. *)
Stop ==
    /\ phase = "open"
    /\ phase' = "stopping"
    /\ UNCHANGED <<pending, begun, ended, refused>>

Close ==
    /\ phase = "stopping"
    /\ phase' = "closed"
    /\ UNCHANGED <<pending, begun, ended, refused>>

Drain ==
    /\ phase = "closed"
    /\ pending = <<>> /\ begun = {}
    /\ phase' = "drained"
    /\ UNCHANGED <<pending, begun, ended, refused>>

Next ==
    \/ \E j \in Jobs : Accept(j) \/ Refuse(j) \/ End(j)
    \/ Begin \/ Stop \/ Close \/ Drain

Spec == Init /\ [][Next]_vars
=============================================================================
