----------------------------- MODULE MCJobParams -----------------------------
(* One value of each kind of a Struct. *)
EXTENDS JobParams

MCNumber == [kind |-> "number", n |-> 3, frac |-> TRUE]
MCSent == {
    MCNumber,
    [kind |-> "string", text |-> <<Digits(1), Word("x")>>],
    [kind |-> "bool", b |-> FALSE],
    [kind |-> "list", items |-> <<MCNumber, [kind |-> "null"]>>],
    [kind |-> "null"] }
=============================================================================
