------------------------------ MODULE JobParams ------------------------------
(***************************************************************************)
(* How a handler reads the parameters of a job: newJob and resolveParams   *)
(* (job_factory.go), Job.Param (job.go), and the accessors of ParamValue   *)
(* with their conversions (param.go).                                      *)
(*                                                                         *)
(* A Go value is a record whose `type' is its dynamic type: "int" stands   *)
(* for the signed integers, "float64" for both floats. A text is the       *)
(* sequence of its comma-separated parts, each of which is a number, a     *)
(* truth value or a word (empty parts, which are passed over, are left     *)
(* out).                                                                   *)
(***************************************************************************)
EXTENDS Integers, Sequences

CONSTANTS
    Names,      \* the names of the parameters
    Sent        \* the values the server may send: [kind, ...] of a protobuf Struct

VARIABLES
    params,     \* j.params, or Nil for the nil map
    detail,     \* the Struct of the job detail, or Nil
    pc,
    read        \* what the handler has read last

vars == <<params, detail, pc, read>>

Nil    == [type |-> "nil"]
Unset  == [set |-> FALSE, value |-> Nil]
Wants  == {"string", "int", "bool", "strings", "ints"}
Nothing == [name |-> "", want |-> "", isSet |-> FALSE, got |-> 0]

Digits(n)  == [part |-> "digits", n |-> n]
Decimal(n) == [part |-> "decimal", n |-> n]
Truth(b)   == [part |-> "truth", b |-> b]
Word(w)    == [part |-> "word", w |-> w]

-----------------------------------------------------------------------------
(* The conversions of param.go. *)

IsText(v)   == v.type \in {"string", "[]byte", "json.Number"}
IsNumber(v) == v.type \in {"int", "float64"}

(* strconv.Atoi and json.Number.Int64 on a text; strconv.ParseBool, which   *)
(* takes 0 and 1 as well.                                                   *)
IsInt(text)     == Len(text) = 1 /\ text[1].part = "digits"
IsBool(text)    == Len(text) = 1 /\ \/ text[1].part = "truth"
                                    \/ text[1].part = "digits" /\ text[1].n \in {0, 1}
ParseBool(text) == IF text[1].part = "truth" THEN text[1].b ELSE text[1].n = 1

toString(v, fallback) ==
    CASE IsText(v)        -> v.text
      [] v.type = "int"   -> <<Digits(v.n)>>
      [] v.type = "float64" -> <<IF v.frac THEN Decimal(v.n) ELSE Digits(v.n)>>
      [] v.type = "bool"  -> <<Truth(v.b)>>
      [] OTHER            -> fallback

(* A fraction is cut off. *)
toInt(v, fallback) ==
    CASE IsNumber(v) -> v.n
      [] v.type \in {"string", "json.Number"} /\ IsInt(v.text) -> v.text[1].n
      [] OTHER -> fallback

toBool(v, fallback) ==
    CASE v.type = "bool"    -> v.b
      [] v.type = "string" /\ IsBool(v.text) -> ParseBool(v.text)
      [] v.type = "int"     -> v.n # 0
      [] v.type = "float64" -> v.n # 0 \/ v.frac
      [] v.type = "json.Number" /\ IsInt(v.text) -> v.text[1].n # 0
      [] OTHER -> fallback

(* A nil item is left out of the strings, but is a 0 among the integers.    *)
toStrings(v, fallback) ==
    CASE v.type = "[]string" -> v.texts
      [] v.type = "[]any"    -> LET some == SelectSeq(v.items, LAMBDA i : i # Nil)
                                IN [k \in 1..Len(some) |-> toString(some[k], <<>>)]
      [] v.type = "string"   -> [k \in 1..Len(v.text) |-> <<v.text[k]>>]
      [] OTHER -> fallback

toInts(v, fallback) ==
    CASE v.type = "[]int"  -> v.ints
      [] v.type = "[]any"  -> [k \in 1..Len(v.items) |-> toInt(v.items[k], 0)]
      [] v.type = "string" -> LET ints == SelectSeq(v.text, LAMBDA p : p.part = "digits")
                              IN [k \in 1..Len(ints) |-> ints[k].n]
      [] OTHER -> fallback

Convert(want, v, fallback) ==
    CASE want = "string"  -> toString(v, fallback)
      [] want = "int"     -> toInt(v, fallback)
      [] want = "bool"    -> toBool(v, fallback)
      [] want = "strings" -> toStrings(v, fallback)
      [] want = "ints"    -> toInts(v, fallback)

(* StringOr, IntOr, BoolOr, StringsOr and IntsOr. *)
Or(want, p, fallback) ==
    IF ~p.set \/ p.value = Nil THEN fallback ELSE Convert(want, p.value, fallback)

-----------------------------------------------------------------------------
(* structValueToInterface returns its argument: the dynamic type of the     *)
(* value is *structpb.Value, whatever it holds.                             *)
structValueToInterface(v) == [type |-> "*structpb.Value", of |-> v]

(* Job.Param *)
Param(name) ==
    IF params = Nil \/ name \notin DOMAIN params THEN Unset
    ELSE [set |-> TRUE, value |-> params[name]]

(* What the handler gives as the fallback: nothing the server sends. *)
Fallback(want) ==
    CASE want = "string" -> <<Word("default")>>
      [] want = "int"    -> -1
      [] want = "bool"   -> TRUE
      [] OTHER           -> <<>>

(* The server sends no Struct, or one with some of the parameters. *)
Init ==
    /\ detail \in {Nil} \cup UNION {[some -> Sent] : some \in SUBSET Names}
    /\ params = Nil
    /\ pc = "new"
    /\ read = Nothing

(* newJob with resolveParams *)
newJob ==
    /\ pc = "new" /\ pc' = "running"
    /\ params' = IF detail = Nil THEN Nil
                 ELSE [name \in DOMAIN detail |-> structValueToInterface(detail[name])]
    /\ UNCHANGED <<detail, read>>

Read(name, want) ==
    /\ pc = "running"
    /\ read' = [name |-> name, want |-> want, isSet |-> Param(name).set,
                got |-> Or(want, Param(name), Fallback(want))]
    /\ UNCHANGED <<params, detail, pc>>

Next == newJob \/ \E name \in Names, want \in Wants : Read(name, want)

Spec == Init /\ [][Next]_vars

-----------------------------------------------------------------------------
(* The Go value that a value of a Struct stands for; lists are flat here.   *)
Scalar(v) ==
    CASE v.kind = "number" -> [type |-> "float64", n |-> v.n, frac |-> v.frac]
      [] v.kind = "string" -> [type |-> "string", text |-> v.text]
      [] v.kind = "bool"   -> [type |-> "bool", b |-> v.b]
      [] OTHER             -> Nil
GoValue(v) ==
    IF v.kind = "list"
    THEN [type |-> "[]any", items |-> [i \in 1..Len(v.items) |-> Scalar(v.items[i])]]
    ELSE Scalar(v)

(* param.go:128 "IntOr returns the value as an integer or the fallback if   *)
(* not set", and so for the other types: a parameter that the server sent   *)
(* and that is set is read as its value.                                    *)
SetParameterIsRead ==
    read.isSet => read.got = Or(read.want, [set |-> TRUE, value |-> GoValue(detail[read.name])],
                                Fallback(read.want))
=============================================================================
