------------------------------ MODULE Objects ------------------------------
(***************************************************************************)
(* Objects of the flow as functions from the properties they have.         *)
(***************************************************************************)

\* object[key] = value: the property is added, or gets a new value.
Put(object, key, value) ==
    [k \in DOMAIN object \cup {key} |-> IF k = key THEN value ELSE object[k]]
=============================================================================
