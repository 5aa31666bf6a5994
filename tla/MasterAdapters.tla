--------------------------- MODULE MasterAdapters ---------------------------
(***************************************************************************)
(* The adapter of a master node: createAdapter of lib/adapters/index.js    *)
(* picks it by the profile the user chose, for the life of the node, and   *)
(* every call then goes to it.  PortScan is what the ifm and the generic   *)
(* adapter do with a port, JsonApi the adapter of that name.               *)
(***************************************************************************)
EXTENDS PortScan, JsonApi, TLC

vars == <<profile, scanVars, aliasVars>>

Profiles == {"ifm", "jsonapi", "generic"}

\* Whichever adapter it is: its entries have a shape the nodes know, an id is a
\* device's or null, and a write is never counted more often than it was sent.
TypeOK ==
    /\ profile \in Profiles
    /\ ScanTypeOK
    /\ AliasTypeOK

CreateAdapter == profile \in Profiles

\* What the adapter that was picked never looks at is fixed.
Init ==
    /\ CreateAdapter /\ ScanInit /\ AliasInit
    /\ IF profile = "jsonapi" THEN occupant = Nobody ELSE names = [p \in Ports |-> p]

Next ==
    \/ profile # "jsonapi" /\ ScanNext /\ UNCHANGED <<profile, aliasVars>>
    \/ profile = "jsonapi" /\ AliasNext /\ UNCHANGED <<profile, scanVars>>

Spec == Init /\ [][Next]_vars

\* Calls, scans, devices and ports, each with its default alias, are alike; every
\* property here is about safety.
Symmetry ==
    UNION {Permutations(S) : S \in {Callers, Scans, Devices, Ports}}
=============================================================================
