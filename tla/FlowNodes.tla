------------------------------ MODULE FlowNodes ------------------------------
(***************************************************************************)
(* The nodes of a flow that hand one message's request on to the master,   *)
(* port by port or parameter by parameter, the decode node, which has no   *)
(* master, and the folder of IODDs that the requests end in.  They share   *)
(* no state but the master's: each behaviour is that of one of them.       *)
(***************************************************************************)
EXTENDS ReadNode, ParamNode, ScanNode, DecodeNode, LocalFolder

VARIABLE type

vars == <<type, readVars, paramVars, scanNodeVars, decodeVars, folderVars>>

Types == {"read", "param", "scan", "decode", "folder"}

\* Whatever it is: what it keeps between two awaits, and the last thing it said,
\* have the shape the rest of its handler takes for granted.
TypeOK ==
    /\ type \in Types
    /\ ReadTypeOK /\ ParamTypeOK /\ ScanNodeTypeOK /\ DecodeTypeOK /\ FolderTypeOK

\* What is not of the node's type is fixed.
Init ==
    /\ type \in Types
    /\ ReadInit /\ ParamInit /\ ScanNodeInit /\ DecodeInit /\ FolderInit
    /\ type # "read" => reader.fromMessage /\ ~reader.split
    /\ type # "param" =>
         /\ \A p, q \in Params : name[p] = name[q] /\ stored[p] = stored[q]
         /\ \A p \in Params : access[p] = "rw"
    /\ type # "decode" => configured = Broken /\ \A p \in Paths : disk[p] = Broken
    /\ type # "folder" => \A f \in FolderFiles :
         folder[f] = [content |-> Stray, stamp |-> CHOOSE m \in Stamps : TRUE]

ReadStep ==
    /\ type = "read" /\ ReadNext
    /\ UNCHANGED <<paramVars, scanNodeVars, decodeVars, folderVars>>

ParamStep ==
    /\ type = "param" /\ ParamNext
    /\ UNCHANGED <<readVars, scanNodeVars, decodeVars, folderVars>>

ScanStep ==
    /\ type = "scan" /\ ScanNodeNext
    /\ UNCHANGED <<readVars, paramVars, decodeVars, folderVars>>

DecodeStep ==
    /\ type = "decode" /\ DecodeNext
    /\ UNCHANGED <<readVars, paramVars, scanNodeVars, folderVars>>

FolderStep ==
    /\ type = "folder" /\ FolderNext
    /\ UNCHANGED <<readVars, paramVars, scanNodeVars, decodeVars>>

Next ==
    /\ ReadStep \/ ParamStep \/ ScanStep \/ DecodeStep \/ FolderStep
    /\ UNCHANGED type

Spec == Init /\ [][Next]_vars

\* What was asked for is accounted for, whichever of the requests behind it failed
\* and whatever else was under way: the ports of a rack, a list of parameters, a
\* scan, and an IODD that lies in the folder.  ReadTellsAll and ParamTellsAll name
\* the two cases in which the code tells less: a split read of ports without
\* values, and parameters that share a name.
NothingLost == ReadTellsAll /\ ParamTellsAll /\ ScanTellsAll /\ FolderTellsAll

\* Members of these sets are alike; every property here is about safety.
Symmetry == UNION {Permutations(S) : S \in {Ports, Keys, Params, Values}}
=============================================================================
