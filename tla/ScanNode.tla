------------------------------ MODULE ScanNode ------------------------------
(***************************************************************************)
(* The scan node, nodes/iolink-scan.js; the editor's scan route in         *)
(* nodes/iolink-master.js runs the same loop.                              *)
(*                                                                         *)
(* The master is asked for its ports once; the IODD of every device it     *)
(* names is then looked up, one lookup after another.  What the adapter    *)
(* puts into an entry is a matter of PortScan: here a port is empty, has a *)
(* device of unknown identity, or a device that can be looked up.          *)
(***************************************************************************)
EXTENDS Naturals, SequencesExt, Objects

CONSTANTS
    Sockets,       \* the master's ports
    Watched        \* those the master is asked for when no port is named

ASSUME WatchedAssumption == Watched \subseteq Sockets

VARIABLES
    looking,       \* the scan under way
    listed         \* the last message

scanNodeVars == <<looking, listed>>

-----------------------------------------------------------------------------

Contents == {"empty", "unidentified", "identified"}
Verdicts == {"iodd", "error"}
Entries(S) == UNION {[T -> Contents] : T \in SUBSET S}

NotLooking == [pc |-> "idle"]
Lookups == [pc : {"asking", "walking"}, asked : SUBSET Sockets,
            entries : Entries(Sockets), resolve : BOOLEAN,
            iodds : UNION {[T -> Verdicts] : T \in SUBSET Sockets}]

ScanNodeTypeOK ==
    /\ looking = NotLooking \/ looking \in Lookups
    /\ listed = NotLooking \/ listed \in [pc : {"sent", "failed"}, of : Lookups]

-----------------------------------------------------------------------------

ScanNodeInit == looking = NotLooking /\ listed = NotLooking

Tell(outcome, k) ==
    /\ looking' = NotLooking
    /\ listed' = [pc |-> outcome, of |-> k]

\* parsePorts: msg.ports before the configuration, no ports for the default.
ScanInput ==
    /\ looking = NotLooking
    /\ \E asked \in (SUBSET Sockets \ {{}}) \cup {Watched}, resolve \in BOOLEAN :
         looking' = [pc |-> "asking", asked |-> asked, entries |-> <<>>,
                     resolve |-> resolve, iodds |-> <<>>]
    /\ listed' = NotLooking

\* The adapter's list.
PortsAnswer ==
    /\ looking.pc = "asking"
    /\ \E entries \in [looking.asked -> Contents] :
         looking' = [looking EXCEPT !.pc = "walking", !.entries = entries]
    /\ UNCHANGED listed

\* A list that holds no port number, or a master that fails altogether.
ScanFails == looking.pc = "asking" /\ Tell("failed", looking)

\* The entries with both ids whose IODD has not been looked up yet.
Missing ==
    {p \in DOMAIN looking.entries :
       /\ looking.resolve /\ looking.entries[p] = "identified"
       /\ p \notin DOMAIN looking.iodds}

\* "A device without a published IODD is a normal finding, not a failure."
Lookup ==
    /\ looking.pc = "walking"
    /\ \E p \in Missing, verdict \in Verdicts :
         looking' = [looking EXCEPT !.iodds = Put(looking.iodds, p, verdict)]
    /\ UNCHANGED listed

ScanDone ==
    /\ looking.pc = "walking" /\ Missing = {}
    /\ Tell("sent", looking)

ScanNodeNext == ScanInput \/ PortsAnswer \/ ScanFails \/ Lookup \/ ScanDone

-----------------------------------------------------------------------------

\* A scan tells of every port that was asked for, and of every device that has an
\* identity whether its IODD was found, whichever lookups before it failed.
ScanTellsAll ==
    listed.pc = "sent" =>
      /\ DOMAIN listed.of.entries = listed.of.asked
      /\ DOMAIN listed.of.iodds =
           {p \in listed.of.asked : listed.of.entries[p] = "identified" /\ listed.of.resolve}
=============================================================================
