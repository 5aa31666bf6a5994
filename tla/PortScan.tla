------------------------------ MODULE PortScan ------------------------------
(***************************************************************************)
(* One port in scanPorts of lib/adapters/ifm.js and lib/adapters/generic.js*)
(* over requestJson of lib/http.js.                                        *)
(*                                                                         *)
(* Both adapters put a port's entry together from requests the master      *)
(* answers one by one: first the port's status, then, if a device is       *)
(* there, who it is.  Every request may be answered, refused or lost on    *)
(* its own, and the device may be exchanged between any two of them.       *)
(* Product name, serial number and the process data probe are asked for    *)
(* alongside and fail in the same way; nothing is decided by them.         *)
(***************************************************************************)
EXTENDS Naturals

CONSTANTS
    Scans,       \* scans of the port that may overlap
    Devices,
    Nobody       \* no device, and no id

ASSUME NobodyAssumption == Nobody \notin Devices

VARIABLES
    profile,     \* which adapter the master node was given
    occupant,    \* the device on the port
    unsupported, \* generic: what has no path, and identity paths refused
    scan,        \* the scans under way
    refusedOnce  \* history: what never had a path, and identity paths ever refused

scanVars == <<occupant, unsupported, scan, refusedOnce>>

-----------------------------------------------------------------------------

\* ifm has the port's status and its mode behind requests of their own; the
\* generic adapter knows a status only if it was given a path for it.
StatusUnknown == profile = "generic" /\ "status" \in unsupported
StatusRequests ==
    CASE profile = "ifm" -> {"status", "mode"}
      [] StatusUnknown -> {}
      [] OTHER -> {"status"}
IdRequests == {"vendorId", "deviceId"}
Requests == {"status", "mode"} \cup IdRequests
Optional == {"status"} \cup IdRequests

Pending == "pending"
Failures == {"refused", "lost"}
Settled == Failures \cup {"connected", "vacant", "unasked", "mode"} \cup Devices

\* `calm` and `vacant` are history fields: nothing failed and nobody came or
\* went since the scan began, and the port was without a device at some moment.
Resting == [pc |-> "idle"]
Entry == [kind : {"error", "unknown"}] \cup [kind : {"present", "absent"},
                                  vendorId : Devices \cup {Nobody},
                                  deviceId : Devices \cup {Nobody}]
Scanning ==
         [pc : {"status", "identity"}, got : [Requests -> Settled \cup {Pending}],
          calm : BOOLEAN, vacant : BOOLEAN]
    \cup [pc : {"done"}, got : [Requests -> Settled \cup {Pending}],
          calm : BOOLEAN, vacant : BOOLEAN, entry : Entry]

ScanTypeOK ==
    /\ occupant \in Devices \cup {Nobody}
    /\ unsupported \in SUBSET Optional
    /\ scan \in [Scans -> {Resting} \cup Scanning]
    /\ refusedOnce \in SUBSET Optional

-----------------------------------------------------------------------------

ScanInit ==
    /\ occupant \in Devices \cup {Nobody}
    /\ unsupported \in IF profile = "generic" THEN SUBSET Optional ELSE {{}}
    /\ scan = [s \in Scans |-> Resting]
    /\ refusedOnce = unsupported

Unanswered == [r \in Requests |-> Pending]

Scan(s) ==
    /\ scan[s] = Resting
    /\ scan' = [scan EXCEPT ![s] =
         [pc |-> "status", got |-> Unanswered, calm |-> TRUE,
          vacant |-> occupant = Nobody]]
    /\ UNCHANGED <<occupant, unsupported, refusedOnce>>

\* What the master says when it answers.  Without a device there is nobody to
\* identify, and it refuses.  A device it holds for the wrong one, or whose
\* communication fails, is no device on a port it answers for.
Says(r) ==
    CASE r = "status" -> IF occupant = Nobody THEN "vacant" ELSE "connected"
      [] r = "mode" -> "mode"
      [] r \in IdRequests -> IF occupant = Nobody THEN "refused" ELSE occupant

Asked(s) == IF scan[s].pc = "status" THEN StatusRequests ELSE IdRequests

\* Mutant: a path the master did not answer in time is not asked for again.
AlsoWhenLost(r, outcome) ==
    IF profile = "generic" /\ r \in IdRequests /\ outcome \in Failures
    THEN unsupported \cup {r} ELSE unsupported

\* A refusal is about the path, and is for good; silence is not.
Unsupported(r, outcome) ==
    IF profile = "generic" /\ r \in IdRequests /\ outcome = "refused"
    THEN unsupported \cup {r} ELSE unsupported

\* One request is answered, refused with any code, or not answered in time.
Settle(s, r) ==
    /\ scan[s].pc \in {"status", "identity"}
    /\ r \in Asked(s) /\ scan[s].got[r] = Pending
    /\ \E outcome \in {Says(r)} \cup Failures :
         /\ scan' = [scan EXCEPT ![s].got[r] = outcome,
                                 ![s].calm = scan[s].calm /\ outcome \notin Failures]
         /\ unsupported' = Unsupported(r, outcome)
         /\ refusedOnce' = IF r \in IdRequests /\ outcome = "refused"
                           THEN refusedOnce \cup {r} ELSE refusedOnce
    /\ UNCHANGED occupant

Done(s, entry) ==
    scan' = [scan EXCEPT ![s] =
      [pc |-> "done", got |-> scan[s].got, calm |-> scan[s].calm,
       vacant |-> scan[s].vacant, entry |-> entry]]

\* Mutant: a port that answers nothing is taken for an empty one.
NeverUnanswered(got) == FALSE

\* ifm: "a port that answers nothing at all is not empty".
NothingAnswered(got) == \A r \in StatusRequests : got[r] \in Failures

\* A refusal of the status by an IoT Core is a state of the port; any other
\* failure is an outage, and so is every failure for the generic adapter.
Throws(got) ==
    IF NothingAnswered(got)
    THEN IF profile = "ifm" /\ got["status"] = "refused" THEN "absent" ELSE "error"
    ELSE "nothing"

Absent == [kind |-> "absent", vendorId |-> Nobody, deviceId |-> Nobody]

\* The generic adapter does not ask for what has no path or was refused before.
Identify(s) ==
    scan' = [scan EXCEPT ![s].pc = "identity",
      ![s].got = [r \in Requests |->
         IF profile = "generic" /\ r \in unsupported THEN "unasked" ELSE scan[s].got[r]]]

StatusKnown(s) ==
    LET got == scan[s].got IN
    /\ scan[s].pc = "status"
    /\ \A r \in StatusRequests : got[r] # Pending
    /\ \/ StatusUnknown /\ Done(s, [kind |-> "unknown"])
       \/ ~StatusUnknown /\ Throws(got) = "error" /\ Done(s, [kind |-> "error"])
       \/ ~StatusUnknown /\ Throws(got) = "absent" /\ Done(s, Absent)
       \/ /\ ~StatusUnknown /\ Throws(got) = "nothing"
          /\ IF got["status"] = "connected" THEN Identify(s) ELSE Done(s, Absent)
    /\ UNCHANGED <<occupant, unsupported, refusedOnce>>

\* Mutant: what came back is the id, whatever it was.
RawId(got, r) == got[r]

\* An id that was not answered is null, or left out.
Id(got, r) == IF got[r] \in Devices THEN got[r] ELSE Nobody

IdentityKnown(s) ==
    /\ scan[s].pc = "identity"
    /\ \A r \in IdRequests : scan[s].got[r] # Pending
    /\ Done(s, [kind |-> "present", vendorId |-> Id(scan[s].got, "vendorId"),
                deviceId |-> Id(scan[s].got, "deviceId")])
    /\ UNCHANGED <<occupant, unsupported, refusedOnce>>

Return(s) ==
    /\ scan[s].pc = "done"
    /\ scan' = [scan EXCEPT ![s] = Resting]
    /\ UNCHANGED <<occupant, unsupported, refusedOnce>>

\* The device is pulled, plugged in or exchanged.
Exchange(d) ==
    /\ d # occupant
    /\ occupant' = d
    /\ scan' = [s \in Scans |->
         IF scan[s] # Resting
         THEN [scan[s] EXCEPT !.calm = FALSE, !.vacant = scan[s].vacant \/ d = Nobody]
         ELSE scan[s]]
    /\ UNCHANGED <<unsupported, refusedOnce>>

ScanNext ==
    \/ \E s \in Scans : \/ Scan(s) \/ StatusKnown(s) \/ IdentityKnown(s) \/ Return(s)
                        \/ \E r \in Requests : Settle(s, r)
    \/ \E d \in Devices \cup {Nobody} : Exchange(d)

-----------------------------------------------------------------------------
(* Properties.                                                              *)

Finished(s) == scan[s].pc = "done"

\* "Reporting that as no device would turn an outage into silence": an entry
\* says that nobody is there only if that was so at some moment of the scan, or
\* the master refused the status, or, with ifm, the status alone was lost while
\* the mode was answered.
EmptyIsEmpty ==
    \A s \in Scans : (Finished(s) /\ scan[s].entry.kind = "absent") =>
        \/ scan[s].vacant
        \/ scan[s].got["status"] = "refused"
        \/ scan[s].got["status"] = "lost" /\ scan[s].got["mode"] = "mode"

\* A scan that nothing disturbed tells who is there, both ids of one device,
\* and leaves out only what there is no path for or the master once refused.
UndisturbedTellsAll ==
    \A s \in Scans : (Finished(s) /\ scan[s].calm) =>
        \/ scan[s].vacant /\ scan[s].entry = Absent
        \/ StatusUnknown /\ scan[s].entry.kind = "unknown"
        \/ /\ scan[s].entry.kind = "present"
           /\ \A r \in IdRequests \ (IF profile = "generic" THEN refusedOnce ELSE {}) :
                LET id == IF r = "vendorId" THEN scan[s].entry.vendorId
                          ELSE scan[s].entry.deviceId
                IN id = occupant
=============================================================================
