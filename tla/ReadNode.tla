------------------------------ MODULE ReadNode ------------------------------
(***************************************************************************)
(* The read node: nodes/iolink-read.js, with the polling helpers of        *)
(* lib/runtime.js.                                                         *)
(*                                                                         *)
(* A read takes its ports one after another and awaits the master twice    *)
(* for each: who is there, and its process data.  The timer's reads do not *)
(* overlap each other, but nothing orders them and the reads that messages *)
(* ask for.  Of a device's data only their age matters, and which values   *)
(* they are made of: a reading is the number of times the port's data had  *)
(* changed, and with it comes a set of values, which may be empty.         *)
(***************************************************************************)
EXTENDS Naturals, SequencesExt, Objects

CONSTANTS
    Ports,
    Keys,          \* the values process data may have
    Junk,          \* an entry of a port list that is no port number
    Messages,      \* messages that may be under way at once
    Ticks,         \* reads of the timer
    MaxMeasured    \* bound: how often the data of a port change

ASSUME ReadAssumption ==
    /\ Junk \notin Ports /\ MaxMeasured \in Nat
    /\ Messages # {} /\ Messages \cap Ticks = {}

VARIABLES
    reader,        \* the configuration of the node
    measured,      \* the age of each port's process data
    reading,       \* the reads under way
    inFlight, stopped,
    sent,          \* what the node sent or reported in the last step
    latest         \* history: the reading the timer sent last of each port

readVars == <<reader, measured, reading, inFlight, stopped, sent, latest>>

-----------------------------------------------------------------------------

Lists == BoundedSeq(Ports \cup {Junk}, 2) \ {<<>>}
Readings == UNION {[S -> 0..MaxMeasured] : S \in SUBSET Ports}
Carried == Ports \X Keys    \* a value of a port

\* "A port named twice is read once", and what is no port number is left out.
PortsIn(entries) ==
    FoldLeft(LAMBDA ports, e : IF e = Junk \/ Contains(ports, e)
                               THEN ports ELSE Append(ports, e), <<>>, entries)

\* The port field holds a list, or names the property of the message that does.
Configurations ==
    [ports : Lists \cup {<<>>}, fromMessage : BOOLEAN, split : BOOLEAN,
     prefix : BOOLEAN]

Resting == [pc |-> "idle"]
Reads == [pc : {"resolving", "data"}, ports : Lists, at : 1..2,
          read : Readings, carried : SUBSET Carried, errors : SUBSET Ports]
TopicHeads == {<<"prefix">>} \cup ({"iolink", "prefix"} \X Ports)
Parts == [topic : {<<"msg">>} \cup (TopicHeads \X Keys),
          values : Readings, carried : SUBSET Carried, errors : SUBSET Ports]
Silence == [by |-> CHOOSE m \in Messages : TRUE, ports |-> {}, read |-> {},
            carried |-> {}, parts |-> {}, errors |-> {}]

ReadTypeOK ==
    /\ reader \in Configurations
    /\ measured \in [Ports -> 0..MaxMeasured]
    /\ \A r \in Messages \cup Ticks :
         reading[r] # Resting => reading[r] \in Reads /\ reading[r].at \in DOMAIN reading[r].ports
    /\ inFlight \in BOOLEAN /\ stopped \in BOOLEAN
    /\ sent.by \in Messages \cup Ticks
    /\ sent.ports \in SUBSET Ports /\ sent.read \in SUBSET Ports
    /\ sent.errors \in SUBSET Ports /\ sent.carried \in SUBSET Carried
    /\ \A part \in sent.parts : part \in Parts
    /\ latest \in [Ports -> 0..MaxMeasured]

-----------------------------------------------------------------------------

ReadInit ==
    /\ reader \in Configurations
    /\ reader.fromMessage <=> reader.ports = <<>>
    /\ reader.prefix => reader.split
    /\ measured = [p \in Ports |-> 0]
    /\ reading = [r \in Messages \cup Ticks |-> Resting]
    /\ inFlight = FALSE /\ stopped = FALSE
    /\ sent = Silence
    /\ latest = [p \in Ports |-> 0]

Quiet == sent' = Silence /\ UNCHANGED latest

\* Mutant: the timer sends through the node, closed or not.
AlwaysSpeaks(r) == TRUE

\* A message's read keeps the send of its message; the timer's is cut at close.
Speaks(r) == r \in Messages \/ ~stopped

Freshest(parts) ==
    [p \in Ports |-> IF \E part \in parts : p \in DOMAIN part.values
                     THEN (CHOOSE part \in parts : p \in DOMAIN part.values).values[p]
                     ELSE latest[p]]

\* done: with parts to send, or with none; if nothing was read, with an error
\* to report.
End(r, ports, read, carried, parts, errors) ==
    /\ reading' = [reading EXCEPT ![r] = Resting]
    /\ inFlight' = (inFlight /\ r \notin Ticks)
    /\ IF Speaks(r)
       THEN /\ sent' = [by |-> r, ports |-> ports, read |-> DOMAIN read,
                        carried |-> carried, parts |-> parts, errors |-> errors]
            /\ latest' = IF r \in Ticks THEN Freshest(parts) ELSE latest
       ELSE Quiet

\* readOnce up to its first await: a list without a port in it is an error.
Begin(r, entries) ==
    /\ reading[r] = Resting
    /\ IF PortsIn(entries) = <<>>
       THEN End(r, {}, <<>>, {}, {}, {})
       ELSE /\ reading' = [reading EXCEPT ![r] =
                 [pc |-> "resolving", ports |-> PortsIn(entries), at |-> 1,
                  read |-> <<>>, carried |-> {}, errors |-> {}]]
            /\ inFlight' = (inFlight \/ r \in Ticks)
            /\ Quiet
    /\ UNCHANGED <<reader, measured, stopped>>

Input(m) ==
    /\ ~stopped
    /\ \E entries \in IF reader.fromMessage THEN Lists ELSE {reader.ports} :
         Begin(m, entries)

\* Mutant: an interval that does not ask whether the last read has ended.
FiresAnyway == ~stopped

\* A tick is skipped while the one before it runs.
Fires == ~inFlight /\ ~stopped

\* Polling is off when the ports come from a message.
Tick(t) == Fires /\ ~reader.fromMessage /\ Begin(t, reader.ports)

TopicFor(p, count) ==
    IF ~reader.prefix THEN <<"iolink", p>>
    ELSE IF count = 1 THEN <<"prefix">> ELSE <<"prefix", p>>

\* One message keyed by port, or one for each value with its own topic: a port
\* without a value is in none of them.
Body(ports, read, carried, errors) ==
    IF reader.split
    THEN {[topic |-> <<TopicFor(v[1], Len(ports)), v[2]>>,
           values |-> [q \in {v[1]} |-> read[v[1]]], carried |-> {v},
           errors |-> errors] : v \in carried}
    ELSE {[topic |-> <<"msg">>, values |-> read, carried |-> carried, errors |-> errors]}

\* Mutant: the first port that fails ends the read.
StopAtFailure(r, read, carried, errors) ==
    LET k == reading[r] IN
    IF k.at < Len(k.ports) /\ errors = {}
    THEN reading' = [reading EXCEPT ![r] =
           [k EXCEPT !.pc = "resolving", !.at = k.at + 1, !.read = read, !.carried = carried]]
         /\ Quiet /\ UNCHANGED inFlight
    ELSE End(r, ToSet(k.ports), read, carried,
             IF DOMAIN read = {} THEN {} ELSE Body(k.ports, read, carried, errors), errors)

\* Mutant: the loop runs one turn too many.
OneMore(r, read, carried, errors) ==
    LET k == reading[r] IN
    IF k.at <= Len(k.ports)
    THEN /\ reading' = [reading EXCEPT ![r] =
              [k EXCEPT !.pc = "resolving", !.at = k.at + 1,
                        !.read = read, !.carried = carried, !.errors = errors]]
         /\ Quiet /\ UNCHANGED inFlight
    ELSE End(r, ToSet(k.ports), read, carried, Body(k.ports, read, carried, errors), errors)

\* The rest of a turn of the loop: the next port, or the end.  With no port
\* read, of one asked for or of several, there is only an error to report.
Turn(r, read, carried, errors) ==
    LET k == reading[r] IN
    IF k.at < Len(k.ports)
    THEN /\ reading' = [reading EXCEPT ![r] =
              [k EXCEPT !.pc = "resolving", !.at = k.at + 1,
                        !.read = read, !.carried = carried, !.errors = errors]]
         /\ Quiet /\ UNCHANGED inFlight
    ELSE End(r, ToSet(k.ports), read, carried,
             IF DOMAIN read = {} THEN {} ELSE Body(k.ports, read, carried, errors), errors)

Port(r) == reading[r].ports[reading[r].at]

\* resolveDevice has found the device and its IODD.
Resolved(r) ==
    /\ reading[r].pc = "resolving"
    /\ reading' = [reading EXCEPT ![r].pc = "data"]
    /\ Quiet /\ UNCHANGED <<reader, measured, inFlight, stopped>>

\* The process data arrive and are decoded.  Of their values the node takes those
\* that were selected, if the device has any of them.
DataArrive(r) ==
    /\ reading[r].pc = "data"
    /\ \E keys \in SUBSET Keys :
         Turn(r, Put(reading[r].read, Port(r), measured[Port(r)]),
              reading[r].carried \cup ({Port(r)} \X keys), reading[r].errors)
    /\ UNCHANGED <<reader, measured, stopped>>

\* No device, no IODD, a master that does not answer, no data, data that do not
\* fit the layout: "one port must not cost the others their reading".
PortFails(r) ==
    /\ reading[r].pc \in {"resolving", "data"}
    /\ Turn(r, reading[r].read, reading[r].carried, reading[r].errors \cup {Port(r)})
    /\ UNCHANGED <<reader, measured, stopped>>

Close ==
    /\ ~stopped /\ stopped' = TRUE
    /\ Quiet /\ UNCHANGED <<reader, measured, reading, inFlight>>

\* The flow is deployed again: another node, with nothing under way.
Redeploy ==
    /\ stopped /\ \A r \in Messages \cup Ticks : reading[r] = Resting
    /\ stopped' = FALSE /\ inFlight' = FALSE
    /\ sent' = Silence /\ latest' = [p \in Ports |-> 0]
    /\ UNCHANGED <<reader, measured, reading>>

Measure(p) ==
    /\ measured[p] < MaxMeasured
    /\ measured' = [measured EXCEPT ![p] = measured[p] + 1]
    /\ Quiet /\ UNCHANGED <<reader, reading, inFlight, stopped>>

ReadNext ==
    \/ \E m \in Messages : Input(m)
    \/ \E t \in Ticks : Tick(t)
    \/ \E r \in Messages \cup Ticks : Resolved(r) \/ DataArrive(r) \/ PortFails(r)
    \/ \E p \in Ports : Measure(p)
    \/ Close \/ Redeploy

-----------------------------------------------------------------------------
(* Properties.                                                              *)

\* A read accounts for every port that was asked for, as read or as failed and
\* never as both.  What it sends tells every value it read, in one part only and
\* under a topic of its own, and names the ports that failed on every part.  A
\* port that was read is in a message, unless the node splits and the port had
\* no value: where none of those read had one, nothing is sent, and the ports
\* that failed are named nowhere.
ReadTellsAll ==
    /\ sent.read \cup sent.errors = sent.ports /\ sent.read \cap sent.errors = {}
    /\ UNION {part.carried : part \in sent.parts} = sent.carried
    /\ \A part, other \in sent.parts :
         /\ part.errors = sent.errors
         /\ (part.topic = other.topic \/ part.carried \cap other.carried # {}) => part = other
    /\ \A p \in sent.read :
         \/ \E part \in sent.parts : p \in DOMAIN part.values
         \/ reader.split /\ \A v \in sent.carried : v[1] # p

\* What the timer sends of a port never goes back to an older reading, however
\* its reads and those of messages overlap, and a closed node's timer is silent
\* until the flow is deployed again.
TimerGoesForward ==
    [][\/ stopped /\ ~stopped'
       \/ /\ \A p \in Ports : latest'[p] >= latest[p]
          /\ stopped => (sent' = Silence \/ sent'.by \in Messages)]_readVars
=============================================================================
