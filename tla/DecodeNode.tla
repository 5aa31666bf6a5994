----------------------------- MODULE DecodeNode -----------------------------
(***************************************************************************)
(* The decode node, nodes/iodd-decode.js: the IODDs that come with         *)
(* messages.                                                               *)
(*                                                                         *)
(* A message brings its IODD as XML or as the path of a file, and the node *)
(* keeps the last few parsed, by what the message said.  XML always parses *)
(* to the same device; a file may be exchanged for another, or be broken,  *)
(* at any time.                                                            *)
(***************************************************************************)
EXTENDS Naturals, SequencesExt

CONSTANTS
    Texts,         \* IODDs sent as XML; each stands for its device as well
    Paths,
    Broken,        \* what does not parse, or is not there
    MessageIoddCache

ASSUME DecodeAssumption ==
    /\ Broken \notin Texts /\ Texts \cap Paths = {}
    /\ MessageIoddCache \in Nat \ {0}

VARIABLES
    disk,          \* the device the file at each path describes
    configured,    \* the device of the node's own IODD
    fromMessage,   \* the Map, oldest first
    active,        \* the device the last message was decoded with
    since          \* history: the sources used since each one was, itself included

decodeVars == <<disk, configured, fromMessage, active, since>>

-----------------------------------------------------------------------------

Sources == Texts \cup Paths
Devices == Texts \cup {Broken}
Kept == [source : Sources, device : Texts]
KeptSources == {fromMessage[i].source : i \in DOMAIN fromMessage}

DecodeTypeOK ==
    /\ disk \in [Paths -> Devices]
    /\ configured \in Devices /\ active \in Devices
    /\ fromMessage \in BoundedSeq(Kept, MessageIoddCache)
    /\ Cardinality(KeptSources) = Len(fromMessage)
    /\ since \in [Sources -> SUBSET Sources]

DecodeInit ==
    /\ disk \in [Paths -> Devices]
    /\ configured \in Devices /\ active = Broken
    /\ fromMessage = <<>>
    /\ since = [s \in Sources |-> {}]

\* readIodd and parseIodd.
Parse(source) == IF source \in Paths THEN disk[source] ELSE source

\* Mutant: a hit leaves the order of the Map as it is.
InPlace(i) == fromMessage

\* delete and set: the entry becomes the newest.
Reinserted(i) == Append(RemoveAt(fromMessage, i), fromMessage[i])

Evict(kept) == IF Len(kept) > MessageIoddCache THEN Tail(kept) ELSE kept

\* History: a source that was used starts anew, and counts for those used before.
Used(source) ==
    [s \in Sources |-> IF s = source THEN {s}
                       ELSE IF since[s] = {} THEN {} ELSE since[s] \cup {source}]

Hit(source) ==
    \E i \in DOMAIN fromMessage :
      /\ fromMessage[i].source = source
      /\ active' = fromMessage[i].device
      /\ fromMessage' = Reinserted(i)
      /\ since' = Used(source)

\* What does not parse is an error of the message, and is not remembered.
Miss(source) ==
    /\ source \notin KeptSources
    /\ active' = Parse(source)
    /\ IF Parse(source) = Broken
       THEN UNCHANGED <<fromMessage, since>>
       ELSE /\ fromMessage' = Evict(Append(fromMessage, [source |-> source, device |-> Parse(source)]))
            /\ since' = Used(source)

Decode ==
    /\ \E source \in Sources : Hit(source) \/ Miss(source)
    /\ UNCHANGED <<disk, configured>>

\* Without an IODD of its own a message goes by the node's.
DecodeConfigured ==
    /\ active' = configured
    /\ UNCHANGED <<disk, configured, fromMessage, since>>

\* The close handler clears the Map; the next deploy loads the node's IODD.
Restart ==
    /\ fromMessage' = <<>> /\ since' = [s \in Sources |-> {}]
    /\ configured' \in Devices /\ active' = Broken
    /\ UNCHANGED disk

Exchange ==
    /\ \E path \in Paths, device \in Devices : disk' = [disk EXCEPT ![path] = device]
    /\ UNCHANGED <<configured, fromMessage, active, since>>

DecodeNext == Decode \/ DecodeConfigured \/ Restart \/ Exchange

-----------------------------------------------------------------------------

\* What the node keeps are the sources used last: one is still there exactly while
\* fewer others than there is room for have been used since.  Neither a broken
\* source nor one used twice pushes another out.
LeastRecentlyUsed ==
    KeptSources = {s \in Sources : Cardinality(since[s]) \in 1..MessageIoddCache}
=============================================================================
