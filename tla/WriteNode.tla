------------------------------ MODULE WriteNode ------------------------------
(***************************************************************************)
(* The write node: nodes/iolink-write.js, with what encodeLayout does to   *)
(* the block it is given.                                                  *)
(*                                                                         *)
(* Every message is handled on its own: resolve the device, read the       *)
(* current output back if the message does not set every field, encode,    *)
(* write.  Each of the three is an await, nothing orders two messages, and *)
(* other nodes write the same port.  The process data block is a function  *)
(* from fields to values; Zero is what a freshly allocated block holds.    *)
(***************************************************************************)
EXTENDS Naturals, FiniteSets

CONSTANTS
    Writes,     \* messages that may be under way at once
    Fields,     \* the items of the output layout
    Values,
    Zero,       \* the value of a field in an all-zero block
    Typo        \* a key the layout does not know

ASSUME LayoutAssumption ==
    /\ IsFiniteSet(Fields) /\ Typo \notin Fields
    /\ Zero \in Values

VARIABLES
    output,     \* the output process data of the port
    write       \* the messages being handled

vars == <<output, write>>

-----------------------------------------------------------------------------

Blocks == [Fields -> Values]

\* What a message asks for: a value for each key it mentions.
Payloads == UNION {[keys -> Values] : keys \in SUBSET (Fields \cup {Typo})}

\* `held` and `calm` are history fields: the values each field of the output
\* has held since the message arrived, and whether the output has been left
\* alone since it was read back.
Idle == [pc |-> "idle"]
Handled ==
         {Idle}
    \cup [pc : {"resolving", "reading"}, values : Payloads, merge : BOOLEAN,
          held : [Fields -> SUBSET Values]]
    \cup [pc : {"writing"}, values : Payloads, merge : BOOLEAN,
          held : [Fields -> SUBSET Values], block : Blocks, calm : BOOLEAN]
    \cup [pc : {"written"}]

\* The port's output is always a value for every field of the layout: what is
\* written is a whole block, never just the fields a message mentions.
TypeOK ==
    /\ output \in Blocks
    /\ write \in [Writes -> Handled]

-----------------------------------------------------------------------------

Init ==
    /\ output \in Blocks
    /\ write = [w \in Writes |-> Idle]

Receive(w) ==
    /\ write[w] = Idle
    /\ \E values \in Payloads, merge \in BOOLEAN :
         write' = [write EXCEPT ![w] =
           [pc |-> "resolving", values |-> values, merge |-> merge,
            held |-> [f \in Fields |-> {output[f]}]]]
    /\ UNCHANGED output

\* The message is answered with an error: a bad port or payload, no device, no
\* way to merge, a value that does not fit, a master that refused.
Abandon(w) == write' = [write EXCEPT ![w] = Idle]

\* The code compares the number of keys with the number of items.
NeedsBase(k) == k.merge /\ Cardinality(DOMAIN k.values) < Cardinality(Fields)

Blank == [f \in Fields |-> Zero]

\* Mutant: the message's values alone make the block.
Overlaid(base, values) ==
    [f \in DOMAIN values |-> values[f]]

\* Encoding writes the mentioned items into the block it starts from.
Encoded(base, values) ==
    [f \in Fields |-> IF f \in DOMAIN values THEN values[f] ELSE base[f]]

\* Mutant: unknown keys are dropped silently.
KeepsGoing(values) == FALSE

\* encodeLayout refuses keys it does not know, whatever else is in the message.
Rejects(values) == Typo \in DOMAIN values

Encode(w, base) ==
    IF Rejects(write[w].values)
    THEN Abandon(w)
    ELSE write' = [write EXCEPT ![w] =
           [pc |-> "writing", values |-> write[w].values,
            merge |-> write[w].merge, held |-> write[w].held,
            block |-> Encoded(base, write[w].values), calm |-> TRUE]]

\* resolveDevice has returned.
Resolved(w) ==
    /\ write[w].pc = "resolving"
    /\ IF NeedsBase(write[w])
       THEN write' = [write EXCEPT ![w].pc = "reading"]
       ELSE Encode(w, Blank)
    /\ UNCHANGED output

\* The master has sent its output.
ReadBack(w) ==
    /\ write[w].pc = "reading"
    /\ Encode(w, output)
    /\ UNCHANGED output

\* Mutant: a master that cannot read its output back is taken to hold zeros.
MergeIntoZero(w) == Encode(w, Blank)

\* A failed or an empty read-back ends the message: IOLINK_MERGE_UNAVAILABLE.
Unavailable(w) == Abandon(w)

ReadBackFails(w) ==
    /\ write[w].pc = "reading"
    /\ Unavailable(w)
    /\ UNCHANGED output

\* Anything before the write may fail: it reports the error and writes nothing.
Fails(w) ==
    /\ write[w].pc \in {"resolving", "writing"}
    /\ Abandon(w)
    /\ UNCHANGED output

\* The master takes the block over.  Every message still under way lives on
\* with an output that has changed since.
Land(w) ==
    /\ write[w].pc = "writing"
    /\ output' = write[w].block
    /\ write' = [v \in Writes |->
         IF v = w THEN [pc |-> "written"]
         ELSE IF write[v].pc \in {"resolving", "reading"}
         THEN [write[v] EXCEPT !.held =
                [f \in Fields |-> @[f] \cup {write[w].block[f]}]]
         ELSE IF write[v].pc = "writing"
         THEN [write[v] EXCEPT !.calm = @ /\ write[w].block = output,
                !.held = [f \in Fields |-> @[f] \cup {write[w].block[f]}]]
         ELSE write[v]]

\* The answer to the write arrives, or is lost; the message is done either way.
Answered(w) ==
    /\ write[w].pc = "written"
    /\ write' = [write EXCEPT ![w] = Idle]
    /\ UNCHANGED output

Next == \E w \in Writes :
    \/ Receive(w) \/ Resolved(w) \/ ReadBack(w) \/ ReadBackFails(w)
    \/ Fails(w) \/ Land(w) \/ Answered(w)

Spec == Init /\ [][Next]_vars

-----------------------------------------------------------------------------
(* Properties.                                                              *)

\* "Silently zeroing the fields the flow did not mention" never happens: every
\* field a merging write does not mention is given a value the port's output
\* really held since the message arrived, whichever reads fail or overlap.
BaseWasReal ==
    \A w \in Writes : write[w].pc = "writing" /\ write[w].merge =>
        \A f \in Fields \ DOMAIN write[w].values :
            write[w].block[f] \in write[w].held[f]

\* With nothing else written between its read-back and its write, a merging
\* write changes the fields it mentions and no other.
AloneLeavesOthers ==
    [][\A w \in Writes :
         (/\ write[w].pc = "writing" /\ write'[w].pc = "written"
          /\ write[w].merge /\ write[w].calm) =>
            \A f \in Fields \ DOMAIN write[w].values : output'[f] = output[f]]_vars

\* nodes/iolink-write.js:9: "the device's current output is read first and used
\* as the base, so setting one field leaves the others alone" - whatever else
\* is written meanwhile.
LeavesOthersAlone ==
    [][\A w \in Writes :
         (write[w].pc = "writing" /\ write'[w].pc = "written" /\ write[w].merge) =>
            \A f \in Fields \ DOMAIN write[w].values : output'[f] = output[f]]_vars
=============================================================================
