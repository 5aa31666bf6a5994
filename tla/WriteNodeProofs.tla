--------------------------- MODULE WriteNodeProofs ---------------------------
(***************************************************************************)
(* What the write node promises about the fields a message leaves out, for *)
(* any number of messages at once and any layout.                          *)
(*                                                                         *)
(* The one step that is not routine is the write that needs no read-back:  *)
(* the code only counts keys.  A message with as many keys as there are    *)
(* items, all of them known, mentions every item, because the layout is    *)
(* finite; were unknown keys ignored instead of refused it would not.      *)
(***************************************************************************)
EXTENDS WriteNode, FiniteSetTheorems, TLAPS

UnderWay(k) == k.pc \in {"resolving", "reading", "writing"}

\* A message under way has seen every value the output has held since.
HeldCurrent ==
    \A w \in Writes : UnderWay(write[w]) =>
        \A f \in Fields : output[f] \in write[w].held[f]

\* As long as nothing else is written, the block agrees with the output on the
\* fields its message leaves out.
CalmAgrees ==
    \A w \in Writes :
        (write[w].pc = "writing" /\ write[w].merge /\ write[w].calm) =>
            \A f \in Fields \ DOMAIN write[w].values : write[w].block[f] = output[f]

IInv == TypeOK /\ HeldCurrent /\ CalmAgrees /\ BaseWasReal

-----------------------------------------------------------------------------

Asked == [pc : {"resolving", "reading"}, values : Payloads, merge : BOOLEAN,
          held : [Fields -> SUBSET Values]]
Encoding == [pc : {"writing"}, values : Payloads, merge : BOOLEAN,
             held : [Fields -> SUBSET Values], block : Blocks, calm : BOOLEAN]

\* The shapes a message under way can have, one by one.
LEMMA HandledShapes ==
  ASSUME NEW k \in Handled
  PROVE  /\ k.pc \in {"idle", "resolving", "reading", "writing", "written"}
         /\ k.pc \in {"resolving", "reading"} =>
              /\ k \in Asked
              /\ k.values \in Payloads /\ k.merge \in BOOLEAN
              /\ k.held \in [Fields -> SUBSET Values]
         /\ k.pc = "writing" =>
              /\ k \in Encoding
              /\ k.values \in Payloads /\ k.merge \in BOOLEAN
              /\ k.held \in [Fields -> SUBSET Values]
              /\ k.block \in Blocks /\ k.calm \in BOOLEAN
  BY DEF Handled, Idle, Asked, Encoding

LEMMA PayloadValues ==
  ASSUME NEW values \in Payloads
  PROVE  /\ DOMAIN values \in SUBSET (Fields \cup {Typo})
         /\ \A f \in DOMAIN values : values[f] \in Values
  BY DEF Payloads

LEMMA EncodedOK ==
  ASSUME NEW base \in Blocks, NEW values \in Payloads
  PROVE  Encoded(base, values) \in Blocks
  BY PayloadValues DEF Encoded, Blocks

LEMMA BlankOK == Blank \in Blocks
  BY LayoutAssumption DEF Blank, Blocks

\* A merging message that skips the read-back and names no unknown key
\* mentions every item.
LEMMA FullPayload ==
  ASSUME NEW k, k.values \in Payloads, k.merge, ~NeedsBase(k), ~Rejects(k.values)
  PROVE  Fields \subseteq DOMAIN k.values
<1>1. DOMAIN k.values \in SUBSET Fields
  BY PayloadValues DEF Rejects
<1>2. IsFiniteSet(Fields)
  BY LayoutAssumption
<1>3. /\ IsFiniteSet(DOMAIN k.values)
      /\ Cardinality(DOMAIN k.values) <= Cardinality(Fields)
      /\ Cardinality(DOMAIN k.values) = Cardinality(Fields) => DOMAIN k.values = Fields
  BY <1>1, <1>2, FS_Subset
<1>4. Cardinality(DOMAIN k.values) \in Nat /\ Cardinality(Fields) \in Nat
  BY <1>2, <1>3, FS_CardinalityType
<1>5. ~(Cardinality(DOMAIN k.values) < Cardinality(Fields))
  BY DEF NeedsBase
<1>6. QED
  BY <1>3, <1>4, <1>5

\* What encoding leaves: either the message is over, or it has a block in which
\* the fields it does not mention come from the base.
LEMMA EncodeEffect ==
  ASSUME TypeOK, NEW w \in Writes, write[w] \in Asked, NEW base \in Blocks, Encode(w, base)
  PROVE  /\ write' \in [Writes -> Handled]
         /\ \A v \in Writes \ {w} : write'[v] = write[v]
         /\ \/ write'[w] = Idle
            \/ /\ ~Rejects(write[w].values)
               /\ write'[w] \in Encoding
               /\ write'[w].pc = "writing"
               /\ write'[w].values = write[w].values
               /\ write'[w].merge = write[w].merge
               /\ write'[w].held = write[w].held
               /\ \A f \in Fields \ DOMAIN write[w].values :
                    write'[w].block[f] = base[f]
<1>1. CASE Rejects(write[w].values)
  BY <1>1 DEF Encode, Abandon, TypeOK, Handled
<1>2. CASE ~Rejects(write[w].values)
  <2> DEFINE block == Encoded(base, write[w].values)
             new == [pc |-> "writing", values |-> write[w].values,
                     merge |-> write[w].merge, held |-> write[w].held,
                     block |-> block, calm |-> TRUE]
  <2>1. write' = [write EXCEPT ![w] = new]
    BY <1>2 DEF Encode
  <2>2. write[w].values \in Payloads /\ block \in Blocks
    BY EncodedOK DEF Asked
  <2>3. new \in Encoding
    BY <2>2 DEF Asked, Encoding
  <2>4. new \in Handled
    BY <2>3 DEF Encoding, Handled
  <2>5. \A f \in Fields \ DOMAIN write[w].values : block[f] = base[f]
    BY DEF Encoded
  <2>6. QED
    BY <1>2, <2>1, <2>3, <2>4, <2>5 DEF TypeOK
<1>3. QED
  BY <1>1, <1>2

-----------------------------------------------------------------------------
(* Preservation.                                                            *)

\* A message that is dropped takes its obligations with it.
LEMMA AbandonKeeps ==
  ASSUME IInv, NEW w \in Writes, Abandon(w), UNCHANGED output
  PROVE  IInv'
<1>1. /\ write' \in [Writes -> Handled]
      /\ \A v \in Writes \ {w} : write'[v] = write[v]
      /\ write'[w] = Idle
  BY DEF IInv, TypeOK, Abandon, Handled
<1>2. write'[w].pc = "idle"
  BY <1>1 DEF Idle
<1>3. TypeOK'
  BY <1>1 DEF IInv, TypeOK
<1>4. HeldCurrent'
  BY <1>1, <1>2 DEF IInv, HeldCurrent, UnderWay
<1>5. CalmAgrees'
  BY <1>1, <1>2 DEF IInv, CalmAgrees
<1>6. BaseWasReal'
  BY <1>1, <1>2 DEF IInv, BaseWasReal
<1>7. QED
  BY <1>3, <1>4, <1>5, <1>6 DEF IInv

\* Encoding keeps the invariant when the fields a merging message leaves out
\* come from the current output.
LEMMA EncodeKeeps ==
  ASSUME IInv, NEW w \in Writes, write[w] \in Asked, NEW base \in Blocks,
         Encode(w, base), UNCHANGED output,
         ~Rejects(write[w].values) /\ write[w].merge =>
            \A f \in Fields \ DOMAIN write[w].values : base[f] = output[f]
  PROVE  IInv'
<1> USE DEF IInv
<1>1. /\ write' \in [Writes -> Handled]
      /\ \A v \in Writes \ {w} : write'[v] = write[v]
      /\ \/ write'[w] = Idle
         \/ /\ ~Rejects(write[w].values)
            /\ write'[w] \in Encoding
            /\ write'[w].pc = "writing"
            /\ write'[w].values = write[w].values
            /\ write'[w].merge = write[w].merge
            /\ write'[w].held = write[w].held
            /\ \A f \in Fields \ DOMAIN write[w].values :
                 write'[w].block[f] = base[f]
  BY EncodeEffect
<1>2. Idle.pc = "idle"
  BY DEF Idle
<1>3. \A f \in Fields : output[f] \in write[w].held[f]
  BY DEF HeldCurrent, UnderWay, Asked
<1>4. TypeOK'
  BY <1>1 DEF TypeOK
<1>5. HeldCurrent'
  BY <1>1, <1>2, <1>3 DEF HeldCurrent, UnderWay
<1>6. CalmAgrees'
  BY <1>1, <1>2 DEF CalmAgrees
<1>7. BaseWasReal'
  BY <1>1, <1>2, <1>3 DEF BaseWasReal
<1>8. QED
  BY <1>4, <1>5, <1>6, <1>7

LEMMA ReceiveKeeps ==
  ASSUME IInv, NEW w \in Writes, Receive(w)
  PROVE  IInv'
<1> USE DEF IInv
<1>1. PICK values \in Payloads, merge \in BOOLEAN :
        write' = [write EXCEPT ![w] =
           [pc |-> "resolving", values |-> values, merge |-> merge,
            held |-> [f \in Fields |-> {output[f]}]]]
  BY DEF Receive
<1> DEFINE new == [pc |-> "resolving", values |-> values, merge |-> merge,
                   held |-> [f \in Fields |-> {output[f]}]]
<1>2. new \in Asked
  BY DEF Asked, TypeOK, Blocks
<1>3. new \in Handled
  BY <1>2 DEF Asked, Handled
<1>4. /\ UNCHANGED output
      /\ write' \in [Writes -> Handled]
      /\ \A v \in Writes \ {w} : write'[v] = write[v]
      /\ write'[w] = new
  BY <1>1, <1>3 DEF TypeOK, Receive
<1>5. new.pc = "resolving" /\ \A f \in Fields : output[f] \in new.held[f]
  OBVIOUS
<1> HIDE DEF new
<1>6. TypeOK'
  BY <1>4 DEF TypeOK
<1>7. HeldCurrent'
  BY <1>4, <1>5 DEF HeldCurrent, UnderWay
<1>8. CalmAgrees'
  BY <1>4, <1>5 DEF CalmAgrees
<1>9. BaseWasReal'
  BY <1>4, <1>5 DEF BaseWasReal
<1>10. QED
  BY <1>6, <1>7, <1>8, <1>9

LEMMA ResolvedKeeps ==
  ASSUME IInv, NEW w \in Writes, Resolved(w)
  PROVE  IInv'
<1> USE DEF IInv
<1>1. write[w] \in Handled /\ write[w].pc = "resolving" /\ UNCHANGED output
  BY DEF Resolved, TypeOK
<1>2. write[w] \in Asked /\ write[w].values \in Payloads
  BY <1>1, HandledShapes
<1>3. CASE NeedsBase(write[w])
  <2> DEFINE new == [write[w] EXCEPT !.pc = "reading"]
  <2>1. write' = [write EXCEPT ![w] = new]
    BY <1>3 DEF Resolved
  <2>2. /\ new \in Asked /\ new.pc = "reading" /\ new.held = write[w].held
    BY <1>2 DEF Asked
  <2>3. new \in Handled
    BY <2>2 DEF Asked, Handled
  <2>4. /\ write' \in [Writes -> Handled]
        /\ \A v \in Writes \ {w} : write'[v] = write[v]
        /\ write'[w] = new
    BY <2>1, <2>3 DEF TypeOK
  <2> HIDE DEF new
  <2>5. TypeOK'
    BY <1>1, <2>4 DEF TypeOK
  <2>6. HeldCurrent'
    BY <1>1, <2>2, <2>4 DEF HeldCurrent, UnderWay
  <2>7. CalmAgrees'
    BY <1>1, <2>2, <2>4 DEF CalmAgrees
  <2>8. BaseWasReal'
    BY <1>1, <2>2, <2>4 DEF BaseWasReal
  <2>9. QED
    BY <2>5, <2>6, <2>7, <2>8
<1>4. CASE ~NeedsBase(write[w])
  <2>1. Encode(w, Blank)
    BY <1>4 DEF Resolved
  <2>2. ~Rejects(write[w].values) /\ write[w].merge =>
          Fields \subseteq DOMAIN write[w].values
    BY <1>2, <1>4, FullPayload
  <2>3. QED
    BY <1>1, <1>2, <2>1, <2>2, BlankOK, EncodeKeeps
<1>5. QED
  BY <1>3, <1>4

LEMMA ReadBackKeeps ==
  ASSUME IInv, NEW w \in Writes, ReadBack(w)
  PROVE  IInv'
<1>1. write[w] \in Handled /\ write[w].pc = "reading" /\ UNCHANGED output
  BY DEF ReadBack, IInv, TypeOK
<1>2. write[w] \in Asked
  BY <1>1, HandledShapes
<1>3. output \in Blocks /\ Encode(w, output)
  BY DEF ReadBack, IInv, TypeOK
<1>4. QED
  BY <1>1, <1>2, <1>3, EncodeKeeps

\* The write itself: every other message under way notes the block, and one
\* that holds a block of its own is calm no longer if the output changed.
LEMMA LandEffect ==
  ASSUME TypeOK, NEW w \in Writes, Land(w), NEW v \in Writes
  PROVE  /\ v # w /\ write[v].pc \in {"resolving", "reading"} =>
              /\ write'[v] \in Handled
              /\ write'[v].pc = write[v].pc
              /\ \A f \in Fields : write[w].block[f] \in write'[v].held[f]
         /\ v # w /\ write[v].pc = "writing" =>
              /\ write'[v] \in Handled
              /\ write'[v].pc = "writing"
              /\ write'[v].values = write[v].values
              /\ write'[v].merge = write[v].merge
              /\ write'[v].block = write[v].block
              /\ write'[v].calm => write[v].calm /\ write[w].block = output
              /\ \A f \in Fields : /\ write[w].block[f] \in write'[v].held[f]
                                   /\ write[v].held[f] \subseteq write'[v].held[f]
         /\ v = w \/ write[v].pc \notin {"resolving", "reading", "writing"} =>
              /\ write'[v] \in Handled
              /\ write'[v].pc \notin {"resolving", "reading", "writing"}
<1> DEFINE block == write[w].block
           quiet == write[v].calm /\ block = output
           asked == [write[v] EXCEPT !.held = [f \in Fields |-> @[f] \cup {block[f]}]]
           noted == [f \in Fields |-> write[v].held[f] \cup {block[f]}]
           encoding == [write[v] EXCEPT !.calm = quiet, !.held = noted]
<1>1. write[w] \in Handled /\ write[w].pc = "writing" /\ write[v] \in Handled
  BY DEF Land, TypeOK
<1>2. \A f \in Fields : block[f] \in Values
  BY <1>1, HandledShapes DEF Blocks
<1>3. write'[v] = IF v = w THEN [pc |-> "written"]
                  ELSE IF write[v].pc \in {"resolving", "reading"} THEN asked
                  ELSE IF write[v].pc = "writing" THEN encoding
                  ELSE write[v]
  BY DEF TypeOK, Land
<1>4. ASSUME v # w, write[v].pc \in {"resolving", "reading"}
      PROVE  /\ write'[v] \in Handled
             /\ write'[v].pc = write[v].pc
             /\ \A f \in Fields : block[f] \in write'[v].held[f]
  <2>1. write[v] \in Asked /\ write'[v] = asked
    BY <1>1, <1>3, <1>4, HandledShapes
  <2>2. asked \in Asked
    BY <1>2, <2>1 DEF Asked
  <2>3. asked.pc = write[v].pc /\ \A f \in Fields : block[f] \in asked.held[f]
    BY <2>1 DEF Asked
  <2>4. QED
    BY <2>1, <2>2, <2>3 DEF Asked, Handled
<1>5. ASSUME v # w, write[v].pc = "writing"
      PROVE  /\ write'[v] \in Handled
             /\ write'[v].pc = "writing"
             /\ write'[v].values = write[v].values
             /\ write'[v].merge = write[v].merge
             /\ write'[v].block = write[v].block
             /\ write'[v].calm => write[v].calm /\ block = output
             /\ \A f \in Fields : /\ block[f] \in write'[v].held[f]
                                  /\ write[v].held[f] \subseteq write'[v].held[f]
  <2>1. write[v] \in Encoding /\ write'[v] = encoding
    BY <1>1, <1>3, <1>5, HandledShapes
  <2>2. quiet \in BOOLEAN
    BY Zenon
  <2>3. /\ noted \in [Fields -> SUBSET Values]
        /\ \A f \in Fields : block[f] \in noted[f] /\ write[v].held[f] \subseteq noted[f]
    BY <1>2, <2>1 DEF Encoding
  <2> HIDE DEF quiet, noted
  <2>4. /\ encoding \in Encoding
        /\ encoding.calm = quiet /\ encoding.held = noted
        /\ encoding.pc = "writing"
        /\ encoding.values = write[v].values
        /\ encoding.merge = write[v].merge
        /\ encoding.block = write[v].block
    BY <2>1, <2>2, <2>3 DEF Encoding
  <2>5. write'[v].calm => write[v].calm /\ block = output
    BY <2>1, <2>4, Zenon DEF quiet
  <2>6. encoding \in Handled
    BY <2>4 DEF Encoding, Handled
  <2> HIDE DEF encoding
  <2>7. QED
    BY <2>1, <2>3, <2>4, <2>5, <2>6
<1> HIDE DEF asked, encoding, block, quiet, noted
<1>6. ASSUME v = w \/ write[v].pc \notin {"resolving", "reading", "writing"}
      PROVE  write'[v] \in Handled /\ write'[v].pc \notin {"resolving", "reading", "writing"}
  <2>1. [pc |-> "written"] \in Handled
    BY DEF Handled
  <2>2. CASE v = w
    <3>1. write'[v] = [pc |-> "written"]
      BY <1>3, <2>2, Zenon
    <3>2. [pc |-> "written"].pc \notin {"resolving", "reading", "writing"}
      OBVIOUS
    <3>3. QED
      BY <2>1, <3>1, <3>2
  <2>3. CASE v # w
    BY <1>1, <1>3, <1>6, <2>3
  <2>4. QED
    BY <2>2, <2>3
<1>7. QED
  BY <1>4, <1>5, <1>6 DEF block

LEMMA LandKeeps ==
  ASSUME IInv, NEW w \in Writes, Land(w)
  PROVE  IInv'
<1> USE DEF IInv
<1>1. write[w].block \in Blocks /\ output' = write[w].block
  BY HandledShapes DEF Land, TypeOK
<1>2. TypeOK'
  <2>1. write' = [v \in Writes |-> write'[v]]
    BY DEF Land
  <2>2. \A v \in Writes : write'[v] \in Handled
    BY LandEffect
  <2>3. QED
    BY <1>1, <2>1, <2>2 DEF TypeOK
<1>3. HeldCurrent'
  BY <1>1, LandEffect DEF HeldCurrent, UnderWay
<1>4. CalmAgrees'
  BY <1>1, LandEffect DEF CalmAgrees
<1>5. BaseWasReal'
  BY LandEffect DEF BaseWasReal
<1>6. QED
  BY <1>2, <1>3, <1>4, <1>5

-----------------------------------------------------------------------------
(* Theorems.                                                                *)

\* Only a write that lands touches the messages of others.
LEMMA OnlyOwn ==
  ASSUME TypeOK, NEW v \in Writes, NEW w \in Writes, v # w,
         \/ Receive(v) \/ Resolved(v) \/ ReadBack(v) \/ ReadBackFails(v)
         \/ Fails(v) \/ Answered(v)
  PROVE  write'[w] = write[w]
  BY DEF TypeOK, Receive, Resolved, ReadBack, ReadBackFails, Fails, Answered,
         Encode, Unavailable, Abandon

LEMMA Initially == Init => IInv
  BY DEF Init, IInv, TypeOK, HeldCurrent, UnderWay, CalmAgrees, BaseWasReal, Handled, Idle

LEMMA StepKeeps == IInv /\ [Next]_vars => IInv'
<1> SUFFICES ASSUME IInv, [Next]_vars PROVE IInv'
  OBVIOUS
<1>1. ASSUME NEW w \in Writes, Receive(w) PROVE IInv'
  BY <1>1, ReceiveKeeps
<1>2. ASSUME NEW w \in Writes, Resolved(w) PROVE IInv'
  BY <1>2, ResolvedKeeps
<1>3. ASSUME NEW w \in Writes, ReadBack(w) PROVE IInv'
  BY <1>3, ReadBackKeeps
<1>4. ASSUME NEW w \in Writes, ReadBackFails(w) PROVE IInv'
  BY <1>4, AbandonKeeps DEF ReadBackFails, Unavailable
<1>5. ASSUME NEW w \in Writes, Fails(w) PROVE IInv'
  BY <1>5, AbandonKeeps DEF Fails
<1>6. ASSUME NEW w \in Writes, Land(w) PROVE IInv'
  BY <1>6, LandKeeps
<1>7. ASSUME NEW w \in Writes, Answered(w) PROVE IInv'
  BY <1>7, AbandonKeeps DEF Answered, Abandon
<1>8. CASE UNCHANGED vars
  BY <1>8 DEF vars, IInv, TypeOK, HeldCurrent, UnderWay, CalmAgrees, BaseWasReal
<1>9. QED
  BY <1>1, <1>2, <1>3, <1>4, <1>5, <1>6, <1>7, <1>8 DEF Next

\* The inductive invariant: every message under way knows the output's values,
\* and a calm block agrees with the output on the fields it was not asked to set.
THEOREM Inductive == Spec => []IInv
  BY Initially, StepKeeps, PTL DEF Spec

\* The port's output stays a full block and a message always has a known shape.
THEOREM TypeCorrect == Spec => []TypeOK
<1>1. IInv => TypeOK
  BY DEF IInv
<1>2. QED
  BY <1>1, Inductive, PTL

\* However many messages overlap, a merging write never invents a value for a
\* field it does not mention (nodes/iolink-write.js 48-69).
THEOREM UnmentionedReal == Spec => []BaseWasReal
<1>1. IInv => BaseWasReal
  BY DEF IInv
<1>2. QED
  BY <1>1, Inductive, PTL

\* A merging write nothing interfered with changes the fields it mentions and
\* no other (nodes/iolink-write.js 54-70).
THEOREM AloneExact == Spec => AloneLeavesOthers
<1> DEFINE A == \A w \in Writes :
              (/\ write[w].pc = "writing" /\ write'[w].pc = "written"
               /\ write[w].merge /\ write[w].calm) =>
                 \A f \in Fields \ DOMAIN write[w].values : output'[f] = output[f]
<1>1. IInv /\ [Next]_vars => A
  <2> SUFFICES ASSUME IInv, [Next]_vars, NEW w \in Writes,
                      write[w].pc = "writing", write'[w].pc = "written",
                      write[w].merge, write[w].calm
               PROVE  \A f \in Fields \ DOMAIN write[w].values : output'[f] = output[f]
    OBVIOUS
  <2> USE DEF IInv
  <2>1. PICK v \in Writes :
          \/ Receive(v) \/ Resolved(v) \/ ReadBack(v) \/ ReadBackFails(v)
          \/ Fails(v) \/ Land(v) \/ Answered(v)
    BY DEF Next, vars
  <2>2. v # w => write'[w] = write[w] \/ Land(v)
    BY <2>1, OnlyOwn
  <2>3. v # w /\ Land(v) => write'[w].pc = "writing"
    BY LandEffect
  <2>4. v = w
    BY <2>2, <2>3
  <2>5. Land(w)
    BY <2>1, <2>4 DEF Receive, Resolved, ReadBack, ReadBackFails, Fails, Answered,
                      Unavailable, Abandon, Idle, TypeOK
  <2>6. QED
    BY <2>5 DEF Land, CalmAgrees
<1>2. QED
  BY <1>1, Inductive, PTL DEF Spec, AloneLeavesOthers
=============================================================================
