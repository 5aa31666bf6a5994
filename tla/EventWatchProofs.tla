-------------------------- MODULE EventWatchProofs --------------------------
(***************************************************************************)
(* What the event node promises for any number of ports and devices and    *)
(* any number of messages that poll it beside the timer.                   *)
(*                                                                         *)
(* NoChangeLost speaks of the time between polls.  What carries it through *)
(* a poll is WalkInStep: in the middle of the walk over the ports, the     *)
(* flow's picture and the node's differ by the messages collected so far.  *)
(* That only holds because nobody else walks, which is what the serialiser *)
(* is for (Serialised).                                                    *)
(***************************************************************************)
EXTENDS EventWatch, SequenceTheorems, TLAPS

Active(i) == poll[i].pc \in {"scanning", "walking", "probing"}
OnTheWalk(i) == poll[i].pc \in {"walking", "probing"}

\* Every poll that is not over is in the queue, and only its head is active.
Serialised ==
    /\ \A i \in Polls : poll[i].pc # "idle" => \E k \in 1 .. Len(queue) : queue[k] = i
    /\ \A i \in Polls : Active(i) => queue # <<>> /\ Head(queue) = i

\* A probe is about a port there is, and holds the state it is to be compared
\* with while the device is asked.
ProbeHolds ==
    \A i \in Polls : poll[i].pc = "probing" =>
        /\ poll[i].next \in Ports
        /\ ~closed => poll[i].before = previous[poll[i].next]

\* What a message says of its port.
Named(m) ==
    /\ m.event = "disappeared" => m.was \notin {NoState, Empty} /\ m.to.seen = Empty
    /\ m.event = "appeared"    => m.was \in {NoState, Empty}

\* In the middle of a walk: the ports behind it differ from what the flow was
\* told by exactly the messages collected, those ahead do not differ.
WalkInStep ==
    \A i \in Polls : OnTheWalk(i) =>
        /\ \A m \in poll[i].messages : m.by = i
        /\ ~closed =>
             /\ \A p \in Ports :
                  \/ told[p] = previous[p]
                  \/ \E m \in poll[i].messages : m.port = p
             /\ \A m \in poll[i].messages :
                  /\ m.port < poll[i].next
                  /\ m.from = told[m.port] /\ m.to = previous[m.port] /\ m.to # m.from
                  /\ Named(m)

\* The state kept of a port is about the last answer the master gave of it.
LastRealKept ==
    ~closed => \A p \in Ports :
        IF previous[p] = NoState THEN lastReal[p] = NoState
        ELSE previous[p].seen = IF lastReal[p] = NoState THEN Unknown ELSE lastReal[p]

IInv == /\ TypeOK /\ Serialised /\ ProbeHolds /\ WalkInStep
        /\ LastRealKept /\ NoChangeLost /\ OutageIsNoChange

-----------------------------------------------------------------------------
(* Shapes.                                                                  *)

Scanning == [pc : {"scanning"}, answers : Seq(Answers)]
Walking == [pc : {"walking", "probing"}, answers : [Ports -> Answers],
            next : 1 .. NPorts + 1, before : States \cup {NoState},
            messages : SUBSET Reports]

LEMMA PollingShapes ==
  ASSUME NEW k \in Polling
  PROVE  /\ k.pc \in {"idle", "queued", "scanning", "walking", "probing"}
         /\ k.pc = "scanning" => k \in Scanning /\ k.answers \in Seq(Answers)
         /\ k.pc \in {"walking", "probing"} =>
              /\ k \in Walking
              /\ k.answers \in [Ports -> Answers] /\ k.next \in 1 .. NPorts + 1
              /\ k.before \in States \cup {NoState} /\ k.messages \in SUBSET Reports
  BY DEF Polling, Scanning, Walking

LEMMA ShapesPoll ==
  /\ Idle \in Polling /\ [pc |-> "queued"] \in Polling
  /\ Scanning \subseteq Polling /\ Walking \subseteq Polling
  BY DEF Polling, Scanning, Walking, Idle

\* The state taken from an answer: the answer, or the state before it under a flag.
LEMMA StateOfOK ==
  ASSUME NEW a \in Answers, NEW before \in States \cup {NoState}
  PROVE  /\ StateOf(a, before) \in States
         /\ a = Unreachable =>
              /\ StateOf(a, before).unreachable
              /\ StateOf(a, before).seen =
                   IF before = NoState THEN Unknown ELSE before.seen
         /\ a # Unreachable =>
              /\ ~StateOf(a, before).unreachable
              /\ StateOf(a, before).seen = a /\ a \in Found
<1>1. CASE a = Unreachable
  <2>1. CASE before = NoState
    BY <1>1, <2>1 DEF StateOf, States
  <2>2. CASE before # NoState
    BY <1>1, <2>2 DEF StateOf, States
  <2>3. QED
    BY <2>1, <2>2
<1>2. CASE a # Unreachable
  <2>1. a \in Found
    BY <1>2 DEF Answers
  <2>2. QED
    BY <1>2, <2>1 DEF StateOf, States
<1>3. QED
  BY <1>1, <1>2

\* The order of the conditions of classify: a device comes or goes only against
\* a state before, and goes only when the master said so.
LEMMA ClassifyOK ==
  ASSUME NEW before, NEW after
  PROVE  /\ Classify(before, after) \in Directions
         /\ Classify(before, after) = "appeared" =>
              before # NoState /\ ~Connected(before) /\ Connected(after)
         /\ Classify(before, after) = "disappeared" =>
              /\ before # NoState /\ Connected(before) /\ ~Connected(after)
              /\ ~after.unreachable
<1> DEFINE known == before # NoState
           came == ~after.unreachable /\ known /\ ~Connected(before) /\ Connected(after)
           went == ~after.unreachable /\ known /\ Connected(before) /\ ~Connected(after)
           same == ~after.unreachable /\ known /\ Connected(before) = Connected(after)
           kept == IF DeviceId(before) # DeviceId(after) /\ DeviceId(after) # "undefined"
                   THEN "device changed"
                   ELSE IF before.unreachable THEN "reachable" ELSE "status changed"
<1>1. kept \in {"device changed", "reachable", "status changed"}
  OBVIOUS
<1>2. Classify(before, after) =
        CASE after.unreachable -> "unreachable"
          [] came -> "appeared"
          [] went -> "disappeared"
          [] same -> kept
          [] OTHER -> "status changed"
  BY Zenon DEF Classify
<1> HIDE DEF kept
<1>3. CASE after.unreachable
  <2>1. ~came /\ ~went /\ ~same
    BY <1>3
  <2>2. Classify(before, after) = "unreachable"
    BY <1>2, <1>3, <2>1, Zenon
  <2>3. QED
    BY <2>2 DEF Directions
<1>4. CASE came
  <2>1. ~after.unreachable /\ ~went /\ ~same
    BY <1>4
  <2>2. Classify(before, after) = "appeared"
    BY <1>2, <1>4, <2>1, Zenon
  <2>3. QED
    BY <1>4, <2>2 DEF Directions
<1>5. CASE went
  <2>1. ~after.unreachable /\ ~came /\ ~same
    BY <1>5
  <2>2. Classify(before, after) = "disappeared"
    BY <1>2, <1>5, <2>1, Zenon
  <2>3. QED
    BY <1>5, <2>2 DEF Directions
<1>6. CASE same
  <2>1. ~after.unreachable /\ ~came /\ ~went
    BY <1>6
  <2>2. Classify(before, after) = kept
    BY <1>2, <1>6, <2>1, Zenon
  <2>3. QED
    BY <1>1, <2>2 DEF Directions
<1>7. CASE ~after.unreachable /\ ~came /\ ~went /\ ~same
  <2>1. Classify(before, after) = "status changed"
    BY <1>2, <1>7, Zenon
  <2>2. QED
    BY <2>1 DEF Directions
<1>8. QED
  BY <1>3, <1>4, <1>5, <1>6, <1>7

\* At most one poll is active.
LEMMA OneActive ==
  ASSUME Serialised, NEW i \in Polls, NEW j \in Polls, Active(i), Active(j)
  PROVE  i = j
  BY DEF Serialised

\* A message about the port in hand says truly whether its device came or went.
LEMMA ReportTrue ==
  ASSUME TypeOK, LastRealKept, ~closed,
         NEW p \in Ports, NEW state \in States,
         ~state.unreachable => state.seen \in Found,
         NEW m, m.event = Classify(previous[p], state),
         m.was = lastReal[p], m.to = state
  PROVE  Named(m)
<1> DEFINE before == previous[p]
<1>1. before # NoState =>
        before.seen = IF lastReal[p] = NoState THEN Unknown ELSE lastReal[p]
  BY DEF LastRealKept
<1>2. lastReal[p] \in Found \cup {NoState}
  BY DEF TypeOK
<1>3. ASSUME m.event = "disappeared"
      PROVE  m.was \notin {NoState, Empty} /\ m.to.seen = Empty
  <2>1. before # NoState /\ Connected(before) /\ ~Connected(state) /\ ~state.unreachable
    BY <1>3, ClassifyOK
  <2>2. QED
    BY <1>1, <1>2, <2>1, AnswersAssumption DEF Connected, Found
<1>4. ASSUME m.event = "appeared"
      PROVE  m.was \in {NoState, Empty}
  <2>1. before # NoState /\ ~Connected(before)
    BY <1>4, ClassifyOK
  <2>2. QED
    BY <1>1, <1>2, <2>1, AnswersAssumption DEF Connected, Found
<1>5. QED
  BY <1>3, <1>4 DEF Named

\* What Note does to the poll that calls it.
LEMMA NoteEffect ==
  ASSUME TypeOK, NEW i \in Polls, OnTheWalk(i), poll[i].next \in Ports,
         NEW before \in States \cup {NoState}, NEW state \in States,
         Note(i, before, state)
  PROVE  /\ poll'[i].pc = "walking" /\ poll'[i].next = poll[i].next + 1
         /\ poll'[i] \in Walking /\ Report(i, before, state) \in Reports
         /\ poll' \in [Polls -> Polling]
         /\ \A j \in Polls : j # i => poll'[j] = poll[j]
         /\ (started /\ before # state) =>
              poll'[i].messages = poll[i].messages \cup {Report(i, before, state)}
         /\ ~(started /\ before # state) => poll'[i].messages = poll[i].messages
<1> DEFINE p == poll[i].next
           report == Report(i, before, state)
           msgs == IF started /\ Changed(before, state)
                   THEN poll[i].messages \cup {report} ELSE poll[i].messages
           entry == [poll[i] EXCEPT !.pc = "walking", !.next = p + 1,
                                    !.before = NoState, !.messages = msgs]
<1>1. poll[i] \in Walking /\ poll[i].messages \in SUBSET Reports
  BY PollingShapes DEF TypeOK, OnTheWalk
<1>2. report \in Reports
  <2>1. lastReal[p] \in Found \cup {NoState}
    BY DEF TypeOK
  <2>2. QED
    BY <2>1, ClassifyOK DEF Reports, Report
<1>3. msgs \in SUBSET Reports
  BY <1>1, <1>2
<1>4. p + 1 \in 1 .. NPorts + 1
  BY PortsAssumption DEF Ports
<1>5. poll' = [poll EXCEPT ![i] = entry]
  BY DEF Note
<1> HIDE DEF msgs, report
<1>6. entry \in Walking /\ entry.pc = "walking" /\ entry.next = p + 1
      /\ entry.messages = msgs
  BY <1>1, <1>3, <1>4 DEF Walking
<1> HIDE DEF entry
<1>7. poll'[i] = entry /\ \A j \in Polls : j # i => poll'[j] = poll[j]
  BY <1>5 DEF TypeOK
<1>8. poll' \in [Polls -> Polling]
  BY <1>5, <1>6, ShapesPoll DEF TypeOK
<1>9. /\ (started /\ before # state) =>
            poll'[i].messages = poll[i].messages \cup {report}
      /\ ~(started /\ before # state) => poll'[i].messages = poll[i].messages
  BY <1>6, <1>7, Zenon DEF msgs, Changed
<1>10. /\ poll'[i].pc = "walking" /\ poll'[i].next = p + 1
       /\ poll'[i] \in Walking
  BY <1>6, <1>7
<1>11. QED
  BY <1>2, <1>7, <1>8, <1>9, <1>10, Zenon DEF report

\* The walk notes the state of a port: the flow's picture of it is brought in
\* step, or the difference becomes a message.
LEMMA NoteKeeps ==
  ASSUME IInv, NEW i \in Polls, OnTheWalk(i), poll[i].next \in Ports,
         NEW before \in States \cup {NoState},
         ~closed => before = previous[poll[i].next],
         NEW state \in States,
         state.unreachable =>
           state.seen = IF before = NoState THEN Unknown ELSE before.seen,
         ~state.unreachable => state.seen \in Found,
         Note(i, before, state),
         sent' = {}, UNCHANGED <<reply, health, started, closed, queue>>
  PROVE  IInv'
<1> USE DEF IInv
<1> DEFINE p == poll[i].next
           report == Report(i, before, state)
<1>1. /\ poll'[i].pc = "walking" /\ poll'[i].next = p + 1
      /\ poll'[i] \in Walking /\ report \in Reports
      /\ poll' \in [Polls -> Polling]
      /\ \A j \in Polls : j # i => poll'[j] = poll[j]
  BY NoteEffect
<1>2. /\ (started /\ before # state) =>
            poll'[i].messages = poll[i].messages \cup {report}
      /\ ~(started /\ before # state) => poll'[i].messages = poll[i].messages
  BY NoteEffect
<1>3. /\ previous' = [previous EXCEPT ![p] = state]
      /\ told' = IF started THEN told ELSE [told EXCEPT ![p] = state]
      /\ lastReal' = IF state.unreachable THEN lastReal
                     ELSE [lastReal EXCEPT ![p] = state.seen]
  BY DEF Note
<1>4. p \in Ports /\ p \in Nat
  BY PortsAssumption DEF Ports
<1>5. /\ report.port = p /\ report.from = before /\ report.to = state
      /\ report.by = i /\ report.was = lastReal[p]
      /\ report.event = Classify(before, state)
  BY DEF Report
<1> HIDE DEF report
<1>6. \A j \in Polls : OnTheWalk(j)' => j = i
  BY <1>1, OneActive DEF OnTheWalk, Active
<1>7. TypeOK'
  <2>1. /\ previous' \in [Ports -> States \cup {NoState}]
        /\ told' \in [Ports -> States \cup {NoState}]
    BY <1>3 DEF TypeOK
  <2>2. lastReal' \in [Ports -> Found \cup {NoState}]
    BY <1>3 DEF TypeOK
  <2>3. \A j \in Polls : poll'[j].pc = "scanning" => Len(poll'[j].answers) < NPorts
    BY <1>1 DEF TypeOK
  <2>4. QED
    BY <1>1, <2>1, <2>2, <2>3 DEF TypeOK
<1>8. Serialised'
  BY <1>1 DEF Serialised, Active, OnTheWalk
<1>9. ProbeHolds'
  BY <1>1, <1>6 DEF ProbeHolds, OnTheWalk
<1>10. LastRealKept'
  <2>1. ASSUME ~closed, NEW q \in Ports, q # p
        PROVE  previous'[q] = previous[q] /\ lastReal'[q] = lastReal[q]
    BY <1>3, <2>1 DEF TypeOK
  <2>2. /\ previous'[p] = state /\ state # NoState
        /\ lastReal'[p] = IF state.unreachable THEN lastReal[p] ELSE state.seen
    BY <1>3, <1>4, AnswersAssumption DEF TypeOK
  <2>3. ASSUME ~closed
        PROVE  state.seen = IF lastReal'[p] = NoState THEN Unknown ELSE lastReal'[p]
    <3>1. CASE state.unreachable
      BY <1>4, <2>2, <2>3, <3>1 DEF LastRealKept
    <3>2. CASE ~state.unreachable
      BY <2>2, <3>2, AnswersAssumption
    <3>3. QED
      BY <3>1, <3>2
  <2>4. QED
    BY <2>1, <2>2, <2>3 DEF LastRealKept
<1>11. WalkInStep'
  <2>1. /\ \A m \in poll[i].messages : m.by = i
        /\ ~closed =>
             /\ \A q \in Ports :
                  \/ told[q] = previous[q]
                  \/ \E m \in poll[i].messages : m.port = q
             /\ \A m \in poll[i].messages :
                  /\ m.port < p
                  /\ m.from = told[m.port] /\ m.to = previous[m.port] /\ m.to # m.from
                  /\ Named(m)
    BY DEF WalkInStep
  <2>2. \A m \in poll[i].messages : m.port \in Ports
    BY PollingShapes DEF TypeOK, OnTheWalk, Reports
  <2>3. \A m \in poll'[i].messages : m.by = i
    BY <1>2, <1>5, <2>1
  <2>4. ASSUME ~closed
        PROVE  told[p] = previous[p] /\ previous[p] = before
    <3>1. \A m \in poll[i].messages : m.port # p
      BY <1>4, <2>1, <2>2, <2>4 DEF Ports
    <3>2. QED
      BY <1>4, <2>1, <2>4, <3>1
  <2>5. \A q \in Ports : q # p =>
          previous'[q] = previous[q] /\ told'[q] = told[q]
    BY <1>3 DEF TypeOK
  <2>6. previous'[p] = state /\ told'[p] = IF started THEN told[p] ELSE state
    BY <1>3, <1>4 DEF TypeOK
  <2>7. ASSUME ~closed, NEW q \in Ports
        PROVE  told'[q] = previous'[q] \/ \E m \in poll'[i].messages : m.port = q
    <3>1. CASE q = p
      BY <1>2, <1>5, <2>4, <2>6, <2>7, <3>1
    <3>2. CASE q # p
      BY <1>2, <2>1, <2>5, <2>7, <3>2
    <3>3. QED
      BY <3>1, <3>2
  <2>8. ASSUME ~closed, NEW m \in poll'[i].messages
        PROVE  /\ m.port < p + 1
               /\ m.from = told'[m.port] /\ m.to = previous'[m.port] /\ m.to # m.from
               /\ Named(m)
    <3>1. CASE m \in poll[i].messages
      <4>1. m.port < p /\ m.port \in Ports
        BY <2>1, <2>2, <2>8, <3>1
      <4>2. m.port < p + 1 /\ m.port # p
        BY <1>4, <4>1 DEF Ports
      <4>3. QED
        BY <2>1, <2>5, <2>8, <3>1, <4>1, <4>2
    <3>2. CASE m \notin poll[i].messages
      <4>1. m = report /\ started /\ before # state
        BY <1>2, <3>2
      <4>2. Named(m)
        BY <1>4, <1>5, <2>4, <2>8, <4>1, ReportTrue
      <4>3. QED
        BY <1>4, <1>5, <2>4, <2>6, <2>8, <4>1, <4>2
    <3>3. QED
      BY <3>1, <3>2
  <2>9. closed' = closed /\ poll'[i].next = p + 1
    BY <1>1
  <2>10. QED
    BY <1>6, <2>3, <2>7, <2>8, <2>9 DEF WalkInStep
<1>12. NoChangeLost'
  BY <1>1 DEF NoChangeLost
<1>13. OutageIsNoChange'
  BY DEF OutageIsNoChange
<1>14. QED
  BY <1>7, <1>8, <1>9, <1>10, <1>11, <1>12, <1>13

-----------------------------------------------------------------------------
(* Every step keeps the invariant.                                          *)

LEMMA Initially == Init => IInv
<1> SUFFICES ASSUME Init PROVE IInv
  OBVIOUS
<1> USE DEF Init
<1>1. poll \in [Polls -> Polling] /\ \A i \in Polls : poll[i].pc = "idle"
  BY ShapesPoll DEF Idle
<1>2. TypeOK
  <2>1. /\ previous \in [Ports -> States \cup {NoState}]
        /\ told \in [Ports -> States \cup {NoState}]
        /\ lastReal \in [Ports -> Found \cup {NoState}]
    OBVIOUS
  <2>2. queue \in Seq(Polls) /\ sent \subseteq Reports
    OBVIOUS
  <2>3. \A i \in Polls : poll[i].pc = "scanning" => Len(poll[i].answers) < NPorts
    BY <1>1
  <2>4. QED
    BY <1>1, <2>1, <2>2, <2>3 DEF TypeOK
<1>3. Serialised /\ ProbeHolds /\ WalkInStep
  BY <1>1 DEF Serialised, ProbeHolds, WalkInStep, Active, OnTheWalk
<1>4. LastRealKept /\ NoChangeLost /\ OutageIsNoChange
  BY DEF LastRealKept, NoChangeLost, OutageIsNoChange
<1>5. QED
  BY <1>2, <1>3, <1>4 DEF IInv

\* A step that moves one poll, and not on the walk, leaves what the walks know.
LEMMA OffTheWalk ==
  ASSUME IInv, NEW i \in Polls, NEW entry \in Polling,
         ~OnTheWalk(i), entry.pc \notin {"walking", "probing"},
         poll' = [poll EXCEPT ![i] = entry], sent' = {},
         UNCHANGED <<previous, started, closed, told, lastReal>>
  PROVE  /\ ProbeHolds' /\ WalkInStep' /\ LastRealKept'
         /\ NoChangeLost' /\ OutageIsNoChange'
<1>1. poll'[i] = entry /\ \A j \in Polls : j # i => poll'[j] = poll[j]
  BY DEF IInv, TypeOK
<1>2. ProbeHolds' /\ WalkInStep'
  <2>1. \A j \in Polls : OnTheWalk(j)' => j # i
    BY <1>1 DEF OnTheWalk
  <2>2. ProbeHolds'
    BY <1>1, <2>1 DEF IInv, ProbeHolds, OnTheWalk
  <2>3. WalkInStep'
    BY <1>1, <2>1 DEF IInv, WalkInStep, OnTheWalk
  <2>4. QED
    BY <2>2, <2>3
<1>3. LastRealKept' /\ OutageIsNoChange'
  BY DEF IInv, LastRealKept, OutageIsNoChange
<1>4. NoChangeLost'
  BY <1>1 DEF IInv, NoChangeLost, OnTheWalk
<1>5. QED
  BY <1>2, <1>3, <1>4

LEMMA EnqueueKeeps ==
  ASSUME IInv, NEW i \in Polls, Enqueue(i)
  PROVE  IInv'
<1> DEFINE entry == [pc |-> "queued"]
<1> USE DEF Enqueue
<1>1. entry \in Polling /\ entry.pc = "queued" /\ poll[i].pc = "idle"
  BY ShapesPoll DEF Idle
<1>2. poll' = [poll EXCEPT ![i] = entry]
  OBVIOUS
<1> HIDE DEF entry
<1>3. poll'[i] = entry /\ \A j \in Polls : j # i => poll'[j] = poll[j]
  BY <1>2 DEF IInv, TypeOK
<1>4. /\ ProbeHolds' /\ WalkInStep' /\ LastRealKept'
      /\ NoChangeLost' /\ OutageIsNoChange'
  BY <1>1, <1>2, OffTheWalk DEF OnTheWalk
<1>5. /\ queue \in Seq(Polls) /\ queue' = Append(queue, i)
      /\ queue' \in Seq(Polls) /\ Len(queue') = Len(queue) + 1
      /\ \A k \in 1 .. Len(queue) : queue'[k] = queue[k]
      /\ queue'[Len(queue) + 1] = i
  BY DEF IInv, TypeOK
<1>6. TypeOK'
  <2>1. poll' \in [Polls -> Polling]
    BY <1>1, <1>2 DEF IInv, TypeOK
  <2>2. \A j \in Polls : poll'[j].pc = "scanning" => Len(poll'[j].answers) < NPorts
    BY <1>1, <1>3 DEF IInv, TypeOK
  <2>3. QED
    BY <1>5, <2>1, <2>2 DEF IInv, TypeOK, world
<1>7. Serialised'
  <2>1. ASSUME NEW j \in Polls, poll'[j].pc # "idle"
        PROVE  \E k \in 1 .. Len(queue') : queue'[k] = j
    <3>1. CASE j = i
      BY <1>5, <3>1
    <3>2. CASE j # i
      <4>1. PICK k \in 1 .. Len(queue) : queue[k] = j
        BY <1>3, <2>1, <3>2 DEF IInv, Serialised
      <4>2. k \in 1 .. Len(queue') /\ queue'[k] = j
        BY <1>5, <4>1
      <4>3. QED
        BY <4>2
    <3>3. QED
      BY <3>1, <3>2
  <2>2. ASSUME NEW j \in Polls, Active(j)'
        PROVE  queue' # <<>> /\ Head(queue') = j
    <3>1. j # i /\ Active(j)
      BY <1>1, <1>3, <2>2 DEF Active
    <3>2. queue # <<>> /\ Head(queue) = j
      BY <3>1 DEF IInv, Serialised
    <3>3. QED
      BY <1>5, <3>2
  <2>3. QED
    BY <2>1, <2>2 DEF Serialised
<1>8. QED
  BY <1>4, <1>6, <1>7 DEF IInv

LEMMA StartKeeps ==
  ASSUME IInv, NEW i \in Polls, Start(i)
  PROVE  IInv'
<1> DEFINE entry == [pc |-> "scanning", answers |-> <<>>]
<1> USE DEF Start
<1>1. entry \in Polling /\ entry.pc = "scanning" /\ entry.answers = <<>>
  <2>1. <<>> \in Seq(Answers)
    OBVIOUS
  <2>2. entry \in Scanning
    BY <2>1 DEF Scanning
  <2>3. QED
    BY <2>2, ShapesPoll
<1>2. poll' = [poll EXCEPT ![i] = entry]
  OBVIOUS
<1> HIDE DEF entry
<1>3. poll'[i] = entry /\ \A j \in Polls : j # i => poll'[j] = poll[j]
  BY <1>2 DEF IInv, TypeOK
<1>4. /\ ProbeHolds' /\ WalkInStep' /\ LastRealKept'
      /\ NoChangeLost' /\ OutageIsNoChange'
  BY <1>1, <1>2, OffTheWalk DEF OnTheWalk
<1>5. TypeOK'
  <2>1. poll' \in [Polls -> Polling]
    BY <1>1, <1>2 DEF IInv, TypeOK
  <2>2. \A j \in Polls : poll'[j].pc = "scanning" => Len(poll'[j].answers) < NPorts
    BY <1>1, <1>3, PortsAssumption DEF IInv, TypeOK
  <2>3. QED
    BY <2>1, <2>2 DEF IInv, TypeOK, world
<1>6. Serialised'
  <2>1. PICK k \in 1 .. Len(queue) : queue[k] = i
    BY DEF IInv, Serialised
  <2>2. queue # <<>>
    BY <2>1 DEF IInv, TypeOK
  <2>3. \A j \in Polls : poll'[j].pc # "idle" => poll[j].pc # "idle"
    BY <1>3
  <2>4. \A j \in Polls : Active(j)' => j = i \/ Active(j)
    BY <1>3 DEF Active
  <2>5. QED
    BY <2>2, <2>3, <2>4 DEF IInv, Serialised, MyTurn
<1>7. QED
  BY <1>4, <1>5, <1>6 DEF IInv

LEMMA CloseKeeps ==
  ASSUME IInv, Close
  PROVE  IInv'
<1> USE DEF IInv, Close
<1>1. TypeOK'
  BY DEF TypeOK, world
<1>2. Serialised'
  BY DEF Serialised, Active
<1>3. ProbeHolds' /\ WalkInStep'
  BY DEF ProbeHolds, WalkInStep, OnTheWalk
<1>4. LastRealKept' /\ NoChangeLost' /\ OutageIsNoChange'
  BY DEF LastRealKept, NoChangeLost, OutageIsNoChange
<1>5. QED
  BY <1>1, <1>2, <1>3, <1>4

LEMMA ChangeKeeps ==
  ASSUME IInv, NEW p \in Ports, Change(p)
  PROVE  IInv'
<1> USE DEF IInv, Change
<1>1. TypeOK'
  BY DEF TypeOK
<1>2. Serialised'
  BY DEF Serialised, Active
<1>3. ProbeHolds' /\ WalkInStep'
  BY DEF ProbeHolds, WalkInStep, OnTheWalk
<1>4. LastRealKept' /\ NoChangeLost' /\ OutageIsNoChange'
  BY DEF LastRealKept, NoChangeLost, OutageIsNoChange
<1>5. QED
  BY <1>1, <1>2, <1>3, <1>4

\* One more port has answered; with the last of them the walk begins, and
\* nothing is told and not yet known, as between polls.
LEMMA ScanKeeps ==
  ASSUME IInv, NEW i \in Polls, Scan(i)
  PROVE  IInv'
<1> DEFINE answers == Append(poll[i].answers, reply[Len(poll[i].answers) + 1])
           scanning == [pc |-> "scanning", answers |-> answers]
           walking == [pc |-> "walking", answers |-> answers, next |-> 1,
                       before |-> NoState, messages |-> {}]
<1> USE DEF Scan
<1>1. /\ poll[i].pc = "scanning" /\ poll[i].answers \in Seq(Answers)
      /\ Len(poll[i].answers) < NPorts
  BY PollingShapes DEF IInv, TypeOK
<1>2. Len(poll[i].answers) + 1 \in Ports
  BY <1>1, PortsAssumption DEF Ports
<1>3. answers \in Seq(Answers) /\ Len(answers) \in Ports
  BY <1>1, <1>2 DEF IInv, TypeOK
<1>4. poll' = [poll EXCEPT ![i] = IF Len(answers) < NPorts THEN scanning ELSE walking]
  OBVIOUS
<1>5. UNCHANGED <<world, previous, started, closed, queue, told, lastReal>> /\ sent' = {}
  OBVIOUS
<1> HIDE DEF answers, Scan
<1>6. /\ scanning.pc = "scanning" /\ scanning.answers = answers
      /\ walking.pc = "walking" /\ walking.messages = {}
  OBVIOUS
<1>7. CASE Len(answers) < NPorts
  <2>1. poll' = [poll EXCEPT ![i] = scanning]
    BY <1>4, <1>7
  <2>2. scanning \in Polling
    BY <1>3, ShapesPoll DEF Scanning
  <2> HIDE DEF scanning
  <2>3. poll'[i] = scanning /\ \A j \in Polls : j # i => poll'[j] = poll[j]
    BY <2>1 DEF IInv, TypeOK
  <2>4. /\ ProbeHolds' /\ WalkInStep' /\ LastRealKept'
        /\ NoChangeLost' /\ OutageIsNoChange'
    BY <1>1, <1>5, <1>6, <2>1, <2>2, OffTheWalk DEF OnTheWalk
  <2>5. TypeOK'
    <3>1. poll' \in [Polls -> Polling]
      BY <2>1, <2>2 DEF IInv, TypeOK
    <3>2. \A j \in Polls : poll'[j].pc = "scanning" => Len(poll'[j].answers) < NPorts
      BY <1>6, <1>7, <2>3 DEF IInv, TypeOK
    <3>3. QED
      BY <1>5, <3>1, <3>2 DEF IInv, TypeOK, world
  <2>6. Serialised'
    BY <1>1, <1>5, <1>6, <2>3 DEF IInv, Serialised, Active
  <2>7. QED
    BY <2>4, <2>5, <2>6 DEF IInv
<1>8. CASE ~(Len(answers) < NPorts)
  <2>1. poll' = [poll EXCEPT ![i] = walking]
    BY <1>4, <1>8
  <2>2. answers \in [Ports -> Answers]
    BY <1>3, <1>8, PortsAssumption DEF Ports
  <2>3. walking \in Polling
    <3>1. 1 \in 1 .. NPorts + 1
      BY PortsAssumption
    <3>2. walking \in Walking
      BY <2>2, <3>1 DEF Walking
    <3>3. QED
      BY <3>2, ShapesPoll
  <2> HIDE DEF walking
  <2>4. poll'[i] = walking /\ \A j \in Polls : j # i => poll'[j] = poll[j]
    BY <2>1 DEF IInv, TypeOK
  <2>5. \A j \in Polls : ~OnTheWalk(j)
    BY <1>1, OneActive DEF IInv, Active, OnTheWalk
  <2>6. TypeOK'
    <3>1. poll' \in [Polls -> Polling]
      BY <2>1, <2>3 DEF IInv, TypeOK
    <3>2. \A j \in Polls : poll'[j].pc = "scanning" => Len(poll'[j].answers) < NPorts
      BY <1>6, <2>4 DEF IInv, TypeOK
    <3>3. QED
      BY <1>5, <3>1, <3>2 DEF IInv, TypeOK, world
  <2>7. Serialised'
    BY <1>1, <1>5, <1>6, <2>4 DEF IInv, Serialised, Active
  <2>8. ProbeHolds'
    BY <1>6, <2>4, <2>5 DEF ProbeHolds, OnTheWalk
  <2>9. WalkInStep'
    <3>1. ~closed => \A p \in Ports : told[p] = previous[p]
      BY <2>5 DEF IInv, NoChangeLost, OnTheWalk
    <3>2. \A j \in Polls : OnTheWalk(j)' => j = i
      BY <2>4, <2>5 DEF OnTheWalk
    <3>3. QED
      BY <1>5, <1>6, <2>4, <3>1, <3>2 DEF WalkInStep
  <2>10. LastRealKept' /\ OutageIsNoChange'
    BY <1>5 DEF IInv, LastRealKept, OutageIsNoChange
  <2>11. NoChangeLost'
    BY <1>5, <1>6, <2>4 DEF NoChangeLost
  <2>12. QED
    BY <2>6, <2>7, <2>8, <2>9, <2>10, <2>11 DEF IInv
<1>9. QED
  BY <1>7, <1>8

LEMMA WalkKeeps ==
  ASSUME IInv, NEW i \in Polls, Walk(i)
  PROVE  IInv'
<1> DEFINE p == poll[i].next
           before == previous[p]
           state == StateOf(poll[i].answers[p], before)
<1> USE DEF Walk
<1>1. /\ poll[i] \in Walking /\ poll[i].answers \in [Ports -> Answers]
      /\ poll[i].next \in 1 .. NPorts + 1
  BY PollingShapes DEF IInv, TypeOK
<1>2. p \in Ports /\ OnTheWalk(i)
  BY <1>1, PortsAssumption DEF Ports, OnTheWalk
<1>3. before \in States \cup {NoState} /\ poll[i].answers[p] \in Answers
  BY <1>1, <1>2 DEF IInv, TypeOK
<1>4. /\ state \in States
      /\ state.unreachable =>
           state.seen = IF before = NoState THEN Unknown ELSE before.seen
      /\ ~state.unreachable => state.seen \in Found
  BY <1>3, StateOfOK
<1>5. sent' = {} /\ UNCHANGED <<reply, health, started, closed, queue>>
  BY DEF world
<1>6. CASE Connected(state) /\ ~state.unreachable
  <2> DEFINE entry == [poll[i] EXCEPT !.pc = "probing", !.before = before]
  <2>1. poll' = [poll EXCEPT ![i] = entry] /\ UNCHANGED <<previous, told, lastReal>>
    BY <1>6
  <2> HIDE DEF Walk, state
  <2>2. /\ entry \in Walking /\ entry.pc = "probing" /\ entry.before = before
        /\ entry.next = poll[i].next /\ entry.messages = poll[i].messages
    BY <1>1, <1>3 DEF Walking
  <2> HIDE DEF entry
  <2>3. poll'[i] = entry /\ \A j \in Polls : j # i => poll'[j] = poll[j]
    BY <2>1 DEF IInv, TypeOK
  <2>4. \A j \in Polls : OnTheWalk(j)' => j = i
    BY <1>2, <2>3, OneActive DEF IInv, OnTheWalk, Active
  <2>5. TypeOK'
    <3>1. poll' \in [Polls -> Polling]
      BY <2>1, <2>2, ShapesPoll DEF IInv, TypeOK
    <3>2. \A j \in Polls : poll'[j].pc = "scanning" => Len(poll'[j].answers) < NPorts
      BY <2>2, <2>3 DEF IInv, TypeOK
    <3>3. QED
      BY <1>5, <2>1, <3>1, <3>2 DEF IInv, TypeOK
  <2>6. Serialised'
    BY <1>2, <1>5, <2>2, <2>3 DEF IInv, Serialised, Active, OnTheWalk
  <2>7. ProbeHolds'
    BY <1>2, <2>1, <2>2, <2>3, <2>4 DEF ProbeHolds, OnTheWalk
  <2>8. WalkInStep'
    BY <1>2, <1>5, <2>1, <2>2, <2>3, <2>4 DEF IInv, WalkInStep
  <2>9. LastRealKept' /\ OutageIsNoChange'
    BY <1>5, <2>1 DEF IInv, LastRealKept, OutageIsNoChange
  <2>10. NoChangeLost'
    BY <2>2, <2>3 DEF NoChangeLost
  <2>11. QED
    BY <2>5, <2>6, <2>7, <2>8, <2>9, <2>10 DEF IInv
<1>7. CASE ~(Connected(state) /\ ~state.unreachable)
  <2>1. Note(i, before, state)
    BY <1>7
  <2>2. QED
    BY <1>2, <1>3, <1>4, <1>5, <2>1, NoteKeeps
<1>8. QED
  BY <1>6, <1>7

LEMMA ProbeKeeps ==
  ASSUME IInv, NEW i \in Polls, Probe(i)
  PROVE  IInv'
<1> DEFINE p == poll[i].next
           before == poll[i].before
           plain == StateOf(poll[i].answers[p], before)
           state == [plain EXCEPT !.health = health[p]]
<1> USE DEF Probe
<1>1. /\ poll[i].answers \in [Ports -> Answers]
      /\ before \in States \cup {NoState}
  BY PollingShapes DEF IInv, TypeOK
<1>2. p \in Ports /\ OnTheWalk(i) /\ (~closed => before = previous[p])
  BY DEF IInv, ProbeHolds, OnTheWalk
<1>3. health[p] \in Healths \cup {Unread} /\ poll[i].answers[p] \in Answers
  BY <1>1, <1>2 DEF IInv, TypeOK
<1>4. /\ plain \in States
      /\ plain.unreachable =>
           plain.seen = IF before = NoState THEN Unknown ELSE before.seen
      /\ ~plain.unreachable => plain.seen \in Found
  BY <1>1, <1>3, StateOfOK
<1>5. sent' = {} /\ UNCHANGED <<reply, health, started, closed, queue>>
  BY DEF world
<1>6. Note(i, before, state)
  OBVIOUS
<1> HIDE DEF plain, Probe
<1>7. /\ state \in States
      /\ state.seen = plain.seen /\ state.unreachable = plain.unreachable
  BY <1>3, <1>4 DEF States
<1> HIDE DEF state
<1>8. QED
  BY <1>1, <1>2, <1>4, <1>5, <1>6, <1>7, NoteKeeps

\* A poll ends: its messages bring the flow's picture in step with the node's.
LEMMA FinishKeeps ==
  ASSUME IInv, NEW i \in Polls, Finish(i)
  PROVE  IInv'
<1> USE DEF Finish
<1>1. /\ poll[i].pc = "walking" /\ OnTheWalk(i) /\ Active(i)
      /\ poll[i].messages \in SUBSET Reports
  BY PollingShapes DEF IInv, TypeOK, OnTheWalk, Active
<1>2. /\ poll'[i].pc = "idle" /\ poll' \in [Polls -> Polling]
      /\ \A j \in Polls : j # i => poll'[j] = poll[j]
  BY ShapesPoll DEF IInv, TypeOK, Idle
<1>3. \A j \in Polls : ~OnTheWalk(j)'
  BY <1>1, <1>2, OneActive DEF IInv, OnTheWalk, Active
<1>4. queue # <<>> /\ Head(queue) = i /\ queue \in Seq(Polls)
  BY <1>1 DEF IInv, Serialised, TypeOK
<1>5. /\ queue' \in Seq(Polls) /\ Len(queue') = Len(queue) - 1
      /\ \A k \in 1 .. Len(queue') : queue'[k] = queue[k + 1]
      /\ Len(queue) \in Nat /\ queue[1] = i
  BY <1>4
<1>6. sent' \subseteq poll[i].messages /\ (~closed => sent' = poll[i].messages)
  BY DEF Sends
<1>7. /\ ~closed => \A p \in Ports :
           told[p] = previous[p] \/ \E m \in poll[i].messages : m.port = p
      /\ ~closed => \A m \in poll[i].messages : m.to = previous[m.port] /\ Named(m)
  BY <1>1 DEF IInv, WalkInStep
<1>8. TypeOK'
  <2>1. \A m \in sent' : m.to \in States
    BY <1>1, <1>6 DEF Reports
  <2>2. told' \in [Ports -> States \cup {NoState}]
    <3>1. ASSUME NEW p \in Ports
          PROVE  (IF \E m \in sent' : m.port = p
                  THEN (CHOOSE m \in sent' : m.port = p).to ELSE told[p])
                 \in States \cup {NoState}
      <4>1. told[p] \in States \cup {NoState}
        BY DEF IInv, TypeOK
      <4>2. (\E m \in sent' : m.port = p) =>
              (CHOOSE m \in sent' : m.port = p).to \in States
        BY <2>1
      <4>3. QED
        BY <4>1, <4>2
    <3>2. QED
      BY <3>1
  <2>3. \A j \in Polls : poll'[j].pc = "scanning" => Len(poll'[j].answers) < NPorts
    BY <1>2 DEF IInv, TypeOK
  <2>4. sent' \subseteq Reports
    BY <1>1, <1>6
  <2>5. QED
    BY <1>2, <1>5, <2>2, <2>3, <2>4 DEF IInv, TypeOK, world
<1>9. Serialised'
  <2>1. ASSUME NEW j \in Polls, poll'[j].pc # "idle"
        PROVE  \E k \in 1 .. Len(queue') : queue'[k] = j
    <3>1. j # i /\ poll[j].pc # "idle"
      BY <1>2, <2>1
    <3>2. PICK k \in 1 .. Len(queue) : queue[k] = j
      BY <3>1 DEF IInv, Serialised
    <3>3. k # 1
      BY <1>5, <3>1, <3>2
    <3>4. k - 1 \in 1 .. Len(queue') /\ queue'[k - 1] = j
      BY <1>5, <3>2, <3>3
    <3>5. QED
      BY <3>4
  <2>2. \A j \in Polls : ~Active(j)'
    BY <1>1, <1>2, OneActive DEF IInv, Active
  <2>3. QED
    BY <2>1, <2>2 DEF Serialised
<1>10. ProbeHolds' /\ WalkInStep'
  BY <1>3 DEF ProbeHolds, WalkInStep, OnTheWalk
<1>11. LastRealKept'
  BY DEF IInv, LastRealKept
<1>12. NoChangeLost'
  <2>1. ASSUME ~closed, NEW p \in Ports
        PROVE  told'[p] = previous[p]
    <3>1. told'[p] = IF \E m \in sent' : m.port = p
                     THEN (CHOOSE m \in sent' : m.port = p).to ELSE told[p]
      OBVIOUS
    <3>2. CASE \E m \in sent' : m.port = p
      BY <1>6, <1>7, <2>1, <3>1, <3>2
    <3>3. CASE ~ \E m \in sent' : m.port = p
      BY <1>6, <1>7, <2>1, <3>1, <3>3
    <3>4. QED
      BY <3>2, <3>3
  <2>2. closed' = closed /\ previous' = previous
    OBVIOUS
  <2>3. QED
    BY <2>1, <2>2 DEF NoChangeLost
<1>13. OutageIsNoChange'
  <2>1. ~closed => \A m \in sent' : Named(m)
    BY <1>6, <1>7
  <2>2. QED
    BY <2>1 DEF OutageIsNoChange, Named
<1>14. QED
  BY <1>8, <1>9, <1>10, <1>11, <1>12, <1>13 DEF IInv

LEMMA StepKeeps == IInv /\ [Next]_vars => IInv'
<1> SUFFICES ASSUME IInv, [Next]_vars PROVE IInv'
  OBVIOUS
<1>1. CASE Tick
  BY <1>1, EnqueueKeeps DEF Tick, Polls
<1>2. ASSUME NEW m \in Messages, Receive(m) PROVE IInv'
  BY <1>2, EnqueueKeeps DEF Receive, Polls
<1>3. ASSUME NEW i \in Polls, Start(i) PROVE IInv'
  BY <1>3, StartKeeps
<1>4. ASSUME NEW i \in Polls, Scan(i) PROVE IInv'
  BY <1>4, ScanKeeps
<1>5. ASSUME NEW i \in Polls, Walk(i) PROVE IInv'
  BY <1>5, WalkKeeps
<1>6. ASSUME NEW i \in Polls, Probe(i) PROVE IInv'
  BY <1>6, ProbeKeeps
<1>7. ASSUME NEW i \in Polls, Finish(i) PROVE IInv'
  BY <1>7, FinishKeeps
<1>8. CASE Close
  BY <1>8, CloseKeeps
<1>9. ASSUME NEW p \in Ports, Change(p) PROVE IInv'
  BY <1>9, ChangeKeeps
<1>10. CASE UNCHANGED vars
  <2> USE <1>10 DEF vars, world, IInv
  <2>1. TypeOK'
    BY DEF TypeOK
  <2>2. Serialised' /\ ProbeHolds' /\ WalkInStep'
    BY DEF Serialised, ProbeHolds, WalkInStep, Active, OnTheWalk
  <2>3. LastRealKept' /\ NoChangeLost' /\ OutageIsNoChange'
    BY DEF LastRealKept, NoChangeLost, OutageIsNoChange
  <2>4. QED
    BY <2>1, <2>2, <2>3
<1>11. QED
  BY <1>1, <1>2, <1>3, <1>4, <1>5, <1>6, <1>7, <1>8, <1>9, <1>10 DEF Next

-----------------------------------------------------------------------------

\* The invariant that carries the others through a poll holds of every run.
THEOREM Inductive == Spec => []IInv
  BY Initially, StepKeeps, PTL DEF Spec

\* The node's state, the polls and the messages keep their shapes.
THEOREM TypeCorrect == Spec => []TypeOK
<1>1. IInv => TypeOK
  BY DEF IInv
<1>2. QED
  BY <1>1, Inductive, PTL

\* Between polls the flow has been told what the last poll found of every port,
\* however the polls of the timer and of messages pile up.
THEOREM NothingLost == Spec => []NoChangeLost
<1>1. IInv => NoChangeLost
  BY DEF IInv
<1>2. QED
  BY <1>1, Inductive, PTL

\* A device is only said to have come or gone between two answers of the master
\* that differ so, whatever outages lie between them.
THEOREM OutagesNoChange == Spec => []OutageIsNoChange
<1>1. IInv => OutageIsNoChange
  BY DEF IInv
<1>2. QED
  BY <1>1, Inductive, PTL

\* Only the end of a poll sends, and it sends what the poll has collected.
LEMMA SentIsCollected ==
  ASSUME Next, NEW m \in sent'
  PROVE  \E i \in Polls : /\ m \in poll[i].messages /\ Sends(i)
                          /\ OnTheWalk(i)
<1>1. ASSUME NEW i \in Polls, Finish(i)
      PROVE  m \in poll[i].messages /\ Sends(i) /\ OnTheWalk(i)
  BY <1>1 DEF Finish, OnTheWalk
<1>2. (\E i \in Polls : Finish(i)) \/ sent' = {}
  BY DEF Next, Tick, Receive, Enqueue, Start, Scan, Walk, Probe, Close, Change
<1>3. QED
  BY <1>1, <1>2

\* Each message starts where the one before it about that port ended.
THEOREM Chained == Spec => MessagesChain
<1>1. IInv /\ [Next]_vars =>
        [\A m \in sent' : ~closed => (m.from = told[m.port] /\ m.to # m.from)]_vars
  <2>1. ASSUME IInv, Next, NEW m \in sent', ~closed
        PROVE  m.from = told[m.port] /\ m.to # m.from
    <3>1. PICK i \in Polls : m \in poll[i].messages /\ OnTheWalk(i)
      BY <2>1, SentIsCollected
    <3>2. QED
      BY <2>1, <3>1 DEF IInv, WalkInStep
  <2>2. QED
    BY <2>1
<1>2. QED
  BY <1>1, Inductive, PTL DEF Spec, MessagesChain

\* A poll the timer started sends nothing once the node is closed.
THEOREM SilentWhenClosed == Spec => TimerSilentWhenClosed
<1>1. IInv /\ [Next]_vars => [\A m \in sent' : closed => m.by # "timer"]_vars
  <2>1. ASSUME IInv, Next, NEW m \in sent', closed
        PROVE  m.by # "timer"
    <3>1. PICK i \in Polls : m \in poll[i].messages /\ Sends(i) /\ OnTheWalk(i)
      BY <2>1, SentIsCollected
    <3>2. QED
      BY <2>1, <3>1 DEF IInv, WalkInStep, Sends
  <2>2. QED
    BY <2>1
<1>2. QED
  BY <1>1, Inductive, PTL DEF Spec, TimerSilentWhenClosed
=============================================================================
