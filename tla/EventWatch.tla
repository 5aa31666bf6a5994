----------------------------- MODULE EventWatch -----------------------------
(***************************************************************************)
(* The event node: nodes/iolink-event.js with serialiser and startPolling  *)
(* of lib/runtime.js.                                                      *)
(*                                                                         *)
(* A poll scans the ports one after another, then walks over the answers:  *)
(* each is compared with what the previous poll left, a device that is     *)
(* connected is asked for its health (an await in the middle of the walk), *)
(* and the messages are sent together at the end.  The timer and incoming  *)
(* messages both poll; the serialiser queues the polls.                    *)
(*                                                                         *)
(* Between two awaits nothing else of the runtime runs: while a poll is    *)
(* "walking" no other step of the node is enabled (Quiet).                 *)
(***************************************************************************)
EXTENDS Naturals, Sequences

CONSTANTS
    NPorts,     \* the ports are scanned in the order 1 .. NPorts
    Devices,    \* device ids
    Anonymous,  \* connected, the device id is undefined
    NullId,     \* connected, the device id could not be read and is null
    Empty,      \* not connected
    Unreachable,\* the entry carries `error`
    Healths,    \* what a device may say of its status and standing events
    Unread,     \* no device status: not asked, or the read failed
    Unknown,    \* of a port the master has not been able to say anything of
    NoState,
    Messages    \* incoming messages, each of which polls

ASSUME PortsAssumption == NPorts \in Nat \ {0}

VARIABLES
    reply,      \* what a scan of the port would answer now
    health,     \* what readDeviceStatus of the port would answer now
    previous,   \* port -> the state the last poll left
    started,    \* has a baseline been taken?
    closed,     \* the node is closed, its timer stopped
    queue,      \* the serialiser: polls in the order they were asked for
    poll,       \* the polls
    sent,       \* the messages the last step sent
    told,       \* history: port -> what the flow was last told of it
    lastReal    \* history: port -> last answer the master gave about the port

world == <<reply, health>>
vars == <<reply, health, previous, started, closed, queue, poll, sent,
          told, lastReal>>

-----------------------------------------------------------------------------

Ports == 1 .. NPorts
Polls == Messages \cup {"timer"}
Found == Devices \cup {Anonymous, NullId, Empty}
Answers == Found \cup {Unreachable}

States == [seen : Found \cup {Unknown}, health : Healths \cup {Unread},
           unreachable : BOOLEAN]

Connected(state) == state.seen \in Devices \cup {Anonymous, NullId}

\* `undefined` as JavaScript compares it: Empty, Anonymous and Unknown alike.
DeviceId(state) ==
    IF state.seen \in Devices \cup {NullId} THEN state.seen ELSE "undefined"

Directions == {"unreachable", "appeared", "disappeared", "device changed",
               "reachable", "status changed"}

\* A message, with the node's own event name.  `was` is a history field: what
\* the master last answered about the port before this poll.
Reports == [port : Ports, from : States \cup {NoState}, to : States,
            event : Directions, by : Polls, was : Found \cup {NoState}]

Idle == [pc |-> "idle"]
Polling ==
         [pc : {"idle", "queued"}]
    \cup [pc : {"scanning"}, answers : Seq(Answers)]
    \cup [pc : {"walking", "probing"}, answers : [Ports -> Answers],
          next : 1 .. NPorts + 1, before : States \cup {NoState},
          messages : SUBSET Reports]

\* The markers for what is not known are not mistaken for an answer or a state.
ASSUME AnswersAssumption ==
    /\ NoState \notin States
    /\ Empty \notin Devices \cup {Anonymous, NullId}
    /\ Found \cap {Unknown, NoState, Unreachable} = {}

\* The node's state, the polls and the messages have the shapes the code gives
\* them; in particular a state never takes the place of an answer or the reverse.
TypeOK ==
    /\ reply \in [Ports -> Answers]
    /\ health \in [Ports -> Healths \cup {Unread}]
    /\ previous \in [Ports -> States \cup {NoState}]
    /\ started \in BOOLEAN /\ closed \in BOOLEAN
    /\ queue \in Seq(Polls)
    /\ poll \in [Polls -> Polling]
    /\ \A i \in Polls : poll[i].pc = "scanning" => Len(poll[i].answers) < NPorts
    /\ sent \subseteq Reports
    /\ told \in [Ports -> States \cup {NoState}]
    /\ lastReal \in [Ports -> Found \cup {NoState}]

-----------------------------------------------------------------------------

Init ==
    /\ reply \in [Ports -> Answers]
    /\ health \in [Ports -> Healths \cup {Unread}]
    /\ previous = [p \in Ports |-> NoState]
    /\ started = FALSE
    /\ closed = FALSE
    /\ queue = <<>>
    /\ poll = [i \in Polls |-> Idle]
    /\ sent = {}
    /\ told = [p \in Ports |-> NoState]
    /\ lastReal = [p \in Ports |-> NoState]

Quiet == \A i \in Polls : poll[i].pc # "walking"

Enqueue(i) ==
    /\ poll[i] = Idle
    /\ ~closed /\ Quiet
    /\ queue' = Append(queue, i)
    /\ poll' = [poll EXCEPT ![i] = [pc |-> "queued"]]
    /\ sent' = {}
    /\ UNCHANGED <<world, previous, started, closed, told, lastReal>>

\* The interval elapses; the tick is skipped while the last one still runs.
Tick == Enqueue("timer")

Receive(m) == Enqueue(m)

\* Mutant: no serialiser, a poll starts when it is asked for.
AtOnce(i) == TRUE

\* A poll starts when those asked for before it have ended.
MyTurn(i) == Head(queue) = i

Start(i) ==
    /\ poll[i].pc = "queued"
    /\ MyTurn(i) /\ Quiet
    /\ poll' = [poll EXCEPT ![i] = [pc |-> "scanning", answers |-> <<>>]]
    /\ sent' = {}
    /\ UNCHANGED <<world, previous, started, closed, queue, told, lastReal>>

\* The adapter asks one port after another; after the last one the walk begins.
Scan(i) ==
    /\ poll[i].pc = "scanning" /\ Quiet
    /\ LET answers == Append(poll[i].answers, reply[Len(poll[i].answers) + 1]) IN
       poll' = [poll EXCEPT ![i] =
         IF Len(answers) < NPorts
         THEN [pc |-> "scanning", answers |-> answers]
         ELSE [pc |-> "walking", answers |-> answers, next |-> 1,
               before |-> NoState, messages |-> {}]]
    /\ sent' = {}
    /\ UNCHANGED <<world, previous, started, closed, queue, told, lastReal>>

-----------------------------------------------------------------------------
(* The walk over the answers.                                               *)

\* Mutant: an outage is taken for the state of the port.
AnswerAsIs(a, before) ==
    [seen |-> a, health |-> Unread, unreachable |-> a = Unreachable]

\* Mutant: nothing is carried forward, a quiet master leaves the port unknown.
NothingCarried(a, before) ==
    IF a = Unreachable
    THEN [seen |-> Unknown, health |-> Unread, unreachable |-> TRUE]
    ELSE [seen |-> a, health |-> Unread, unreachable |-> FALSE]

\* The last known state is carried through an outage under a flag.
StateOf(a, before) ==
    IF a = Unreachable
    THEN [seen        |-> IF before = NoState THEN Unknown ELSE before.seen,
          health      |-> IF before = NoState THEN Unread ELSE before.health,
          unreachable |-> TRUE]
    ELSE [seen |-> a, health |-> Unread, unreachable |-> FALSE]

\* Mutant: a change of the device's health is not watched.
ChangedPort(before, state) ==
    before = NoState \/ before.seen # state.seen
                     \/ before.unreachable # state.unreachable

\* Every field of a state is watched, so is "no state" against any.
Changed(before, state) == before # state

Classify(before, after) ==
    LET known == before # NoState IN
    CASE after.unreachable -> "unreachable"
      [] ~after.unreachable /\ known /\ ~Connected(before) /\ Connected(after) ->
           "appeared"
      [] ~after.unreachable /\ known /\ Connected(before) /\ ~Connected(after) ->
           "disappeared"
      [] ~after.unreachable /\ known /\ Connected(before) = Connected(after) ->
           IF DeviceId(before) # DeviceId(after) /\ DeviceId(after) # "undefined"
           THEN "device changed"
           ELSE IF before.unreachable THEN "reachable" ELSE "status changed"
      [] OTHER -> "status changed"

\* What a message says of the port the walk has come to.
Report(i, before, state) ==
    [port |-> poll[i].next, from |-> before, to |-> state,
     event |-> Classify(before, state), by |-> i, was |-> lastReal[poll[i].next]]

\* The state replaces the previous one; a difference becomes a message unless
\* this poll takes the baseline.
Note(i, before, state) ==
    LET p == poll[i].next IN
    /\ previous' = [previous EXCEPT ![p] = state]
    /\ poll' = [poll EXCEPT ![i] =
         [@ EXCEPT !.pc = "walking", !.next = p + 1, !.before = NoState,
                   !.messages = IF started /\ Changed(before, state)
                                THEN poll[i].messages \cup {Report(i, before, state)}
                                ELSE poll[i].messages]]
    /\ told' = IF started THEN told ELSE [told EXCEPT ![p] = state]
    /\ lastReal' = IF state.unreachable THEN lastReal
                   ELSE [lastReal EXCEPT ![p] = state.seen]

Walk(i) ==
    /\ poll[i].pc = "walking" /\ poll[i].next <= NPorts
    /\ LET p == poll[i].next
           before == previous[p]
           state == StateOf(poll[i].answers[p], before)
       IN IF Connected(state) /\ ~state.unreachable
          THEN /\ poll' = [poll EXCEPT ![i] =
                    [@ EXCEPT !.pc = "probing", !.before = before]]
               /\ UNCHANGED <<previous, told, lastReal>>
          ELSE Note(i, before, state)
    /\ sent' = {}
    /\ UNCHANGED <<world, started, closed, queue>>

\* The device has said how it is, or refused to.
Probe(i) ==
    /\ poll[i].pc = "probing" /\ Quiet
    /\ LET p == poll[i].next IN
       Note(i, poll[i].before,
            [StateOf(poll[i].answers[p], poll[i].before) EXCEPT !.health = health[p]])
    /\ sent' = {}
    /\ UNCHANGED <<world, started, closed, queue>>

\* Mutant: the timer's polls send whether the node is closed or not.
AlwaysSends(i) == TRUE

\* The send of a timer poll is dropped once the node is closed, that of an
\* incoming message is not.
Sends(i) == i = "timer" => ~closed

Finish(i) ==
    /\ poll[i].pc = "walking" /\ poll[i].next = NPorts + 1
    /\ started' = TRUE
    /\ sent' = IF Sends(i) THEN poll[i].messages ELSE {}
    /\ told' = [p \in Ports |->
                  IF \E m \in sent' : m.port = p
                  THEN (CHOOSE m \in sent' : m.port = p).to ELSE told[p]]
    /\ queue' = Tail(queue)
    /\ poll' = [poll EXCEPT ![i] = Idle]
    /\ UNCHANGED <<world, previous, closed, lastReal>>

\* The node closes; a poll under way, and those queued behind it, still run.
Close ==
    /\ ~closed /\ Quiet
    /\ closed' = TRUE
    /\ previous' = [p \in Ports |-> NoState]
    /\ started' = FALSE
    /\ sent' = {}
    /\ UNCHANGED <<world, queue, poll, told, lastReal>>

\* Devices come, go and change their health; the master goes quiet and returns.
Change(p) ==
    /\ \/ /\ \E a \in Answers \ {reply[p]} : reply' = [reply EXCEPT ![p] = a]
          /\ UNCHANGED health
       \/ /\ \E h \in (Healths \cup {Unread}) \ {health[p]} :
               health' = [health EXCEPT ![p] = h]
          /\ UNCHANGED reply
    /\ sent' = {}
    /\ UNCHANGED <<previous, started, closed, queue, poll, told, lastReal>>

-----------------------------------------------------------------------------

Next ==
    \/ Tick
    \/ \E m \in Messages : Receive(m)
    \/ \E i \in Polls : Start(i) \/ Scan(i) \/ Walk(i) \/ Probe(i) \/ Finish(i)
    \/ Close
    \/ \E p \in Ports : Change(p)

Spec == Init /\ [][Next]_vars

\* The interval timer keeps firing and every await of a poll ends.
Fairness ==
    /\ WF_vars(Tick)
    /\ \A i \in Polls : WF_vars(Start(i) \/ Scan(i) \/ Walk(i) \/ Probe(i) \/ Finish(i))

FairSpec == Spec /\ Fairness

-----------------------------------------------------------------------------
(* Properties.                                                              *)

\* Between polls, what the flow was last told of every port is what the last
\* poll found: polls that pile up from the timer and from messages lose no
\* change and leave none half reported.
NoChangeLost ==
    (~closed /\ \A i \in Polls : poll[i].pc \notin {"walking", "probing"}) =>
        \A p \in Ports : told[p] = previous[p]

\* Each message starts where the one before it about that port ended, so no
\* change is told twice and none is skipped over.
MessagesChain ==
    [][\A m \in sent' : ~closed => (m.from = told[m.port] /\ m.to # m.from)]_vars

\* "An outage is reported as an outage rather than as every device on the rack
\* disappearing, and the master coming back is not every device appearing
\* again": a device is only said to have come or gone between two answers of
\* the master that differ so, whatever outages lie between them.  The
\* exception is a port the master has said nothing of since the node started.
OutageIsNoChange ==
    \A m \in sent : ~closed =>
        /\ m.event = "disappeared" => m.was \notin {NoState, Empty} /\ m.to.seen = Empty
        /\ m.event = "appeared"    => m.was \in {NoState, Empty}

\* "Nothing is sent after the node is closed": of the polls the timer starts.
TimerSilentWhenClosed ==
    [][\A m \in sent' : closed => m.by # "timer"]_vars

\* A state of a port that lasts is what the flow is eventually told, whatever
\* else polls the node.
EventuallyTold ==
    \A p \in Ports, a \in Found, h \in Healths \cup {Unread} :
        <>[](~closed /\ reply[p] = a /\ health[p] = h) =>
            <>[](/\ told[p] # NoState
                 /\ told[p].seen = a /\ ~told[p].unreachable
                 /\ told[p].health = IF a = Empty THEN Unread ELSE h)

-----------------------------------------------------------------------------

\* nodes/iolink-event.js:66: "the master coming back is not every device
\* appearing again" - with no exception for a node deployed during the outage.
ComingBackIsNoAppearance ==
    \A m \in sent : (~closed /\ m.event = "appeared") => m.was = Empty
=============================================================================
