---------------------------- MODULE PortIdentity ----------------------------
(***************************************************************************)
(* The identity cache every node on a master shares: PortIdentityCache of  *)
(* lib/runtime.js and the way resolveDevice reads what it returns.         *)
(*                                                                         *)
(* Nodes call `get` concurrently.  A call reads the clock and the cache in *)
(* one synchronous stretch (Hit or Ask), then awaits adapter.scanPorts.    *)
(* The master answers at some moment of that wait (Reply) and the answer   *)
(* reaches the call later (Return), so calls overlap and answers may be    *)
(* delivered in another order than the questions were asked.               *)
(*                                                                         *)
(* Time is kept as ages, which stop growing at Cap.  No comparison of the  *)
(* code can tell two ages apart that are both at least the longest time an *)
(* answer is trusted, so Cap only has to reach that.                       *)
(***************************************************************************)
EXTENDS Integers

CONSTANTS
    Callers,      \* runs of resolveDevice that may overlap
    Ports,
    Identified,   \* scan answers with both a vendor and a device id
    VendorOnly,   \* a device is there, its device id could not be read
    Anonymous,    \* a device is there, the master does not say which
    Empty,        \* no device
    Unreachable,  \* an entry carrying `error`: the master could not be asked
    Wishes,       \* how old an answer the nodes are willing to take (ttl)
    EmptyTtl,     \* how long "no device" is trusted at most
    Cap,          \* bound on every age
    NoEntry, NoResult

ASSUME TimesAssumption ==
    /\ Cap \in Nat /\ EmptyTtl \in 0 .. Cap
    /\ Wishes \subseteq 0 .. Cap

ASSUME AnswersAssumption ==
    /\ VendorOnly \notin Identified /\ Anonymous \notin Identified
    /\ Empty \notin Identified      /\ Unreachable \notin Identified
    /\ VendorOnly # Anonymous /\ VendorOnly # Empty /\ VendorOnly # Unreachable
    /\ Anonymous # Empty /\ Anonymous # Unreachable /\ Empty # Unreachable

VARIABLES
    reply,    \* what a scan of the port would answer right now
    entries,  \* the cache
    call,     \* the calls under way
    result    \* what the last step handed to a caller, NoResult otherwise

vars == <<reply, entries, call, result>>

-----------------------------------------------------------------------------

Answers == Identified \cup {VendorOnly, Anonymous, Empty, Unreachable}
Ages == 0 .. Cap

HasVendor(v) == v \in Identified \cup {VendorOnly}

\* What resolveDevice makes of an answer.
Outcome(v) ==
    CASE v = Unreachable               -> "IOLINK_MASTER_UNREACHABLE"
      [] v \in {VendorOnly, Anonymous} -> "IOLINK_NO_IDENTITY"
      [] v = Empty                     -> "IOLINK_NO_DEVICE"
      [] OTHER                         -> "resolved"

\* `at` is the age of the entry.  `seen` is a history field: how long ago the
\* master gave the answer.
Entries == [at : Ages, empty : BOOLEAN, value : Answers, seen : Ages]

Idle == [pc |-> "idle"]
Calls ==
         {Idle}
    \cup [pc : {"asked"}, port : Ports, ttl : Wishes, now : Ages]
    \cup [pc : {"answered"}, port : Ports, ttl : Wishes, now : Ages,
          status : Answers, seen : Ages]

\* `now` of a call is the age of the call's own reading of the clock.
Results == [port : Ports, ttl : Wishes, value : Answers, seen : Ages,
            now : Ages, cached : BOOLEAN]

\* The markers for "nothing here" are not mistaken for a record.
ASSUME MarkersAssumption ==
    NoEntry \notin Entries /\ NoResult \notin Results

\* Every entry carries its date and whether it found a device; calls and
\* results keep the shapes `get` gives them.
TypeOK ==
    /\ reply \in [Ports -> Answers]
    /\ entries \in [Ports -> Entries \cup {NoEntry}]
    /\ call \in [Callers -> Calls]
    /\ result \in Results \cup {NoResult}

-----------------------------------------------------------------------------

Init ==
    /\ reply \in [Ports -> Answers]
    /\ entries = [p \in Ports |-> NoEntry]
    /\ call = [c \in Callers |-> Idle]
    /\ result = NoResult

MinOf(a, b) == IF a < b THEN a ELSE b

\* Mutant: one time to live for every entry.
TrustAllAlike(hit, w) == w

\* How long an entry is trusted by a node that wants answers younger than w.
MaxAge(hit, w) == IF hit.empty THEN MinOf(EmptyTtl, w) ELSE w

\* Mutant: whatever is in the cache will do, so a swap is never noticed.
FreshForever(p, w) == entries[p] # NoEntry

Fresh(p, w) ==
    /\ entries[p] # NoEntry
    /\ entries[p].at < MaxAge(entries[p], w)

\* A fresh entry is returned without asking the master.
Hit(c, p, w) ==
    /\ call[c] = Idle
    /\ Fresh(p, w)
    /\ result' = [port |-> p, ttl |-> w, value |-> entries[p].value,
                  seen |-> entries[p].seen, now |-> 0, cached |-> TRUE]
    /\ UNCHANGED <<reply, entries, call>>

\* Otherwise the port is scanned, whoever else may already be scanning it.
Ask(c, p, w) ==
    /\ call[c] = Idle
    /\ ~Fresh(p, w)
    /\ call' = [call EXCEPT ![c] =
                  [pc |-> "asked", port |-> p, ttl |-> w, now |-> 0]]
    /\ result' = NoResult
    /\ UNCHANGED <<reply, entries>>

\* The master settles what the answer will be.
Reply(c) ==
    /\ call[c].pc = "asked"
    /\ call' = [call EXCEPT ![c] =
                  [pc |-> "answered", port |-> call[c].port,
                   ttl |-> call[c].ttl, now |-> call[c].now,
                   status |-> reply[call[c].port], seen |-> 0]]
    /\ result' = NoResult
    /\ UNCHANGED <<reply, entries>>

\* Mutant: the entry does not say whether a device was found.
RememberUnmarked(k) ==
    IF k.status # Unreachable
    THEN [at |-> k.now, value |-> k.status, seen |-> k.seen]
    ELSE NoEntry

\* Mutant: the clock is read after the await instead of before it.
RememberOnArrival(k) ==
    IF k.status # Unreachable
    THEN [at |-> 0, empty |-> ~HasVendor(k.status),
          value |-> k.status, seen |-> k.seen]
    ELSE NoEntry

\* Mutant: an outage is remembered like any other answer.
RememberOutage(k) ==
    [at |-> k.now, empty |-> ~HasVendor(k.status),
     value |-> k.status, seen |-> k.seen]

\* The entry an answered call leaves behind, dated when the call began.
Remember(k) ==
    IF k.status # Unreachable
    THEN [at |-> k.now, empty |-> ~HasVendor(k.status),
          value |-> k.status, seen |-> k.seen]
    ELSE NoEntry

Return(c) ==
    /\ call[c].pc = "answered"
    /\ entries' = [entries EXCEPT ![call[c].port] = Remember(call[c])]
    /\ result' = [port |-> call[c].port, ttl |-> call[c].ttl,
                  value |-> call[c].status, seen |-> call[c].seen,
                  now |-> call[c].now, cached |-> FALSE]
    /\ call' = [call EXCEPT ![c] = Idle]
    /\ UNCHANGED reply

\* The master node closes: the cache is cleared, calls under way go on.
Clear ==
    /\ \E p \in Ports : entries[p] # NoEntry
    /\ entries' = [p \in Ports |-> NoEntry]
    /\ result' = NoResult
    /\ UNCHANGED <<reply, call>>

-----------------------------------------------------------------------------
(* The world: devices are swapped, the master goes quiet and comes back, a  *)
(* read of an id fails, and time passes.                                    *)

Change(p, v) ==
    /\ reply[p] # v
    /\ reply' = [reply EXCEPT ![p] = v]
    /\ result' = NoResult
    /\ UNCHANGED <<entries, call>>

Older(age) == IF age < Cap THEN age + 1 ELSE Cap

OlderEntry(e) == [e EXCEPT !.at = Older(e.at), !.seen = Older(e.seen)]

OlderCall(k) ==
    CASE k.pc = "asked"    -> [k EXCEPT !.now = Older(k.now)]
      [] k.pc = "answered" -> [k EXCEPT !.now = Older(k.now),
                                        !.seen = Older(k.seen)]
      [] OTHER             -> k

Tick ==
    /\ entries' = [p \in Ports |->
                     IF entries[p] = NoEntry THEN NoEntry
                     ELSE OlderEntry(entries[p])]
    /\ call' = [c \in Callers |-> OlderCall(call[c])]
    /\ result' = NoResult
    /\ UNCHANGED reply

-----------------------------------------------------------------------------

Next ==
    \/ \E c \in Callers, p \in Ports, w \in Wishes : Hit(c, p, w) \/ Ask(c, p, w)
    \/ \E c \in Callers : Reply(c) \/ Return(c)
    \/ \E p \in Ports, v \in Answers : Change(p, v)
    \/ Clear
    \/ Tick

Spec == Init /\ [][Next]_vars

\* Time passes, every request is answered or times out (lib/http.js aborts it),
\* and an answer that has arrived is taken.  Nobody is obliged to ask.
Fairness ==
    /\ WF_vars(Tick)
    /\ \A c \in Callers : WF_vars(Reply(c)) /\ WF_vars(Return(c))

FairSpec == Spec /\ Fairness

-----------------------------------------------------------------------------
(* Properties.                                                              *)

\* An answer out of the cache was given by the master less than the caller's
\* own wish ago, however long the scan that fetched it took: entries are dated
\* by the clock read before the await, so a slow scan cannot make an old
\* answer look young.  An answer out of a scan was given during the call.
AnswerFresh ==
    result # NoResult =>
        IF result.cached THEN result.seen < result.ttl
                         ELSE result.seen <= result.now

\* "No device", and a device whose vendor is unknown, are never served from an
\* answer older than EmptyTtl, however long the caller is willing to trust a device:
\* a device just plugged in is picked up without waiting out the full TTL.
EmptyIsRecent ==
    (result # NoResult /\ result.cached /\ ~HasVendor(result.value)) =>
        result.seen < EmptyTtl

\* A call that fails with IOLINK_MASTER_UNREACHABLE asked the master itself:
\* an outage is never replayed out of the cache after the master came back.
OutageIsCurrent ==
    (result # NoResult /\ Outcome(result.value) = "IOLINK_MASTER_UNREACHABLE") =>
        ~result.cached

\* The strengthening that carries the three: what the cache and the calls under
\* way hold, rather than what one call is told.
CacheSound ==
    /\ \A p \in Ports : entries[p] # NoEntry =>
          /\ entries[p].value # Unreachable
          /\ entries[p].empty = ~HasVendor(entries[p].value)
          /\ entries[p].seen <= entries[p].at
    /\ \A c \in Callers : call[c].pc = "answered" => call[c].seen <= call[c].now

\* Once a port keeps giving one answer, every call about it is eventually told
\* that answer and goes on being told it, whatever is still in flight or in
\* the cache from before: a swapped device does not stay hidden.
SwapNoticed ==
    \A p \in Ports, v \in Answers :
        <>[](reply[p] = v) =>
            <>[](result # NoResult /\ result.port = p => result.value = v)

-----------------------------------------------------------------------------
(* What the comments and the README say of the cache, and the code does not *)
(* do when calls overlap.                                                   *)

\* lib/runtime.js:13: "three nodes reading port 1 ask the port once, not three
\* times" - no two calls have a question about the same port under way.
AskedOnce ==
    \A c, d \in Callers :
        (c # d /\ call[c] # Idle /\ call[d] # Idle) => call[c].port # call[d].port
=============================================================================
