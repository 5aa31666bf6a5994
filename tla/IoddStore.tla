------------------------------ MODULE IoddStore ------------------------------
(***************************************************************************)
(* The IODD store every node on a master shares: IoddStore.device and      *)
(* clear of lib/iodd-store.js.                                             *)
(*                                                                         *)
(* What the store caches is the lookup, not its result.  A call that finds *)
(* no entry starts a lookup and becomes its owner; a call that finds one   *)
(* still running waits for it.  A lookup has two awaits, the local folder  *)
(* and then the finder, and whatever they find is decided at that moment.  *)
(* When it ends, the owner and everyone waiting resume in the same drain   *)
(* of the microtask queue, so they are served in one step.                 *)
(*                                                                         *)
(* A lookup is named by its owner: a call owns at most one at a time.      *)
(* What the finder does inside its await is another component's business.  *)
(***************************************************************************)
EXTENDS Integers

CONSTANTS
    Callers,     \* calls of device() that may overlap
    Keys,        \* vendor, device, language, key style and conditions
    Remote,      \* what the finder may answer with: its sources
    RetryAfter,  \* how long a failed lookup is left alone
    NoEntry, NoFailure, NoResult

ASSUME RetryAssumption == RetryAfter \in Nat \ {0}

ASSUME SourcesAssumption == Remote \cap {"file", "memory", "nowhere"} = {}

VARIABLES
    local,     \* does a file of the local folder describe the device?
    remote,    \* what the finder would answer: a source, or "nowhere"
    cache,     \* key -> lookup, running or settled
    failures,  \* key -> age of the last failure remembered
    call,      \* the calls under way
    results,   \* what the last step handed to each caller
    ended,     \* history: how long ago a lookup of the key last failed
    leaked     \* history: keys a lookup from before the last clear failed for

world == <<local, remote>>
history == <<ended, leaked>>
vars == <<local, remote, cache, failures, call, results, ended, leaked>>

-----------------------------------------------------------------------------

Ages == 0 .. RetryAfter
Sources == Remote \cup {"file"}
Settled == [settled |-> TRUE]
Running(c) == [settled |-> FALSE, owner |-> c]

\* The markers for "nothing here" are not mistaken for what they stand beside.
ASSUME LookupMarkers ==
    /\ NoEntry # Settled
    /\ \A c \in Callers : NoEntry # Running(c)
    /\ NoFailure \notin Ages

\* `stale` is a history field: the store was cleared since the lookup began.
Idle == [pc |-> "idle"]
Lookups == [pc : {"local", "finder"}, key : Keys, stale : BOOLEAN]
Calls == {Idle} \cup Lookups \cup [pc : {"waiting"}, key : Keys, owner : Callers]

LooksUp(c) == call[c].pc \in {"local", "finder"}

Nobody == [c \in Callers |-> NoResult]
Told(c, k, outcome) == [Nobody EXCEPT ![c] = [key |-> k, outcome |-> outcome]]

\* The cache holds lookups of calls, settled or running, and a remembered
\* failure has an age, never a time still to come.
TypeOK ==
    /\ local \in [Keys -> BOOLEAN]
    /\ remote \in [Keys -> Remote \cup {"nowhere"}]
    /\ cache \in [Keys -> {NoEntry, Settled} \cup {Running(c) : c \in Callers}]
    /\ failures \in [Keys -> Ages \cup {NoFailure}]
    /\ call \in [Callers -> Calls]
    /\ results \in [Callers ->
         [key : Keys, outcome : Sources \cup {"memory", "failed", "refused"}]
           \cup {NoResult}]
    /\ ended \in [Keys -> Ages]
    /\ leaked \in SUBSET Keys

-----------------------------------------------------------------------------

Init ==
    /\ local \in [Keys -> BOOLEAN]
    /\ remote \in [Keys -> Remote \cup {"nowhere"}]
    /\ cache = [k \in Keys |-> NoEntry]
    /\ failures = [k \in Keys |-> NoFailure]
    /\ call = [c \in Callers |-> Idle]
    /\ results = Nobody
    /\ ended = [k \in Keys |-> RetryAfter]
    /\ leaked = {}

\* Mutant: a failure is never given up on.
RefusedForGood(k) == failures[k] # NoFailure

\* A failure younger than RetryAfter is rethrown instead of looking again.
Refused(k) == failures[k] # NoFailure /\ failures[k] < RetryAfter

\* The lookup already ended: the device comes from memory.
Recall(c, k) ==
    /\ call[c] = Idle
    /\ cache[k] = Settled
    /\ results' = Told(c, k, "memory")
    /\ UNCHANGED <<world, cache, failures, call, history>>

\* The lookup is still running: wait for the one that runs it.
Join(c, k) ==
    /\ call[c] = Idle
    /\ \E d \in Callers :
         /\ cache[k] = Running(d)
         /\ call' = [call EXCEPT ![c] = [pc |-> "waiting", key |-> k, owner |-> d]]
    /\ results' = Nobody
    /\ UNCHANGED <<world, cache, failures, history>>

\* Mutant: what is shared is the result, not the lookup that is to produce it.
NothingYet(k) == cache[k] # Settled

Absent(k) == cache[k] = NoEntry

Refuse(c, k) ==
    /\ call[c] = Idle
    /\ Absent(k)
    /\ Refused(k)
    /\ results' = Told(c, k, "refused")
    /\ UNCHANGED <<world, cache, failures, call, history>>

\* The lookup is in the cache before anything is awaited.
Begin(c, k) ==
    /\ call[c] = Idle
    /\ Absent(k)
    /\ ~Refused(k)
    /\ cache' = [cache EXCEPT ![k] = Running(c)]
    /\ call' = [call EXCEPT ![c] = [pc |-> "local", key |-> k, stale |-> FALSE]]
    /\ results' = Nobody
    /\ UNCHANGED <<world, failures, history>>

-----------------------------------------------------------------------------
(* How a lookup ends.                                                       *)

\* Mutant: only calls that find their lookup still in the cache are resumed.
ServedFromCache(c) ==
    {c} \cup {d \in Callers : /\ call[d].pc = "waiting" /\ call[d].owner = c
                              /\ cache[call[d].key] = Running(c)}

\* The owner, and every call awaiting the same promise.
Served(c) ==
    {c} \cup {d \in Callers : call[d].pc = "waiting" /\ call[d].owner = c}

\* Everyone the lookup serves gets the same outcome.
Resume(c, outcome) ==
    /\ results' = [d \in Callers |->
                     IF d \in Served(c)
                     THEN [key |-> call[c].key, outcome |-> outcome]
                     ELSE NoResult]
    /\ call' = [d \in Callers |-> IF d \in Served(c) THEN Idle ELSE call[d]]

\* The entry object is marked settled; it is in the cache unless a clear, or a
\* failing lookup from before one, took it out.
Succeed(c, source) ==
    /\ cache' = [k \in Keys |-> IF cache[k] = Running(c) THEN Settled ELSE cache[k]]
    /\ Resume(c, source)
    /\ UNCHANGED <<world, failures, history>>

\* Whatever entry the key has is deleted, also one this lookup does not own.
DropEntry(k) == [cache EXCEPT ![k] = NoEntry]

\* Mutant: the failure is not remembered.
FailureForgotten(k) == failures

\* Mutant: the time of the next attempt is remembered, not that of the failure.
FailureUntil(k) == [failures EXCEPT ![k] = 0 - RetryAfter]

FailureNow(k) == [failures EXCEPT ![k] = 0]

Fail(c) ==
    LET k == call[c].key IN
    /\ cache' = DropEntry(k)
    /\ failures' = FailureNow(k)
    /\ Resume(c, "failed")
    /\ ended' = [ended EXCEPT ![k] = 0]
    /\ leaked' = IF call[c].stale THEN leaked \cup {k} ELSE leaked
    /\ UNCHANGED world

\* The local folder has been searched.
LocalDone(c) ==
    /\ call[c].pc = "local"
    /\ IF local[call[c].key]
       THEN Succeed(c, "file")
       ELSE /\ call' = [call EXCEPT ![c].pc = "finder"]
            /\ results' = Nobody
            /\ UNCHANGED <<world, cache, failures, history>>

\* The finder has answered, or given up.
FinderDone(c) ==
    /\ call[c].pc = "finder"
    /\ IF remote[call[c].key] # "nowhere"
       THEN Succeed(c, remote[call[c].key])
       ELSE Fail(c)

\* The master node closes.  Lookups under way keep running.
Clear ==
    /\ cache' = [k \in Keys |-> NoEntry]
    /\ failures' = [k \in Keys |-> NoFailure]
    /\ call' = [c \in Callers |->
                  IF LooksUp(c) THEN [call[c] EXCEPT !.stale = TRUE] ELSE call[c]]
    /\ results' = Nobody
    /\ ended' = [k \in Keys |-> RetryAfter]
    /\ leaked' = {}
    /\ UNCHANGED world

-----------------------------------------------------------------------------
(* The world: files are dropped and removed, the finder comes and goes, and *)
(* time passes.                                                             *)

Change(k) ==
    /\ \/ /\ local' = [local EXCEPT ![k] = ~local[k]]
          /\ UNCHANGED remote
       \/ /\ \E s \in (Remote \cup {"nowhere"}) \ {remote[k]} :
               remote' = [remote EXCEPT ![k] = s]
          /\ UNCHANGED local
    /\ results' = Nobody
    /\ UNCHANGED <<cache, failures, call, history>>

Older(age) == IF age < RetryAfter THEN age + 1 ELSE RetryAfter

Tick ==
    /\ failures' = [k \in Keys |->
                      IF failures[k] = NoFailure THEN NoFailure
                      ELSE Older(failures[k])]
    /\ ended' = [k \in Keys |-> Older(ended[k])]
    /\ results' = Nobody
    /\ UNCHANGED <<world, cache, call, leaked>>

-----------------------------------------------------------------------------

Next ==
    \/ \E c \in Callers, k \in Keys :
         Recall(c, k) \/ Join(c, k) \/ Refuse(c, k) \/ Begin(c, k)
    \/ \E c \in Callers : LocalDone(c) \/ FinderDone(c)
    \/ \E k \in Keys : Change(k)
    \/ Clear
    \/ Tick

Spec == Init /\ [][Next]_vars

\* Time passes and both awaits of a lookup end: file reads complete, requests
\* are answered or aborted.  Nobody is obliged to ask.
Fairness ==
    /\ WF_vars(Tick)
    /\ \A c \in Callers : WF_vars(LocalDone(c)) /\ WF_vars(FinderDone(c))

FairSpec == Spec /\ Fairness

-----------------------------------------------------------------------------
(* Properties.                                                              *)

\* However many calls want a device at once, one lookup runs: "every read node
\* deploying at once" downloads its IODD once.  The exception is a lookup from
\* before a clear that fails after it, which takes a newer entry with it.
LookupShared ==
    \A c, d \in Callers :
        (/\ c # d /\ LooksUp(c) /\ LooksUp(d)
         /\ ~call[c].stale /\ ~call[d].stale
         /\ call[c].key = call[d].key) => call[c].key \in leaked

\* A lookup that failed is not repeated before RetryAfter has passed since it
\* ended, so a device with no IODD does not cost a request on every poll.
LeftAlone ==
    [][\A c \in Callers :
         call[c] = Idle /\ call'[c].pc = "local" =>
            ended[call'[c].key] >= RetryAfter]_vars

\* A device that was found stays in memory until the master closes: no lookup
\* that ends later, in whatever order, takes it out again.
FoundStays ==
    [][\A k \in Keys :
         (cache[k] = Settled /\ cache'[k] # Settled) =>
            \/ k \in leaked'
            \/ \A j \in Keys : cache'[j] = NoEntry /\ failures'[j] = NoFailure]_vars

\* A call that waits, waits for a lookup of its own key that still runs; clear
\* empties the cache under it without leaving it behind.
WaitersServed ==
    \A c \in Callers : call[c].pc = "waiting" =>
        /\ LooksUp(call[c].owner)
        /\ call[call[c].owner].key = call[c].key

\* Once an IODD is in the folder to stay, or at the finder to stay, calls eventually stop
\* failing: no failure, remembered or in flight, is handed out for ever.
ResolvesAtLast ==
    \A k \in Keys :
        (<>[]local[k] \/ <>[](remote[k] # "nowhere")) =>
            <>[](\A c \in Callers :
                   (results[c] # NoResult /\ results[c].key = k) =>
                      results[c].outcome \notin {"failed", "refused"})
=============================================================================
