--------------------------- MODULE IoddStoreProofs ---------------------------
(***************************************************************************)
(* What the IODD store promises for any number of callers and keys: one    *)
(* lookup per device at a time, nobody waiting for a lookup that is gone,  *)
(* devices that stay found, and failed lookups left alone.                 *)
(*                                                                         *)
(* The invariant ties the three places a lookup leaves a trace together:   *)
(* the cache names the calls that run a lookup (CacheOwned), a call that   *)
(* runs one since the last clear is named by the cache (OwnersCached), and *)
(* the failures remembered are as old as they claim (FailuresDated).       *)
(***************************************************************************)
EXTENDS IoddStore, TLAPS

\* A key in the cache belongs to a lookup of that key that still runs.
CacheOwned ==
    \A k \in Keys, c \in Callers :
        cache[k] = Running(c) => LooksUp(c) /\ call[c].key = k

\* A lookup begun since the last clear is what the cache holds for its key.
OwnersCached ==
    \A c \in Callers :
        LooksUp(c) /\ ~call[c].stale =>
            cache[call[c].key] = Running(c) \/ call[c].key \in leaked

\* A failure is remembered exactly as long ago as the lookup ended.
FailuresDated ==
    \A k \in Keys : IF failures[k] = NoFailure THEN ended[k] = RetryAfter
                                               ELSE failures[k] = ended[k]

IInv == TypeOK /\ CacheOwned /\ OwnersCached /\ WaitersServed /\ FailuresDated

-----------------------------------------------------------------------------

LEMMA RunningNotSettled == \A c \in Callers : Running(c) # Settled
<1>1. \A c \in Callers : Running(c).settled # Settled.settled
  BY DEF Running, Settled
<1>2. QED
  BY <1>1

LEMMA RunningInjective == \A c, d \in Callers : Running(c) = Running(d) => c = d
<1>1. \A c \in Callers : Running(c).owner = c
  BY DEF Running
<1>2. QED
  BY <1>1

\* The shapes a call can have, one by one.
LEMMA CallShapes ==
  ASSUME NEW k \in Calls
  PROVE  /\ k.pc \in {"idle", "local", "finder", "waiting"}
         /\ k.pc = "idle" => k = Idle
         /\ k.pc \in {"local", "finder"} =>
              k \in Lookups /\ k.key \in Keys /\ k.stale \in BOOLEAN
         /\ k.pc = "waiting" =>
              /\ k \in [pc : {"waiting"}, key : Keys, owner : Callers]
              /\ k.key \in Keys /\ k.owner \in Callers
  BY DEF Calls, Idle, Lookups

LEMMA OlderInAges == \A a \in Ages : Older(a) \in Ages
  BY RetryAssumption DEF Ages, Older

\* What ending a lookup does to the calls: those it serves become idle and are
\* told the outcome, the others stay as they are.
LEMMA ResumeType ==
  ASSUME TypeOK, NEW c \in Callers, LooksUp(c),
         NEW outcome \in Sources \cup {"failed"}, Resume(c, outcome)
  PROVE  /\ call' \in [Callers -> Calls]
         /\ results' \in [Callers ->
              [key : Keys, outcome : Sources \cup {"memory", "failed", "refused"}]
                \cup {NoResult}]
<1>1. call[c].key \in Keys
  BY CallShapes DEF TypeOK, LooksUp
<1>2. call' \in [Callers -> Calls]
  BY DEF Resume, TypeOK, Calls
<1>3. QED
  BY <1>1, <1>2 DEF Resume

LEMMA SucceedType ==
  ASSUME TypeOK, NEW c \in Callers, LooksUp(c), NEW source \in Sources, Succeed(c, source)
  PROVE  TypeOK'
<1>1. /\ call' \in [Callers -> Calls]
      /\ results' \in [Callers ->
           [key : Keys, outcome : Sources \cup {"memory", "failed", "refused"}]
             \cup {NoResult}]
  BY ResumeType DEF Succeed
<1>2. cache' \in [Keys -> {NoEntry, Settled} \cup {Running(d) : d \in Callers}]
  BY DEF Succeed, TypeOK
<1>3. QED
  BY <1>1, <1>2 DEF Succeed, TypeOK, world, history

LEMMA FailType ==
  ASSUME TypeOK, NEW c \in Callers, LooksUp(c), Fail(c)
  PROVE  TypeOK'
<1>1. call[c].key \in Keys
  BY CallShapes DEF TypeOK, LooksUp
<1>2. /\ call' \in [Callers -> Calls]
      /\ results' \in [Callers ->
           [key : Keys, outcome : Sources \cup {"memory", "failed", "refused"}]
             \cup {NoResult}]
  BY ResumeType DEF Fail
<1>3. 0 \in Ages
  BY RetryAssumption DEF Ages
<1>4. /\ cache' \in [Keys -> {NoEntry, Settled} \cup {Running(d) : d \in Callers}]
      /\ failures' \in [Keys -> Ages \cup {NoFailure}]
      /\ ended' \in [Keys -> Ages]
      /\ leaked' \in SUBSET Keys
  BY <1>1, <1>3 DEF Fail, TypeOK, DropEntry, FailureNow
<1>5. QED
  BY <1>2, <1>4 DEF Fail, TypeOK, world

-----------------------------------------------------------------------------

\* Every variable keeps its type.
THEOREM TypeCorrect == Spec => []TypeOK
<1>1. Init => TypeOK
  BY RetryAssumption DEF Init, TypeOK, Calls, Nobody, Ages
<1>2. TypeOK /\ [Next]_vars => TypeOK'
  <2> SUFFICES ASSUME TypeOK, [Next]_vars PROVE TypeOK'
    OBVIOUS
  <2>1. ASSUME NEW c \in Callers, NEW k \in Keys,
               Recall(c, k) \/ Join(c, k) \/ Refuse(c, k)
        PROVE  TypeOK'
    <3>1. CASE Recall(c, k)
      BY <3>1 DEF Recall, Told, Nobody, TypeOK, world, history
    <3>2. CASE Join(c, k)
      <4>1. call' \in [Callers -> Calls]
        BY <3>2 DEF Join, TypeOK, Calls
      <4>2. QED
        BY <3>2, <4>1 DEF Join, Nobody, TypeOK, world, history
    <3>3. CASE Refuse(c, k)
      BY <3>3 DEF Refuse, Told, Nobody, TypeOK, world, history
    <3>4. QED
      BY <2>1, <3>1, <3>2, <3>3
  <2>2. ASSUME NEW c \in Callers, NEW k \in Keys, Begin(c, k)
        PROVE  TypeOK'
    <3>1. call' \in [Callers -> Calls]
      BY <2>2 DEF Begin, TypeOK, Calls, Lookups
    <3>2. QED
      BY <2>2, <3>1 DEF Begin, Nobody, TypeOK, world, history
  <2>3. ASSUME NEW c \in Callers, LocalDone(c)
        PROVE  TypeOK'
    <3>1. LooksUp(c) /\ call[c] \in Lookups
      BY <2>3, CallShapes DEF LocalDone, LooksUp, TypeOK
    <3>2. CASE local[call[c].key]
      BY <2>3, <3>1, <3>2, SucceedType DEF LocalDone, Sources
    <3>3. CASE ~local[call[c].key]
      <4>1. call' \in [Callers -> Calls]
        BY <2>3, <3>1, <3>3 DEF LocalDone, TypeOK, Calls, Lookups
      <4>2. QED
        BY <2>3, <3>3, <4>1 DEF LocalDone, Nobody, TypeOK, world, history
    <3>4. QED
      BY <3>2, <3>3
  <2>4. ASSUME NEW c \in Callers, FinderDone(c)
        PROVE  TypeOK'
    <3>1. LooksUp(c) /\ call[c].key \in Keys
      BY <2>4, CallShapes DEF FinderDone, LooksUp, TypeOK
    <3>2. CASE remote[call[c].key] # "nowhere"
      <4>1. remote[call[c].key] \in Sources
        BY <3>1, <3>2 DEF TypeOK, Sources
      <4>2. QED
        BY <2>4, <3>1, <3>2, <4>1, SucceedType DEF FinderDone
    <3>3. CASE remote[call[c].key] = "nowhere"
      BY <2>4, <3>1, <3>3, FailType DEF FinderDone
    <3>4. QED
      BY <3>2, <3>3
  <2>5. CASE Clear
    <3>1. call' \in [Callers -> Calls]
      BY <2>5, CallShapes DEF Clear, TypeOK, LooksUp, Calls, Lookups
    <3>2. QED
      BY <2>5, <3>1, RetryAssumption DEF Clear, Nobody, TypeOK, Ages, world
  <2>6. ASSUME NEW k \in Keys, Change(k)
        PROVE  TypeOK'
    BY <2>6 DEF Change, Nobody, TypeOK, history
  <2>7. CASE Tick
    BY <2>7, OlderInAges DEF Tick, Nobody, TypeOK, world
  <2>8. CASE UNCHANGED vars
    BY <2>8 DEF vars, TypeOK
  <2>9. QED
    BY <2>1, <2>2, <2>3, <2>4, <2>5, <2>6, <2>7, <2>8 DEF Next
<1>3. QED
  BY <1>1, <1>2, PTL DEF Spec

-----------------------------------------------------------------------------
(* The two ways a lookup ends, and what each leaves of the invariant.       *)

\* A call that ends in this step serves every call waiting for it.
LEMMA ResumeWaiters ==
  ASSUME IInv, NEW c \in Callers, LooksUp(c), NEW outcome, Resume(c, outcome)
  PROVE  /\ call' \in [Callers -> Calls]
         /\ call'[c] = Idle
         /\ \A d \in Callers : call'[d] # Idle => call'[d] = call[d] /\ d # c
         /\ WaitersServed'
<1>1. /\ call' = [d \in Callers |-> IF d \in Served(c) THEN Idle ELSE call[d]]
      /\ c \in Served(c) /\ call \in [Callers -> Calls]
  BY DEF Resume, Served, IInv, TypeOK
<1>2. /\ call' \in [Callers -> Calls]
      /\ call'[c] = Idle
      /\ \A d \in Callers : call'[d] # Idle => call'[d] = call[d] /\ d # c
  BY <1>1 DEF Calls
<1>3. ASSUME NEW d \in Callers, call'[d].pc = "waiting"
      PROVE  LooksUp(call[d].owner)' /\ (call[call[d].owner].key = call[d].key)'
  <2>1. call'[d] = call[d] /\ call[d].pc = "waiting" /\ call[d].owner # c
    BY <1>1, <1>3 DEF Served, Idle
  <2>2. /\ call[d].owner \in Callers /\ LooksUp(call[d].owner)
        /\ call[call[d].owner].key = call[d].key
    BY <2>1, CallShapes, <1>1 DEF IInv, WaitersServed
  <2>3. call'[call[d].owner] = call[call[d].owner]
    BY <1>1, <2>1, <2>2 DEF Served, LooksUp
  <2>4. QED
    BY <2>1, <2>2, <2>3 DEF LooksUp
<1>4. QED
  BY <1>2, <1>3 DEF WaitersServed

LEMMA SucceedInv ==
  ASSUME IInv, NEW c \in Callers, LooksUp(c), NEW source, Succeed(c, source)
  PROVE  CacheOwned' /\ OwnersCached' /\ WaitersServed' /\ FailuresDated'
<1>1. /\ cache' = [k \in Keys |-> IF cache[k] = Running(c) THEN Settled ELSE cache[k]]
      /\ UNCHANGED <<failures, ended, leaked>>
  BY DEF Succeed, history
<1>2. /\ call'[c] = Idle
      /\ \A d \in Callers : call'[d] # Idle => call'[d] = call[d] /\ d # c
      /\ \A d \in Callers : call[d].pc \in {"local", "finder"} /\ d # c => call'[d] = call[d]
      /\ WaitersServed'
  BY ResumeWaiters DEF Succeed, Resume, Served, IInv, TypeOK
<1>3. CacheOwned'
  <2> SUFFICES ASSUME NEW k \in Keys, NEW d \in Callers, cache'[k] = Running(d)
               PROVE  LooksUp(d)' /\ call'[d].key = k
    BY DEF CacheOwned
  <2>1. cache[k] = Running(d) /\ d # c
    BY <1>1, RunningNotSettled
  <2>2. LooksUp(d) /\ call[d].key = k
    BY <2>1 DEF IInv, CacheOwned
  <2>3. QED
    BY <1>2, <2>1, <2>2 DEF LooksUp
<1>4. OwnersCached'
  <2> SUFFICES ASSUME NEW d \in Callers, LooksUp(d)', ~call'[d].stale
               PROVE  cache'[call'[d].key] = Running(d) \/ call'[d].key \in leaked'
    BY DEF OwnersCached
  <2>1. call'[d] = call[d] /\ d # c /\ LooksUp(d) /\ ~call[d].stale
    BY <1>2 DEF LooksUp, Idle
  <2>2. call[d].key \in Keys
    BY <2>1, CallShapes DEF LooksUp, IInv, TypeOK
  <2>3. cache[call[d].key] = Running(d) \/ call[d].key \in leaked
    BY <2>1 DEF IInv, OwnersCached
  <2>4. QED
    BY <1>1, <2>1, <2>2, <2>3, RunningInjective
<1>5. FailuresDated'
  BY <1>1 DEF IInv, FailuresDated
<1>6. QED
  BY <1>2, <1>3, <1>4, <1>5

LEMMA FailInv ==
  ASSUME IInv, NEW c \in Callers, LooksUp(c), Fail(c)
  PROVE  CacheOwned' /\ OwnersCached' /\ WaitersServed' /\ FailuresDated'
<1> DEFINE key == call[c].key
<1>1. /\ cache' = [cache EXCEPT ![key] = NoEntry]
      /\ failures' = [failures EXCEPT ![key] = 0]
      /\ ended' = [ended EXCEPT ![key] = 0]
      /\ leaked' = IF call[c].stale THEN leaked \cup {key} ELSE leaked
      /\ key \in Keys
  BY CallShapes DEF Fail, DropEntry, FailureNow, LooksUp, IInv, TypeOK
<1>2. /\ call'[c] = Idle
      /\ \A d \in Callers : call'[d] # Idle => call'[d] = call[d] /\ d # c
      /\ \A d \in Callers : call[d].pc \in {"local", "finder"} /\ d # c => call'[d] = call[d]
      /\ WaitersServed'
  BY ResumeWaiters DEF Fail, Resume, Served, IInv, TypeOK
<1>3. CacheOwned'
  <2> SUFFICES ASSUME NEW k \in Keys, NEW d \in Callers, cache'[k] = Running(d)
               PROVE  LooksUp(d)' /\ call'[d].key = k
    BY DEF CacheOwned
  <2>1. CASE k = key
    <3>1. cache'[k] = NoEntry
      BY <1>1, <2>1 DEF IInv, TypeOK
    <3>2. QED
      BY <3>1, LookupMarkers
  <2>2. CASE k # key
    <3>1. cache[k] = Running(d)
      BY <1>1, <2>2 DEF IInv, TypeOK
    <3>2. LooksUp(d) /\ call[d].key = k
      BY <3>1 DEF IInv, CacheOwned
    <3>3. QED
      BY <1>2, <2>2, <3>2 DEF LooksUp
  <2>3. QED
    BY <2>1, <2>2
<1>4. OwnersCached'
  <2> SUFFICES ASSUME NEW d \in Callers, LooksUp(d)', ~call'[d].stale
               PROVE  cache'[call'[d].key] = Running(d) \/ call'[d].key \in leaked'
    BY DEF OwnersCached
  <2>1. call'[d] = call[d] /\ d # c /\ LooksUp(d) /\ ~call[d].stale
    BY <1>2 DEF LooksUp, Idle
  <2>2. call[d].key \in Keys
    BY <2>1, CallShapes DEF LooksUp, IInv, TypeOK
  <2>3. cache[call[d].key] = Running(d) \/ call[d].key \in leaked
    BY <2>1 DEF IInv, OwnersCached
  <2>4. CASE call[d].key # key
    BY <1>1, <2>1, <2>2, <2>3, <2>4 DEF IInv, TypeOK
  <2>5. CASE call[d].key = key
    <3>1. call[c].stale \/ cache[key] = Running(c) \/ key \in leaked
      BY DEF IInv, OwnersCached
    <3>2. key \in leaked'
      BY <1>1, <2>1, <2>3, <2>5, <3>1, RunningInjective
    <3>3. QED
      BY <2>1, <2>5, <3>2
  <2>6. QED
    BY <2>4, <2>5
<1>5. FailuresDated'
  BY <1>1, LookupMarkers, RetryAssumption DEF IInv, FailuresDated, TypeOK, Ages
<1>6. QED
  BY <1>2, <1>3, <1>4, <1>5

-----------------------------------------------------------------------------

\* The cache, the calls and the failures remembered agree.
THEOREM Inductive == Spec => []IInv
<1>1. Init => IInv
  <2>1. Init => TypeOK
    BY RetryAssumption DEF Init, TypeOK, Calls, Nobody, Ages
  <2>2. Init => CacheOwned /\ OwnersCached /\ WaitersServed /\ FailuresDated
    BY LookupMarkers DEF Init, CacheOwned, OwnersCached, WaitersServed,
       FailuresDated, LooksUp, Idle
  <2>3. QED
    BY <2>1, <2>2 DEF IInv
<1>2. IInv /\ TypeOK' /\ [Next]_vars => IInv'
  <2> SUFFICES ASSUME IInv, TypeOK', [Next]_vars
               PROVE  CacheOwned' /\ OwnersCached' /\ WaitersServed' /\ FailuresDated'
    BY DEF IInv
  <2>1. ASSUME UNCHANGED <<cache, call, failures, ended, leaked>>
        PROVE  CacheOwned' /\ OwnersCached' /\ WaitersServed' /\ FailuresDated'
    BY <2>1 DEF IInv, CacheOwned, OwnersCached, WaitersServed, FailuresDated, LooksUp
  <2>2. ASSUME NEW c \in Callers, NEW k \in Keys, Join(c, k)
        PROVE  CacheOwned' /\ OwnersCached' /\ WaitersServed' /\ FailuresDated'
    <3>1. PICK d \in Callers :
            /\ cache[k] = Running(d)
            /\ call' = [call EXCEPT ![c] = [pc |-> "waiting", key |-> k, owner |-> d]]
      BY <2>2 DEF Join
    <3>2. LooksUp(d) /\ call[d].key = k /\ ~LooksUp(c)
      BY <2>2, <3>1 DEF Join, IInv, CacheOwned, LooksUp, Idle
    <3>3. /\ UNCHANGED <<cache, failures, ended, leaked>>
          /\ \A e \in Callers : e # c => call'[e] = call[e]
          /\ call'[c] = [pc |-> "waiting", key |-> k, owner |-> d]
      BY <2>2, <3>1 DEF Join, history, IInv, TypeOK
    <3>4. \A e \in Callers : LooksUp(e)' = LooksUp(e) /\ (LooksUp(e) => call'[e] = call[e])
      BY <3>2, <3>3 DEF LooksUp
    <3>5. CacheOwned' /\ OwnersCached'
      BY <3>3, <3>4 DEF IInv, CacheOwned, OwnersCached
    <3>6. WaitersServed'
      <4> SUFFICES ASSUME NEW e \in Callers, call'[e].pc = "waiting"
                   PROVE  LooksUp(call[e].owner)' /\ (call[call[e].owner].key = call[e].key)'
        BY DEF WaitersServed
      <4>1. CASE e = c
        BY <3>2, <3>3, <3>4, <4>1
      <4>2. CASE e # c
        <5>1. /\ call'[e] = call[e] /\ LooksUp(call[e].owner)
              /\ call[call[e].owner].key = call[e].key /\ call[e].owner \in Callers
          BY <3>3, <4>2, CallShapes DEF IInv, WaitersServed, TypeOK
        <5>2. QED
          BY <3>4, <5>1
      <4>3. QED
        BY <4>1, <4>2
    <3>7. FailuresDated'
      BY <3>3 DEF IInv, FailuresDated
    <3>8. QED
      BY <3>5, <3>6, <3>7
  <2>3. ASSUME NEW c \in Callers, NEW k \in Keys, Begin(c, k)
        PROVE  CacheOwned' /\ OwnersCached' /\ WaitersServed' /\ FailuresDated'
    <3>1. /\ cache[k] = NoEntry /\ cache' = [cache EXCEPT ![k] = Running(c)]
          /\ ~LooksUp(c) /\ call[c] = Idle
          /\ call' = [call EXCEPT ![c] = [pc |-> "local", key |-> k, stale |-> FALSE]]
          /\ UNCHANGED <<failures, ended, leaked>>
      BY <2>3 DEF Begin, Absent, LooksUp, Idle, history
    <3>2. /\ \A e \in Callers : e # c => call'[e] = call[e]
          /\ LooksUp(c)' /\ call'[c].key = k /\ ~call'[c].stale
          /\ cache'[k] = Running(c)
          /\ \A j \in Keys : j # k => cache'[j] = cache[j]
      BY <3>1 DEF IInv, TypeOK, LooksUp
    <3>3. CacheOwned'
      <4> SUFFICES ASSUME NEW j \in Keys, NEW e \in Callers, cache'[j] = Running(e)
                   PROVE  LooksUp(e)' /\ call'[e].key = j
        BY DEF CacheOwned
      <4>1. CASE j = k
        BY <3>2, <4>1, RunningInjective
      <4>2. CASE j # k
        <5>1. LooksUp(e) /\ call[e].key = j
          BY <3>2, <4>2 DEF IInv, CacheOwned
        <5>2. e # c
          BY <3>1, <5>1
        <5>3. QED
          BY <3>2, <5>1, <5>2 DEF LooksUp
      <4>3. QED
        BY <4>1, <4>2
    <3>4. OwnersCached'
      <4> SUFFICES ASSUME NEW e \in Callers, LooksUp(e)', ~call'[e].stale
                   PROVE  cache'[call'[e].key] = Running(e) \/ call'[e].key \in leaked'
        BY DEF OwnersCached
      <4>1. CASE e = c
        BY <3>2, <4>1
      <4>2. CASE e # c
        <5>1. call'[e] = call[e] /\ LooksUp(e) /\ ~call[e].stale
          BY <3>2, <4>2 DEF LooksUp
        <5>2. call[e].key \in Keys
          BY <5>1, CallShapes DEF LooksUp, IInv, TypeOK
        <5>3. cache[call[e].key] = Running(e) \/ call[e].key \in leaked
          BY <5>1 DEF IInv, OwnersCached
        <5>4. QED
          BY <3>1, <3>2, <5>1, <5>2, <5>3, LookupMarkers
      <4>3. QED
        BY <4>1, <4>2
    <3>5. WaitersServed'
      <4> SUFFICES ASSUME NEW e \in Callers, call'[e].pc = "waiting"
                   PROVE  LooksUp(call[e].owner)' /\ (call[call[e].owner].key = call[e].key)'
        BY DEF WaitersServed
      <4>1. e # c /\ call'[e] = call[e]
        BY <3>2 DEF LooksUp
      <4>2. /\ call[e].owner \in Callers /\ LooksUp(call[e].owner)
            /\ call[call[e].owner].key = call[e].key
        BY <4>1, CallShapes DEF IInv, WaitersServed, TypeOK
      <4>3. call'[call[e].owner] = call[call[e].owner]
        BY <3>1, <3>2, <4>2
      <4>4. QED
        BY <4>1, <4>2, <4>3 DEF LooksUp
    <3>6. FailuresDated'
      BY <3>1 DEF IInv, FailuresDated
    <3>7. QED
      BY <3>3, <3>4, <3>5, <3>6
  <2>4. ASSUME NEW c \in Callers, LocalDone(c)
        PROVE  CacheOwned' /\ OwnersCached' /\ WaitersServed' /\ FailuresDated'
    <3>1. LooksUp(c) /\ call[c] \in Lookups
      BY <2>4, CallShapes DEF LocalDone, LooksUp, IInv, TypeOK
    <3>2. CASE local[call[c].key]
      BY <2>4, <3>1, <3>2, SucceedInv DEF LocalDone
    <3>3. CASE ~local[call[c].key]
      <4>1. /\ UNCHANGED <<cache, failures, ended, leaked>>
            /\ call' = [call EXCEPT ![c].pc = "finder"]
        BY <2>4, <3>3 DEF LocalDone, history
      <4>2. \A e \in Callers :
              /\ LooksUp(e)' = LooksUp(e) /\ (call'[e].pc = "waiting" <=> call[e].pc = "waiting")
              /\ LooksUp(e) => call'[e].key = call[e].key /\ call'[e].stale = call[e].stale
              /\ call[e].pc = "waiting" => call'[e] = call[e]
        BY <3>1, <4>1 DEF LooksUp, Lookups, IInv, TypeOK
      <4>3. CacheOwned' /\ OwnersCached'
        BY <4>1, <4>2 DEF IInv, CacheOwned, OwnersCached
      <4>4. WaitersServed'
        BY <4>2, CallShapes DEF IInv, WaitersServed, TypeOK
      <4>5. FailuresDated'
        BY <4>1 DEF IInv, FailuresDated
      <4>6. QED
        BY <4>3, <4>4, <4>5
    <3>4. QED
      BY <3>2, <3>3
  <2>5. ASSUME NEW c \in Callers, FinderDone(c)
        PROVE  CacheOwned' /\ OwnersCached' /\ WaitersServed' /\ FailuresDated'
    <3>1. LooksUp(c)
      BY <2>5 DEF FinderDone, LooksUp
    <3>2. QED
      BY <2>5, <3>1, SucceedInv, FailInv DEF FinderDone
  <2>6. ASSUME Clear
        PROVE  CacheOwned' /\ OwnersCached' /\ WaitersServed' /\ FailuresDated'
    <3>1. \A e \in Callers :
            /\ LooksUp(e)' = LooksUp(e) /\ (call'[e].pc = "waiting" <=> call[e].pc = "waiting")
            /\ LooksUp(e) => call'[e].key = call[e].key /\ call'[e].stale
            /\ call[e].pc = "waiting" => call'[e] = call[e]
      BY <2>6, CallShapes DEF Clear, LooksUp, Lookups, IInv, TypeOK
    <3>2. CacheOwned' /\ OwnersCached' /\ FailuresDated'
      BY <2>6, <3>1, LookupMarkers DEF Clear, CacheOwned, OwnersCached, FailuresDated
    <3>3. WaitersServed'
      BY <3>1, CallShapes DEF IInv, WaitersServed, TypeOK
    <3>4. QED
      BY <3>2, <3>3
  <2>7. ASSUME Tick
        PROVE  CacheOwned' /\ OwnersCached' /\ WaitersServed' /\ FailuresDated'
    <3>1. FailuresDated'
      BY <2>7, LookupMarkers, OlderInAges, RetryAssumption
         DEF Tick, IInv, TypeOK, FailuresDated, Older, Ages
    <3>2. QED
      BY <2>7, <3>1 DEF Tick, IInv, CacheOwned, OwnersCached, WaitersServed, LooksUp
  <2>8. ASSUME NEW c \in Callers, NEW k \in Keys, Recall(c, k) \/ Refuse(c, k)
        PROVE  UNCHANGED <<cache, call, failures, ended, leaked>>
    BY <2>8 DEF Recall, Refuse, history
  <2>9. ASSUME NEW k \in Keys, Change(k)
        PROVE  UNCHANGED <<cache, call, failures, ended, leaked>>
    BY <2>9 DEF Change, history
  <2>10. CASE UNCHANGED vars
    BY <2>1, <2>10 DEF vars
  <2>11. QED
    BY <2>1, <2>2, <2>3, <2>4, <2>5, <2>6, <2>7, <2>8, <2>9, <2>10 DEF Next
<1>3. QED
  BY <1>1, <1>2, TypeCorrect, PTL DEF Spec

-----------------------------------------------------------------------------

\* One lookup per device, however many calls want it.
THEOREM OneLookup == Spec => []LookupShared
<1>1. IInv => LookupShared
  <2> SUFFICES ASSUME IInv, NEW c \in Callers, NEW d \in Callers,
                      c # d, LooksUp(c), LooksUp(d), ~call[c].stale, ~call[d].stale,
                      call[c].key = call[d].key
               PROVE  call[c].key \in leaked
    BY DEF LookupShared
  <2>1. /\ cache[call[c].key] = Running(c) \/ call[c].key \in leaked
        /\ cache[call[c].key] = Running(d) \/ call[c].key \in leaked
    BY DEF IInv, OwnersCached
  <2>2. QED
    BY <2>1, RunningInjective
<1>2. QED
  BY <1>1, Inductive, PTL

\* Nobody waits for a lookup that is gone.
THEOREM NobodyForgotten == Spec => []WaitersServed
<1>1. IInv => WaitersServed
  BY DEF IInv
<1>2. QED
  BY <1>1, Inductive, PTL

\* A failed lookup is not repeated before RetryAfter has passed.
THEOREM FailuresLeftAlone == Spec => LeftAlone
<1>1. IInv /\ [Next]_vars =>
        [\A c \in Callers :
           call[c] = Idle /\ call'[c].pc = "local" =>
              ended[call'[c].key] >= RetryAfter]_vars
  <2> SUFFICES ASSUME IInv, [Next]_vars, NEW c \in Callers,
                      call[c] = Idle, call'[c].pc = "local"
               PROVE  ended[call'[c].key] >= RetryAfter
    BY DEF vars
  <2>1. ASSUME NEW d \in Callers, NEW k \in Keys, Begin(d, k)
        PROVE  ended[call'[c].key] >= RetryAfter
    <3>1. call'[c].key = k /\ ~Refused(k)
      BY <2>1 DEF Begin, IInv, TypeOK, Idle
    <3>2. QED
      BY <3>1, RetryAssumption DEF Refused, IInv, FailuresDated, TypeOK, Ages
  <2>2. ASSUME NEW d \in Callers, NEW k \in Keys,
               Recall(d, k) \/ Join(d, k) \/ Refuse(d, k)
        PROVE  FALSE
    BY <2>2 DEF Recall, Join, Refuse, IInv, TypeOK, Idle
  <2>3. ASSUME NEW d \in Callers, LocalDone(d) \/ FinderDone(d)
        PROVE  FALSE
    <3>1. LooksUp(d) /\ d # c
      BY <2>3 DEF LocalDone, FinderDone, LooksUp, Idle
    <3>2. CASE \E outcome : Resume(d, outcome)
      BY <3>1, <3>2 DEF Resume, Served, Idle
    <3>3. CASE call' = [call EXCEPT ![d].pc = "finder"]
      BY <3>1, <3>3 DEF IInv, TypeOK, Idle
    <3>4. QED
      BY <2>3, <3>2, <3>3 DEF LocalDone, FinderDone, Succeed, Fail
  <2>4. ASSUME Clear \/ Tick \/ (\E k \in Keys : Change(k)) \/ UNCHANGED vars
        PROVE  FALSE
    BY <2>4 DEF Clear, Tick, Change, vars, Idle, LooksUp
  <2>5. QED
    BY <2>1, <2>2, <2>3, <2>4 DEF Next
<1>2. QED
  BY <1>1, Inductive, PTL DEF Spec, LeftAlone

\* A device that was found stays in memory until the master closes.
THEOREM DevicesStayFound == Spec => FoundStays
<1>1. IInv /\ [Next]_vars =>
        [\A k \in Keys :
           (cache[k] = Settled /\ cache'[k] # Settled) =>
              \/ k \in leaked'
              \/ \A j \in Keys : cache'[j] = NoEntry /\ failures'[j] = NoFailure]_vars
  <2> SUFFICES ASSUME IInv, [Next]_vars, NEW k \in Keys,
                      cache[k] = Settled, cache'[k] # Settled
               PROVE  \/ k \in leaked'
                      \/ \A j \in Keys : cache'[j] = NoEntry /\ failures'[j] = NoFailure
    BY DEF vars
  <2>1. ASSUME NEW c \in Callers, NEW j \in Keys, Begin(c, j)
        PROVE  FALSE
    BY <2>1, LookupMarkers DEF Begin, Absent, IInv, TypeOK
  <2>2. ASSUME NEW c \in Callers, LooksUp(c), NEW source, Succeed(c, source)
        PROVE  FALSE
    BY <2>2 DEF Succeed
  <2>3. ASSUME NEW c \in Callers, LooksUp(c), Fail(c)
        PROVE  k \in leaked'
    <3>1. call[c].key = k
      BY <2>3 DEF Fail, DropEntry, IInv, TypeOK
    <3>2. cache[k] # Running(c)
      BY RunningNotSettled
    <3>3. call[c].stale \/ k \in leaked
      BY <2>3, <3>1, <3>2 DEF IInv, OwnersCached
    <3>4. QED
      BY <2>3, <3>1, <3>3 DEF Fail
  <2>4. ASSUME NEW c \in Callers, LocalDone(c) \/ FinderDone(c)
        PROVE  k \in leaked'
    BY <2>2, <2>3, <2>4 DEF LocalDone, FinderDone, LooksUp
  <2>5. CASE Clear
    BY <2>5 DEF Clear
  <2>6. ASSUME \/ Tick \/ (\E j \in Keys : Change(j)) \/ UNCHANGED vars
               \/ \E c \in Callers, j \in Keys :
                    Recall(c, j) \/ Join(c, j) \/ Refuse(c, j)
        PROVE  FALSE
    BY <2>6 DEF Tick, Change, vars, Recall, Join, Refuse
  <2>7. QED
    BY <2>1, <2>4, <2>5, <2>6 DEF Next
<1>2. QED
  BY <1>1, Inductive, PTL DEF Spec, FoundStays
=============================================================================
