------------------------- MODULE PortIdentityProofs -------------------------
(***************************************************************************)
(* What PortIdentity promises, for any number of callers and ports, any    *)
(* set of wishes and any EmptyTtl: the cache is sound, and every answer    *)
(* handed to a caller is as fresh as the caller asked for.                 *)
(*                                                                         *)
(* AnswerFresh is about the step that hands an answer over.  It follows    *)
(* from CacheSound, a statement about what the cache holds: an entry is    *)
(* never younger than its date says.                                       *)
(***************************************************************************)
EXTENDS PortIdentity, TLAPS

-----------------------------------------------------------------------------

LEMMA OlderInAges == \A a \in Ages : Older(a) \in Ages
  BY TimesAssumption DEF Ages, Older

\* Time moves every age alike, so it does not change which of two is larger.
LEMMA OlderMonotone == \A a, b \in Ages : a <= b => Older(a) <= Older(b)
  BY TimesAssumption DEF Ages, Older

\* The shapes a call can have, one by one.
LEMMA CallShapes ==
  ASSUME NEW k \in Calls
  PROVE  /\ k.pc \in {"idle", "asked", "answered"}
         /\ k.pc = "idle" => k = Idle
         /\ k.pc = "asked" =>
              /\ k \in [pc : {"asked"}, port : Ports, ttl : Wishes, now : Ages]
              /\ k.port \in Ports /\ k.ttl \in Wishes /\ k.now \in Ages
         /\ k.pc = "answered" =>
              /\ k \in [pc : {"answered"}, port : Ports, ttl : Wishes, now : Ages,
                        status : Answers, seen : Ages]
              /\ k.port \in Ports /\ k.ttl \in Wishes /\ k.now \in Ages
              /\ k.status \in Answers /\ k.seen \in Ages
  BY DEF Calls, Idle

LEMMA OlderEntryOK ==
  ASSUME NEW e \in Entries
  PROVE  /\ OlderEntry(e) \in Entries
         /\ OlderEntry(e) # NoEntry
         /\ OlderEntry(e).value = e.value /\ OlderEntry(e).empty = e.empty
         /\ OlderEntry(e).at = Older(e.at) /\ OlderEntry(e).seen = Older(e.seen)
<1>1. e.at \in Ages /\ e.seen \in Ages
  BY DEF Entries
<1>2. Older(e.at) \in Ages /\ Older(e.seen) \in Ages
  BY <1>1, OlderInAges
<1>3. OlderEntry(e) \in Entries
  BY <1>2 DEF OlderEntry, Entries
<1>4. QED
  BY <1>3, MarkersAssumption DEF OlderEntry, Entries

LEMMA OlderCallOK ==
  ASSUME NEW k \in Calls
  PROVE  /\ OlderCall(k) \in Calls
         /\ k.pc = "answered" => /\ OlderCall(k).pc = "answered"
                                 /\ OlderCall(k).seen = Older(k.seen)
                                 /\ OlderCall(k).now = Older(k.now)
         /\ k.pc # "answered" => OlderCall(k).pc # "answered"
<1>1. CASE k.pc = "asked"
  <2>1. OlderCall(k) = [k EXCEPT !.now = Older(k.now)]
    BY <1>1 DEF OlderCall
  <2>2. Older(k.now) \in Ages
    BY <1>1, CallShapes, OlderInAges
  <2>3. QED
    BY <1>1, <2>1, <2>2, CallShapes DEF Calls
<1>2. CASE k.pc = "answered"
  <2>1. OlderCall(k) = [k EXCEPT !.now = Older(k.now), !.seen = Older(k.seen)]
    BY <1>2 DEF OlderCall
  <2>2. Older(k.now) \in Ages /\ Older(k.seen) \in Ages
    BY <1>2, CallShapes, OlderInAges
  <2>3. QED
    BY <1>2, <2>1, <2>2, CallShapes DEF Calls
<1>3. CASE k.pc = "idle"
  BY <1>3 DEF OlderCall
<1>4. QED
  BY <1>1, <1>2, <1>3, CallShapes

-----------------------------------------------------------------------------

\* Every variable keeps its type.
THEOREM TypeCorrect == Spec => []TypeOK
<1>1. Init => TypeOK
  BY DEF Init, TypeOK, Calls, Answers
<1>2. TypeOK /\ [Next]_vars => TypeOK'
  <2> SUFFICES ASSUME TypeOK, [Next]_vars PROVE TypeOK'
    OBVIOUS
  <2>1. ASSUME NEW c \in Callers, NEW p \in Ports, NEW w \in Wishes, Hit(c, p, w)
        PROVE  TypeOK'
    <3>1. entries[p] \in Entries
      BY <2>1 DEF Hit, Fresh, TypeOK
    <3>2. 0 \in Ages
      BY TimesAssumption DEF Ages
    <3>3. result' \in Results
      BY <2>1, <3>1, <3>2 DEF Hit, Entries, Results
    <3>4. QED
      BY <2>1, <3>3 DEF Hit, TypeOK
  <2>2. ASSUME NEW c \in Callers, NEW p \in Ports, NEW w \in Wishes, Ask(c, p, w)
        PROVE  TypeOK'
    <3>1. 0 \in Ages
      BY TimesAssumption DEF Ages
    <3>2. call' \in [Callers -> Calls]
      BY <2>2, <3>1 DEF Ask, TypeOK, Calls
    <3>3. QED
      BY <2>2, <3>2 DEF Ask, TypeOK
  <2>3. ASSUME NEW c \in Callers, Reply(c)
        PROVE  TypeOK'
    <3>1. call[c] \in Calls /\ call[c].pc = "asked"
      BY <2>3 DEF Reply, TypeOK
    <3>2. /\ call[c].port \in Ports /\ call[c].ttl \in Wishes /\ call[c].now \in Ages
          /\ reply[call[c].port] \in Answers /\ 0 \in Ages
      BY <3>1, CallShapes, TimesAssumption DEF TypeOK, Ages
    <3>3. call' \in [Callers -> Calls]
      BY <2>3, <3>2 DEF Reply, TypeOK, Calls
    <3>4. QED
      BY <2>3, <3>3 DEF Reply, TypeOK
  <2>4. ASSUME NEW c \in Callers, Return(c)
        PROVE  TypeOK'
    <3>1. call[c] \in Calls /\ call[c].pc = "answered"
      BY <2>4 DEF Return, TypeOK
    <3>2. /\ call[c].port \in Ports /\ call[c].ttl \in Wishes /\ call[c].now \in Ages
          /\ call[c].status \in Answers /\ call[c].seen \in Ages
      BY <3>1, CallShapes
    <3>3. Remember(call[c]) \in Entries \cup {NoEntry}
      BY <3>2 DEF Remember, Entries, HasVendor
    <3>4. result' \in Results
      BY <2>4, <3>2 DEF Return, Results
    <3>5. call' \in [Callers -> Calls]
      BY <2>4 DEF Return, TypeOK, Calls
    <3>6. entries' \in [Ports -> Entries \cup {NoEntry}]
      BY <2>4, <3>3 DEF Return, TypeOK
    <3>7. QED
      BY <2>4, <3>4, <3>5, <3>6 DEF Return, TypeOK
  <2>5. ASSUME NEW p \in Ports, NEW v \in Answers, Change(p, v)
        PROVE  TypeOK'
    BY <2>5 DEF Change, TypeOK
  <2>6. CASE Clear
    BY <2>6 DEF Clear, TypeOK
  <2>7. CASE Tick
    <3>1. entries' \in [Ports -> Entries \cup {NoEntry}]
      BY <2>7, OlderEntryOK DEF Tick, TypeOK
    <3>2. call' \in [Callers -> Calls]
      BY <2>7, OlderCallOK DEF Tick, TypeOK
    <3>3. QED
      BY <2>7, <3>1, <3>2 DEF Tick, TypeOK
  <2>8. CASE UNCHANGED vars
    BY <2>8 DEF vars, TypeOK
  <2>9. QED
    BY <2>1, <2>2, <2>3, <2>4, <2>5, <2>6, <2>7, <2>8 DEF Next
<1>3. QED
  BY <1>1, <1>2, PTL DEF Spec

-----------------------------------------------------------------------------

\* What the three promises about answers need to be inductive together.
IInv == TypeOK /\ CacheSound /\ AnswerFresh /\ EmptyIsRecent /\ OutageIsCurrent

\* What a call leaves in the cache is dated no later than the answer.
LEMMA RememberSound ==
  ASSUME NEW k \in Calls, k.pc = "answered", k.seen <= k.now,
         Remember(k) # NoEntry
  PROVE  /\ Remember(k).value # Unreachable
         /\ Remember(k).empty = ~HasVendor(Remember(k).value)
         /\ Remember(k).seen <= Remember(k).at
  BY DEF Remember

\* An entry served from the cache is younger than the caller's wish, and, when
\* it names no device, younger than EmptyTtl.
LEMMA FreshMeansYoung ==
  ASSUME IInv, NEW p \in Ports, NEW w \in Wishes, Fresh(p, w)
  PROVE  /\ entries[p].seen < w
         /\ ~HasVendor(entries[p].value) => entries[p].seen < EmptyTtl
         /\ entries[p].value # Unreachable
<1>1. /\ entries[p] \in Entries
      /\ entries[p].value # Unreachable
      /\ entries[p].empty = ~HasVendor(entries[p].value)
      /\ entries[p].seen <= entries[p].at
  BY DEF IInv, TypeOK, CacheSound, Fresh
<1>2. entries[p].at \in Nat /\ entries[p].seen \in Nat /\ w \in Nat /\ EmptyTtl \in Nat
  BY <1>1, TimesAssumption DEF Entries, Ages
<1>3. entries[p].at < MaxAge(entries[p], w)
  BY DEF Fresh
<1>4. CASE HasVendor(entries[p].value)
  <2>1. ~entries[p].empty
    BY <1>1, <1>4, Zenon
  <2>2. MaxAge(entries[p], w) = w
    BY <2>1, Zenon DEF MaxAge
  <2>3. QED
    BY <1>1, <1>2, <1>3, <1>4, <2>2
<1>5. CASE ~HasVendor(entries[p].value)
  <2>1. entries[p].empty
    BY <1>1, <1>5, Zenon
  <2>2. MaxAge(entries[p], w) = MinOf(EmptyTtl, w)
    BY <2>1, Zenon DEF MaxAge
  <2>3. MaxAge(entries[p], w) <= EmptyTtl /\ MaxAge(entries[p], w) <= w
    BY <1>2, <2>2 DEF MinOf
  <2>4. QED
    BY <1>1, <1>2, <1>3, <2>2, <2>3 DEF MinOf
<1>6. QED
  BY <1>4, <1>5

\* The cache is sound, and every answer handed to a caller is fresh, recent if
\* it names no device, and never an outage replayed from the cache.
THEOREM Inductive == Spec => []IInv
<1>1. Init => IInv
  <2>1. Init => CacheSound /\ AnswerFresh /\ EmptyIsRecent /\ OutageIsCurrent
    BY DEF Init, CacheSound, AnswerFresh, EmptyIsRecent, OutageIsCurrent, Idle
  <2>2. Init => TypeOK
    BY DEF Init, TypeOK, Calls, Answers
  <2>3. QED
    BY <2>1, <2>2 DEF IInv
<1>2. IInv /\ TypeOK' /\ [Next]_vars => IInv'
  <2> SUFFICES ASSUME IInv, TypeOK', [Next]_vars
               PROVE  CacheSound' /\ AnswerFresh' /\ EmptyIsRecent' /\ OutageIsCurrent'
    BY DEF IInv
  <2>1. ASSUME result' = NoResult
        PROVE  AnswerFresh' /\ EmptyIsRecent' /\ OutageIsCurrent'
    BY <2>1 DEF AnswerFresh, EmptyIsRecent, OutageIsCurrent
  <2>2. ASSUME NEW c \in Callers, NEW p \in Ports, NEW w \in Wishes, Hit(c, p, w)
        PROVE  CacheSound' /\ AnswerFresh' /\ EmptyIsRecent' /\ OutageIsCurrent'
    <3>1. CacheSound'
      BY <2>2 DEF Hit, IInv, CacheSound
    <3>2. result' = [port |-> p, ttl |-> w, value |-> entries[p].value,
                     seen |-> entries[p].seen, now |-> 0, cached |-> TRUE]
      BY <2>2 DEF Hit
    <3>3. /\ entries[p].seen < w
          /\ ~HasVendor(entries[p].value) => entries[p].seen < EmptyTtl
          /\ entries[p].value # Unreachable
      BY <2>2, FreshMeansYoung DEF Hit
    <3>4. AnswerFresh' /\ EmptyIsRecent'
      BY <3>2, <3>3 DEF AnswerFresh, EmptyIsRecent
    <3>5. OutageIsCurrent'
      <4>1. Outcome(entries[p].value) # "IOLINK_MASTER_UNREACHABLE"
        BY <3>3 DEF Outcome
      <4>2. QED
        BY <3>2, <4>1 DEF OutageIsCurrent
    <3>6. QED
      BY <3>1, <3>4, <3>5
  <2>3. ASSUME NEW c \in Callers, NEW p \in Ports, NEW w \in Wishes, Ask(c, p, w)
        PROVE  CacheSound' /\ result' = NoResult
    BY <2>3 DEF Ask, IInv, CacheSound, TypeOK
  <2>4. ASSUME NEW c \in Callers, Reply(c)
        PROVE  CacheSound' /\ result' = NoResult
    <3>1. call[c] \in Calls /\ call[c].pc = "asked"
      BY <2>4 DEF Reply, IInv, TypeOK
    <3>2. 0 <= call[c].now
      BY <3>1, CallShapes DEF Ages
    <3>3. QED
      BY <2>4, <3>2 DEF Reply, IInv, CacheSound, TypeOK
  <2>5. ASSUME NEW c \in Callers, Return(c)
        PROVE  CacheSound' /\ AnswerFresh' /\ EmptyIsRecent' /\ OutageIsCurrent'
    <3>1. /\ call[c] \in Calls /\ call[c].pc = "answered"
          /\ call[c].seen <= call[c].now /\ call[c].port \in Ports
      BY <2>5, CallShapes DEF Return, IInv, TypeOK, CacheSound
    <3>2. CacheSound'
      <4>1. ASSUME NEW p \in Ports, entries'[p] # NoEntry
            PROVE  /\ entries'[p].value # Unreachable
                   /\ entries'[p].empty = ~HasVendor(entries'[p].value)
                   /\ entries'[p].seen <= entries'[p].at
        <5>1. CASE p = call[c].port
          <6>1. entries'[p] = Remember(call[c])
            BY <2>5, <5>1 DEF Return, IInv, TypeOK
          <6>2. QED
            BY <3>1, <4>1, <6>1, RememberSound
        <5>2. CASE p # call[c].port
          BY <2>5, <4>1, <5>2 DEF Return, IInv, TypeOK, CacheSound
        <5>3. QED
          BY <5>1, <5>2
      <4>2. ASSUME NEW d \in Callers, call'[d].pc = "answered"
            PROVE  call'[d].seen <= call'[d].now
        BY <2>5, <4>2 DEF Return, IInv, TypeOK, CacheSound, Idle
      <4>3. QED
        BY <4>1, <4>2 DEF CacheSound
    <3>3. result' = [port |-> call[c].port, ttl |-> call[c].ttl,
                     value |-> call[c].status, seen |-> call[c].seen,
                     now |-> call[c].now, cached |-> FALSE]
      BY <2>5 DEF Return
    <3>4. AnswerFresh' /\ EmptyIsRecent' /\ OutageIsCurrent'
      BY <3>1, <3>3 DEF AnswerFresh, EmptyIsRecent, OutageIsCurrent
    <3>5. QED
      BY <3>2, <3>4
  <2>6. ASSUME NEW p \in Ports, NEW v \in Answers, Change(p, v)
        PROVE  CacheSound' /\ result' = NoResult
    BY <2>6 DEF Change, IInv, CacheSound
  <2>7. ASSUME Clear
        PROVE  CacheSound' /\ result' = NoResult
    BY <2>7 DEF Clear, IInv, CacheSound
  <2>8. ASSUME Tick
        PROVE  CacheSound' /\ result' = NoResult
    <3>1. ASSUME NEW p \in Ports, entries'[p] # NoEntry
          PROVE  /\ entries'[p].value # Unreachable
                 /\ entries'[p].empty = ~HasVendor(entries'[p].value)
                 /\ entries'[p].seen <= entries'[p].at
      <4>1. entries[p] # NoEntry /\ entries'[p] = OlderEntry(entries[p])
        BY <2>8, <3>1 DEF Tick
      <4>2. /\ entries[p] \in Entries /\ entries[p].seen <= entries[p].at
            /\ entries[p].value # Unreachable
            /\ entries[p].empty = ~HasVendor(entries[p].value)
        BY <4>1 DEF IInv, TypeOK, CacheSound
      <4>3. entries[p].seen \in Ages /\ entries[p].at \in Ages
        BY <4>2 DEF Entries
      <4>4. QED
        BY <4>1, <4>2, <4>3, OlderEntryOK, OlderMonotone
    <3>2. ASSUME NEW d \in Callers, call'[d].pc = "answered"
          PROVE  call'[d].seen <= call'[d].now
      <4>1. call[d] \in Calls /\ call'[d] = OlderCall(call[d])
        BY <2>8 DEF Tick, IInv, TypeOK
      <4>2. call[d].pc = "answered"
        BY <3>2, <4>1, OlderCallOK
      <4>3. /\ call[d].seen \in Ages /\ call[d].now \in Ages
            /\ call[d].seen <= call[d].now
        BY <4>1, <4>2, CallShapes DEF IInv, CacheSound
      <4>4. QED
        BY <4>1, <4>2, <4>3, OlderCallOK, OlderMonotone
    <3>3. QED
      BY <2>8, <3>1, <3>2 DEF CacheSound, Tick
  <2>9. CASE UNCHANGED vars
    BY <2>9 DEF vars, IInv, CacheSound, AnswerFresh, EmptyIsRecent, OutageIsCurrent
  <2>10. QED
    BY <2>1, <2>2, <2>3, <2>4, <2>5, <2>6, <2>7, <2>8, <2>9 DEF Next
<1>3. QED
  BY <1>1, <1>2, TypeCorrect, PTL DEF Spec

\* An answer out of the cache is younger than the caller's own wish, an answer
\* out of a scan was given during the call.
THEOREM Freshness == Spec => []AnswerFresh
<1>1. IInv => AnswerFresh
  BY DEF IInv
<1>2. QED
  BY <1>1, Inductive, PTL

\* "No device" is never served from an answer older than EmptyTtl.
THEOREM EmptyRecheck == Spec => []EmptyIsRecent
<1>1. IInv => EmptyIsRecent
  BY DEF IInv
<1>2. QED
  BY <1>1, Inductive, PTL

\* An outage is only ever reported by a call that asked the master itself.
THEOREM OutageNotCached == Spec => []OutageIsCurrent
<1>1. IInv => OutageIsCurrent
  BY DEF IInv
<1>2. QED
  BY <1>1, Inductive, PTL

\* The cache never holds an outage, knows which of its entries mean "no device", and
\* dates none of them later than the answer it holds.
THEOREM CacheIsSound == Spec => []CacheSound
<1>1. IInv => CacheSound
  BY DEF IInv
<1>2. QED
  BY <1>1, Inductive, PTL
=============================================================================
