------------------------- MODULE FinderCacheProofs -------------------------
(***************************************************************************)
(* The finder's folder, for any number of calls, devices and ioddIds: what *)
(* the index names is there with any number of finders, and with one       *)
(* finder the folder is the catalogue it promises to be.                   *)
(***************************************************************************)
EXTENDS FinderCache, TLAPS

Early == {"lookup", "search", "fallback"}

\* A call under way, after the first stages with its entry.
Sane == {r \in {Idle} \cup Active : r # Idle /\ r.pc \notin Early => r.entry # NoEntry}

Others == /\ disk \in [Files -> {"absent", "torn", "whole"}]
          /\ index \in SUBSET Entries
          /\ told \in [Callers -> Files \cup {Refused, Nothing}]
          /\ cut \in SUBSET Files

LEMMA TypeParts ==
  TypeOK <=> /\ call \in [Callers -> Sane] /\ Others /\ lacking \in SUBSET Callers
             /\ readable \in BOOLEAN /\ named \in SUBSET Files
BY DEF TypeOK, Sane, Others, Early

LEMMA IdleStage == Idle.pc = "idle" /\ Idle.pc \notin Stages /\ Idle \notin Active
BY DEF Idle, Stages, InQueue, Active

LEMMA SaneActive ==
  ASSUME NEW r \in Sane, r.pc \in Stages
  PROVE  /\ r \in Active /\ r # Idle
         /\ r.load \in BOOLEAN /\ r.device \in Devices /\ r.finder \in Finders
         /\ r.entry \in Entries \cup {NoEntry} /\ r.snap \in SUBSET Entries
         /\ r.blind \in BOOLEAN /\ r.ahead \in SUBSET Callers
         /\ r.pc \notin Early => r.entry \in Entries
PROOF
<1>1. r \in Active /\ r # Idle
  BY IdleStage DEF Sane
<1>2. r.entry \in Entries \cup {NoEntry}
  BY <1>1 DEF Active
<1>3. r.pc \notin Early => r.entry # NoEntry
  BY <1>1 DEF Sane
<1>4. QED
  BY <1>1, <1>2, <1>3 DEF Active

\* A call goes on to its next stage.
LEMMA GoesOn ==
  ASSUME NEW r \in Sane, r.pc \in Stages,
         NEW s \in Stages, s \in Early \/ r.pc \notin Early
  PROVE  LET t == [r EXCEPT !.pc = s] IN
         /\ t \in Sane /\ t # Idle
         /\ t.pc = s
         /\ t.load = r.load /\ t.device = r.device /\ t.finder = r.finder
         /\ t.entry = r.entry /\ t.snap = r.snap /\ t.blind = r.blind
         /\ t.ahead = r.ahead
PROOF
<1> DEFINE t == [r EXCEPT !.pc = s]
<1>1. r \in Active
  BY SaneActive
<1>2. r.entry # NoEntry \/ r.pc \in Early
  BY <1>1, IdleStage DEF Sane
<1>3. /\ t \in Active
      /\ t.pc = s
      /\ t.load = r.load /\ t.device = r.device /\ t.finder = r.finder
      /\ t.entry = r.entry /\ t.snap = r.snap /\ t.blind = r.blind
      /\ t.ahead = r.ahead
  BY <1>1 DEF Active, Stages, InQueue
<1>4. t # Idle
  BY <1>3, IdleStage
<1>5. QED
  BY <1>2, <1>3, <1>4 DEF Sane, Early

\* It has read, or forgets, the index.
LEMMA Snaps ==
  ASSUME NEW r \in Sane, r.pc \in Stages,
         NEW n \in SUBSET Entries, NEW blind \in BOOLEAN
  PROVE  LET t == [r EXCEPT !.snap = n, !.blind = blind] IN
         /\ t \in Sane /\ t # Idle
         /\ t.pc = r.pc /\ t.snap = n /\ t.blind = blind
         /\ t.load = r.load /\ t.device = r.device /\ t.finder = r.finder
         /\ t.entry = r.entry /\ t.ahead = r.ahead
PROOF
<1> DEFINE t == [r EXCEPT !.snap = n, !.blind = blind]
<1>1. r \in Active
  BY SaneActive
<1>2. r.entry # NoEntry \/ r.pc \in Early
  BY <1>1, IdleStage DEF Sane
<1>3. /\ t \in Active
      /\ t.pc = r.pc /\ t.snap = n /\ t.blind = blind
      /\ t.load = r.load /\ t.device = r.device /\ t.finder = r.finder
      /\ t.entry = r.entry /\ t.ahead = r.ahead
  BY <1>1 DEF Active, Stages, InQueue
<1>4. t # Idle
  BY <1>3, IdleStage
<1>5. QED
  BY <1>2, <1>3, <1>4 DEF Sane, Early

\* Those before it in the queue change.
LEMMA Moves ==
  ASSUME NEW r \in Sane, r.pc \in Stages,
         NEW a \in SUBSET Callers
  PROVE  LET t == [r EXCEPT !.ahead = a] IN
         /\ t \in Sane /\ t # Idle
         /\ t.pc = r.pc /\ t.ahead = a
         /\ t.load = r.load /\ t.device = r.device /\ t.finder = r.finder
         /\ t.entry = r.entry /\ t.snap = r.snap /\ t.blind = r.blind
PROOF
<1> DEFINE t == [r EXCEPT !.ahead = a]
<1>1. r \in Active
  BY SaneActive
<1>2. r.entry # NoEntry \/ r.pc \in Early
  BY <1>1, IdleStage DEF Sane
<1>3. /\ t \in Active
      /\ t.pc = r.pc /\ t.ahead = a
      /\ t.load = r.load /\ t.device = r.device /\ t.finder = r.finder
      /\ t.entry = r.entry /\ t.snap = r.snap /\ t.blind = r.blind
  BY <1>1 DEF Active, Stages, InQueue
<1>4. t # Idle
  BY <1>3, IdleStage
<1>5. QED
  BY <1>2, <1>3, <1>4 DEF Sane, Early

-----------------------------------------------------------------------------
(* What a step of one call does to all of them.                             *)

Moment == call \in [Callers -> Sane] /\ Others

\* The update of c at most leaves the queue before the call b.
Same(b, c) ==
    \/ call[b] = Idle /\ call'[b] = Idle
    \/ /\ call[b] # Idle /\ call'[b] # Idle
       /\ call'[b].pc = call[b].pc /\ call'[b].load = call[b].load
       /\ call'[b].device = call[b].device /\ call'[b].finder = call[b].finder
       /\ call'[b].entry = call[b].entry /\ call'[b].snap = call[b].snap
       /\ call'[b].blind = call[b].blind
       /\ call'[b].ahead \in SUBSET call[b].ahead
       /\ call[b].ahead \ {c} \in SUBSET call'[b].ahead

Keeps(c) == call' \in [Callers -> Sane] /\ \A b \in Callers \ {c} : Same(b, c)

\* No other call is touched at all.
Alone(c) == \A b \in Callers \ {c} : call'[b] = call[b]

LEMMA Replaces ==
  ASSUME Moment, NEW c \in Callers, NEW t \in Sane, call' = [call EXCEPT ![c] = t]
  PROVE  Keeps(c) /\ Alone(c) /\ call'[c] = t
BY DEF Moment, Keeps, Alone, Same

LEMMA Releases ==
  ASSUME Moment, NEW c \in Callers, NEW t \in Sane,
         call' = Released([call EXCEPT ![c] = t], c)
  PROVE  Keeps(c) /\ call'[c] = t
PROOF
<1> DEFINE now == [call EXCEPT ![c] = t]
<1>1. now \in [Callers -> Sane] /\ now[c] = t
  BY DEF Moment
<1>2. call'[c] = t
  BY <1>1 DEF Released
<1>3. ASSUME NEW b \in Callers \ {c}
      PROVE  call'[b] \in Sane /\ Same(b, c)
  <2>1. call[b] \in Sane /\ now[b] = call[b]
    BY <1>3 DEF Moment
  <2>2. CASE call[b] = Idle
    BY <2>1, <2>2, <1>3 DEF Released, Same
  <2>3. CASE call[b] # Idle
    <3>1. call'[b] = [call[b] EXCEPT !.ahead = call[b].ahead \ {c}]
      BY <2>1, <2>3, <1>3 DEF Released
    <3>2. call[b].pc \in Stages /\ call[b].ahead \in SUBSET Callers
      BY <2>1, <2>3, SaneActive DEF Sane, Active
    <3>3. call[b].ahead \ {c} \in SUBSET Callers
      BY <3>2
    <3> DEFINE r == call[b]
               a == call[b].ahead \ {c}
               u == [r EXCEPT !.ahead = a]
    <3>4. r \in Sane /\ r.pc \in Stages /\ a \in SUBSET Callers
      BY <2>1, <3>2, <3>3
    <3> HIDE DEF r, a
    <3>5. /\ u \in Sane /\ u # Idle
          /\ u.pc = r.pc /\ u.ahead = a
          /\ u.load = r.load /\ u.device = r.device /\ u.finder = r.finder
          /\ u.entry = r.entry /\ u.snap = r.snap /\ u.blind = r.blind
      BY <3>4, Moves
    <3> HIDE DEF u
    <3>6. /\ call'[b] \in Sane /\ call'[b] # Idle
          /\ call'[b].pc = call[b].pc /\ call'[b].ahead = call[b].ahead \ {c}
          /\ call'[b].load = call[b].load /\ call'[b].device = call[b].device
          /\ call'[b].finder = call[b].finder
          /\ call'[b].entry = call[b].entry /\ call'[b].snap = call[b].snap
          /\ call'[b].blind = call[b].blind
      BY <3>1, <3>5 DEF r, a, u
    <3>7. QED
      BY <3>6, <2>3 DEF Same
  <2>4. QED
    BY <2>2, <2>3
<1>4. call' \in [Callers -> Sane]
  BY <1>1, <1>2, <1>3 DEF Released
<1>5. QED
  BY <1>2, <1>3, <1>4 DEF Keeps

\* A call after Find, Trouble or Start may have been told something.
Tells(c) ==
    \/ told' = told
    \/ \E answer \in {Refused, Nothing} : told' = [told EXCEPT ![c] = answer]
    \/ call[c].pc = "read" /\ told' = [told EXCEPT ![c] = FileOf(call[c].entry)]

\* A step that leaves the folder as it is.
Quiet(c) ==
    /\ Keeps(c) /\ Alone(c) /\ UNCHANGED <<disk, index, cut>> /\ Tells(c)
    /\ call[c].pc # "writing" /\ call'[c].pc # "writing"
    /\ call'[c].pc = "read" =>
         call'[c].entry \in index /\ call'[c].entry.device = call'[c].device
    /\ call'[c] # Idle =>
         \/ call'[c].snap \in {{}, index}
         \/ call[c] # Idle /\ call'[c].snap = call[c].snap
    /\ call'[c].pc \in InQueue =>
         /\ call[c].pc \in InQueue /\ call'[c].entry = call[c].entry
         /\ call'[c].finder = call[c].finder /\ call'[c].ahead = call[c].ahead
    /\ call'[c].pc \in {"merging", "renaming"} =>
         \/ /\ call[c].pc = "queued" /\ call[c].ahead = {}
            /\ call'[c].snap = index \/ (call'[c].blind /\ call'[c].snap = {})
         \/ /\ call[c].pc = "merging" /\ call'[c].snap = call[c].snap
            /\ call'[c].blind = call[c].blind

LEMMA IdleSane == Idle \in Sane
BY DEF Sane

LEMMA QuietEnd ==
  ASSUME Moment, NEW c \in Callers, NEW answer,
         \/ answer \in {Refused, Nothing}
         \/ call[c].pc = "read" /\ answer = FileOf(call[c].entry),
         call[c].pc # "writing", End(c, answer), UNCHANGED <<disk, index, cut>>
  PROVE  Quiet(c)
PROOF
<1>1. Keeps(c) /\ Alone(c) /\ call'[c] = Idle
  BY Replaces, IdleSane DEF End
<1>2. Tells(c)
  BY DEF Tells, End
<1>3. QED
  BY <1>1, <1>2, IdleStage DEF Quiet, Stages, InQueue

LEMMA QuietGoto ==
  ASSUME Moment, NEW c \in Callers, call[c].pc \in Early \cup {"download"},
         NEW s \in Early \cup {"download", "open"},
         s \in Early \/ call[c].pc \notin Early,
         Goto(c, s), UNCHANGED <<disk, index, cut, told>>
  PROVE  Quiet(c)
PROOF
<1> DEFINE t == [call[c] EXCEPT !.pc = s]
<1>1. call[c] \in Sane /\ call[c].pc \in Stages /\ s \in Stages
  BY DEF Moment, Early, Stages
<1>2. /\ t \in Sane /\ t # Idle /\ t.pc = s /\ t.snap = call[c].snap
  BY <1>1, GoesOn
<1>3. Keeps(c) /\ Alone(c) /\ call'[c] = t
  BY <1>2, Replaces DEF Goto
<1>4. call[c] # Idle
  BY <1>1, SaneActive
<1>5. QED
  BY <1>2, <1>3, <1>4 DEF Quiet, Tells, Early, InQueue

LEMMA QuietChoose ==
  ASSUME Moment, NEW c \in Callers, call[c].pc \in Early,
         NEW s \in Stages \ (Early \cup InQueue), s # "writing", NEW entries \in SUBSET Entries,
         s = "read" => entries \in SUBSET Hits(index, call[c].device),
         Choose(c, s, entries), UNCHANGED <<disk, index, cut>>
  PROVE  Quiet(c)
PROOF
<1>1. PICK e \in Best(entries) : call' = [call EXCEPT ![c].pc = s, ![c].entry = e]
  BY DEF Choose
<1> DEFINE t == [call[c] EXCEPT !.pc = s, !.entry = e]
<1>2. e \in entries /\ e \in Entries /\ e # NoEntry
  BY FinderMarkers DEF Best
<1>d. s = "read" => e \in index /\ e.device = call[c].device
  BY <1>2 DEF Hits
<1>3. call[c] \in Sane /\ call[c].pc \in Stages /\ s \in Stages
  BY DEF Moment, Early, Stages
<1>4. /\ t \in Sane /\ t # Idle /\ t.pc = s /\ t.entry = e
      /\ t.device = call[c].device /\ t.snap = call[c].snap
  <2> DEFINE r == call[c]
             u == [r EXCEPT !.pc = s, !.entry = e]
  <2>1. r \in Active
    BY <1>3, SaneActive
  <2> HIDE DEF r
  <2>2. /\ u \in Active /\ u.pc = s /\ u.entry = e
        /\ u.device = r.device /\ u.snap = r.snap
    BY <1>2, <1>3, <2>1 DEF Active
  <2>3. u # Idle
    BY <2>2, IdleStage
  <2>4. QED
    BY <1>2, <2>2, <2>3 DEF r, Sane
<1>5. call' = [call EXCEPT ![c] = t]
  BY <1>1 DEF Moment
<1>6. Keeps(c) /\ Alone(c) /\ call'[c] = t
  BY <1>4, <1>5, Replaces
<1>7. call[c] # Idle /\ told' = told
  BY <1>3, SaneActive DEF Choose
<1>8. QED
  BY <1>d, <1>4, <1>6, <1>7 DEF Quiet, Tells, Early, InQueue

LEMMA QuietStart ==
  ASSUME Moment, NEW c \in Callers,
         NEW s \in {"lookup", "search", "open"}, NEW load \in BOOLEAN,
         NEW d \in Devices, NEW f \in Finders, NEW e \in Entries \cup {NoEntry},
         s = "open" => e # NoEntry,
         Start(c, s, load, d, f, e)
  PROVE  Quiet(c)
PROOF
<1> DEFINE t == [pc |-> s, load |-> load, device |-> d, finder |-> f,
                 entry |-> e, snap |-> {}, blind |-> FALSE, ahead |-> {}]
<1>1. /\ t.pc = s /\ t.snap = {} /\ t.entry = e
      /\ t \in Active
  BY DEF Active, Stages
<1>2. t \in Sane /\ t # Idle
  BY <1>1, IdleStage DEF Sane, Early
<1>3. Keeps(c) /\ Alone(c) /\ call'[c] = t
  BY <1>2, Replaces DEF Start
<1>4. call[c] = Idle /\ Tells(c) /\ UNCHANGED <<disk, index, cut>>
  BY DEF Start, Tells
<1>5. QED
  BY <1>1, <1>3, <1>4, IdleStage DEF Quiet, InQueue, Stages

LEMMA QuietTrouble ==
  ASSUME Moment, NEW c \in Callers, call[c].pc \in {"search", "download"},
         Trouble(c), UNCHANGED <<disk, index, cut>>
  PROVE  Quiet(c)
PROOF
<1>1. CASE call[c].load
  BY <1>1, QuietGoto DEF Trouble, Early
<1>2. CASE ~call[c].load
  BY <1>2, QuietEnd DEF Trouble
<1>3. QED
  BY <1>1, <1>2

LEMMA QuietSteps ==
  ASSUME Moment, NEW c \in Callers,
         \/ \E d \in Devices, f \in Finders :
              \/ \E refresh \in BOOLEAN : Load(c, d, refresh, f)
              \/ ImportPackage(c, d, f)
         \/ Lookup(c) \/ ReadCached(c) \/ Search(c) \/ Download(c) \/ FallBack(c)
         \/ ReadIndex(c) \/ WriteTemporary(c)
  PROVE  Quiet(c)
PROOF
<1> index \in SUBSET Entries
  BY DEF Moment, Others
<1>1. ASSUME NEW d \in Devices, NEW f \in Finders, NEW refresh \in BOOLEAN,
             Load(c, d, refresh, f)
      PROVE  Quiet(c)
  <2>1. CASE refresh
    BY <1>1, <2>1, QuietStart DEF Load
  <2>2. CASE ~refresh
    BY <1>1, <2>2, QuietStart DEF Load
  <2>3. QED
    BY <2>1, <2>2
<1>2. ASSUME NEW d \in Devices, NEW f \in Finders, ImportPackage(c, d, f)
      PROVE  Quiet(c)
  <2> DEFINE e == [device |-> d, iodd |-> 0, approved |-> FALSE]
  <2>1. 0 \in 0 .. MaxIodd
    BY IoddAssumption
  <2>2. e \in Entries
    BY <2>1, Zenon DEF Entries
  <2>3. e # NoEntry
    BY <2>2, FinderMarkers
  <2> HIDE DEF e
  <2>4. Start(c, "open", FALSE, d, f, e)
    BY <1>2 DEF ImportPackage, e
  <2>5. QED
    BY <2>2, <2>3, <2>4, QuietStart
<1>3. /\ Hits(Read, call[c].device) \in SUBSET Entries
      /\ Hits(Read, call[c].device) \in SUBSET Hits(index, call[c].device)
  BY DEF Hits, Read
<1>4. CASE Lookup(c)
  <2>1. call[c].pc = "lookup" /\ UNCHANGED <<disk, index, cut>>
    BY <1>4 DEF Lookup, Find
  <2>2. CASE Goto(c, "search") /\ UNCHANGED told
    BY <2>1, <2>2, QuietGoto DEF Early
  <2>3. CASE Choose(c, "read", Hits(Read, call[c].device))
    BY <1>3, <2>1, <2>3, QuietChoose DEF Early, Stages, InQueue
  <2>4. QED
    BY <1>4, <2>2, <2>3 DEF Lookup, Find
<1>5. CASE FallBack(c)
  <2>1. call[c].pc = "fallback" /\ UNCHANGED <<disk, index, cut>>
    BY <1>5 DEF FallBack, Find
  <2>2. CASE End(c, Refused)
    BY <2>1, <2>2, QuietEnd
  <2>3. CASE Choose(c, "read", Hits(Read, call[c].device))
    BY <1>3, <2>1, <2>3, QuietChoose DEF Early, Stages, InQueue
  <2>4. QED
    BY <1>5, <2>2, <2>3 DEF FallBack, Find
<1>6. CASE ReadCached(c)
  <2>1. call[c].pc = "read" /\ UNCHANGED <<disk, index, cut>>
        /\ (End(c, FileOf(call[c].entry)) \/ End(c, Refused))
    BY <1>6 DEF ReadCached
  <2>2. QED
    BY <2>1, QuietEnd
<1>7. CASE Search(c)
  <2>1. call[c].pc = "search" /\ UNCHANGED <<disk, index, cut>>
    BY <1>7 DEF Search
  <2>2. CASE Trouble(c)
    BY <2>1, <2>2, QuietTrouble
  <2>3. ASSUME NEW found \in SUBSET Entries, Choose(c, "download", found)
        PROVE  Quiet(c)
    BY <2>1, <2>3, QuietChoose DEF Early, Stages, InQueue
  <2>4. QED
    BY <1>7, <2>2, <2>3 DEF Search
<1>8. CASE Download(c)
  <2>1. call[c].pc = "download" /\ UNCHANGED <<disk, index, cut>>
    BY <1>8 DEF Download
  <2>2. CASE Trouble(c)
    BY <2>1, <2>2, QuietTrouble
  <2>3. CASE Goto(c, "open") /\ UNCHANGED told
    BY <2>1, <2>3, QuietGoto DEF Early
  <2>4. QED
    BY <1>8, <2>2, <2>3 DEF Download
<1>9. CASE ReadIndex(c)
  <2> DEFINE closed == ~readable
             t == [call[c] EXCEPT !.pc = "merging", !.snap = Read, !.blind = closed]
  <2>1. call[c] \in Sane /\ call[c].pc \in Stages /\ call[c].pc = "queued"
    BY <1>9 DEF ReadIndex, Moment, Stages, InQueue
  <2>2. "merging" \in Stages /\ "queued" \notin Early
    BY DEF Stages, InQueue, Early
  <2>c. closed \in BOOLEAN
    OBVIOUS
  <2>r. Read \in SUBSET Entries /\ (Read = index \/ (~readable /\ Read = {}))
    BY DEF Read
  <2>3. /\ t \in Sane /\ t # Idle /\ t.pc = "merging"
        /\ t.snap = Read /\ t.blind = closed
        /\ t.entry = call[c].entry /\ t.ahead = call[c].ahead
        /\ t.finder = call[c].finder
    <3> DEFINE u == [call[c] EXCEPT !.pc = "merging"]
    <3>1. /\ u \in Sane /\ u.pc = "merging"
          /\ u.entry = call[c].entry /\ u.ahead = call[c].ahead
          /\ u.finder = call[c].finder
      BY <2>1, <2>2, GoesOn
    <3>2. t = [u EXCEPT !.snap = Read, !.blind = closed]
      OBVIOUS
    <3> HIDE DEF u, t, closed
    <3>a. u \in Sane /\ u.pc \in Stages
      BY <3>1, <2>2
    <3>r. Read \in SUBSET Entries
      BY <2>r
    <3> DEFINE v(yes) == [u EXCEPT !.snap = Read, !.blind = yes]
               Good(yes) == /\ v(yes) \in Sane /\ v(yes) # Idle /\ v(yes).pc = u.pc
                            /\ v(yes).snap = Read /\ v(yes).blind = yes
                            /\ v(yes).finder = u.finder /\ v(yes).entry = u.entry
                            /\ v(yes).ahead = u.ahead
    <3>3. Good(closed)
      <4>1. Good(TRUE)
        BY <3>a, <3>r, Snaps, ZenonT(30)
      <4>2. Good(FALSE)
        BY <3>a, <3>r, Snaps, ZenonT(30)
      <4>3. closed = TRUE \/ closed = FALSE
        BY <2>c
      <4> HIDE DEF Good
      <4>4. QED
        BY <4>1, <4>2, <4>3
    <3>4. QED
      BY <3>1, <3>2, <3>3
  <2>4. call' = [call EXCEPT ![c] = t]
    BY <1>9 DEF ReadIndex, Moment
  <2>5. Keeps(c) /\ Alone(c) /\ call'[c] = t
    BY <2>3, <2>4, Replaces
  <2>6. Tells(c) /\ UNCHANGED <<disk, index, cut>> /\ call[c].ahead = {}
    BY <1>9 DEF ReadIndex, Tells
  <2>7. QED
    BY <2>1, <2>r, <2>3, <2>5, <2>6 DEF Quiet, InQueue
<1>10. CASE WriteTemporary(c)
  <2> DEFINE t == [call[c] EXCEPT !.pc = "renaming"]
  <2>1. call[c] \in Sane /\ call[c].pc \in Stages /\ call[c].pc = "merging"
    BY <1>10 DEF WriteTemporary, Moment, Stages, InQueue
  <2>2. "renaming" \in Stages /\ "merging" \notin Early
    BY DEF Stages, InQueue, Early
  <2>3. /\ t \in Sane /\ t # Idle /\ t.pc = "renaming"
        /\ t.snap = call[c].snap /\ t.blind = call[c].blind
        /\ t.finder = call[c].finder
        /\ t.entry = call[c].entry /\ t.ahead = call[c].ahead
    BY <2>1, <2>2, GoesOn
  <2>4. call' = [call EXCEPT ![c] = t]
    BY <1>10 DEF WriteTemporary, Goto, Moment
  <2>5. Keeps(c) /\ Alone(c) /\ call'[c] = t
    BY <2>3, <2>4, Replaces
  <2>6. Tells(c) /\ UNCHANGED <<disk, index, cut>>
    BY <1>10 DEF WriteTemporary, Untouched, Tells
  <2>7. call[c] # Idle
    BY <2>1, SaneActive
  <2>8. QED
    BY <2>1, <2>3, <2>5, <2>6, <2>7 DEF Quiet, InQueue
<1>11. QED
  BY <1>1, <1>2, <1>4, <1>5, <1>6, <1>7, <1>8, <1>9, <1>10

\* The steps that do change the folder.
LEMMA OpenStep ==
  ASSUME Moment, NEW c \in Callers, OpenFile(c)
  PROVE  /\ Keeps(c) /\ call[c].pc = "open" /\ call[c].entry \in Entries
         /\ call[c] # Idle /\ call'[c] # Idle /\ call'[c].pc = "writing"
         /\ call'[c].entry = call[c].entry /\ call'[c].snap = call[c].snap
         /\ disk' = [disk EXCEPT ![FileOf(call[c].entry)] = "torn"]
         /\ cut' \in {cut, cut \ {FileOf(call[c].entry)}}
         /\ UNCHANGED <<index, told>>
PROOF
<1> DEFINE t == [call[c] EXCEPT !.pc = "writing"]
<1>1. call[c] \in Sane /\ call[c].pc \in Stages /\ call[c].pc = "open"
  BY DEF OpenFile, Moment, Stages
<1>2. "writing" \in Stages /\ "open" \notin Early
  BY DEF Stages, Early
<1>3. /\ t \in Sane /\ t # Idle /\ t.pc = "writing"
      /\ t.entry = call[c].entry /\ t.snap = call[c].snap
  BY <1>1, <1>2, GoesOn
<1>4. call' = [call EXCEPT ![c] = t]
  BY DEF OpenFile, AwaitWrite, Goto, Moment
<1>5. Keeps(c) /\ call'[c] = t
  BY <1>3, <1>4, Replaces
<1>6. call[c].entry \in Entries /\ call[c] # Idle
  BY <1>1, <1>2, SaneActive
<1>7. QED
  BY <1>1, <1>3, <1>5, <1>6 DEF OpenFile

LEMMA CloseStep ==
  ASSUME Moment, NEW c \in Callers, CloseFile(c)
  PROVE  /\ Keeps(c) /\ call[c].pc = "writing" /\ call[c].entry \in Entries
         /\ call[c] # Idle /\ call'[c] # Idle /\ call'[c].pc = "queued"
         /\ call'[c].entry = call[c].entry /\ call'[c].snap = call[c].snap
         /\ call'[c].ahead = Ahead(c)
         /\ \/ /\ disk' = [disk EXCEPT ![FileOf(call[c].entry)] = "whole"]
               /\ cut' = cut \ {FileOf(call[c].entry)}
            \/ /\ disk' = [disk EXCEPT ![FileOf(call[c].entry)] = "torn"]
               /\ cut' = cut
               /\ Writing(FileOf(call[c].entry)) # {c} \/ FileOf(call[c].entry) \in cut
         /\ UNCHANGED <<index, told>>
PROOF
<1> DEFINE u == [call[c] EXCEPT !.pc = "queued"]
           t == [call[c] EXCEPT !.pc = "queued", !.ahead = Ahead(c)]
<1>1. call[c] \in Sane /\ call[c].pc \in Stages /\ call[c].pc = "writing"
  BY DEF CloseFile, Moment, Stages
<1>2. "queued" \in Stages /\ "writing" \notin Early
  BY DEF Stages, Early, InQueue
<1>3. u \in Sane /\ u.pc = "queued" /\ u.entry = call[c].entry /\ u.snap = call[c].snap
  BY <1>1, <1>2, GoesOn
<1>4. call' = [call EXCEPT ![c] = t]
  BY DEF CloseFile, Moment
<1>5. t = [u EXCEPT !.ahead = Ahead(c)]
  OBVIOUS
<1>6. Ahead(c) \in SUBSET Callers
  BY DEF Ahead
<1> HIDE DEF u, t
<1>7. LET v == [u EXCEPT !.ahead = Ahead(c)] IN
      /\ v \in Sane /\ v # Idle /\ v.pc = u.pc /\ v.ahead = Ahead(c)
      /\ v.entry = u.entry /\ v.snap = u.snap
  BY <1>2, <1>3, <1>6, Moves
<1>8. Keeps(c) /\ call'[c] = t
  BY <1>4, <1>5, <1>7, Replaces
<1>9. call[c].entry \in Entries /\ call[c] # Idle
  BY <1>1, <1>2, SaneActive
<1>10. /\ \/ /\ disk' = [disk EXCEPT ![FileOf(call[c].entry)] = "whole"]
             /\ cut' = cut \ {FileOf(call[c].entry)}
          \/ /\ disk' = [disk EXCEPT ![FileOf(call[c].entry)] = "torn"]
             /\ cut' = cut
             /\ Writing(FileOf(call[c].entry)) # {c} \/ FileOf(call[c].entry) \in cut
       /\ UNCHANGED <<index, told>>
  BY DEF CloseFile, Written
<1>11. QED
  BY <1>1, <1>3, <1>5, <1>7, <1>8, <1>9, <1>10

LEMMA RenameStep ==
  ASSUME Moment, NEW c \in Callers, Rename(c)
  PROVE  /\ Keeps(c) /\ call[c].pc = "renaming" /\ call[c].entry \in Entries
         /\ call[c] # Idle /\ call[c].snap \in SUBSET Entries /\ call'[c] = Idle
         /\ index' = Replacing(call[c].snap, call[c].entry)
         /\ told' = [told EXCEPT ![c] = FileOf(call[c].entry)]
         /\ UNCHANGED <<disk, cut>>
PROOF
<1>1. call[c] \in Sane /\ call[c].pc \in Stages /\ call[c].pc = "renaming"
  BY DEF Rename, Moment, Stages, InQueue
<1>2. "renaming" \notin Early
  BY DEF Early
<1>3. call[c].entry \in Entries /\ call[c] # Idle /\ call[c].snap \in SUBSET Entries
  BY <1>1, <1>2, SaneActive
<1>4. Keeps(c) /\ call'[c] = Idle
  BY IdleSane, Releases DEF Rename
<1>5. QED
  BY <1>1, <1>3, <1>4 DEF Rename

LEMMA FailStep ==
  ASSUME Moment, NEW c \in Callers, WriteFails(c)
  PROVE  /\ Keeps(c) /\ call[c].pc \notin Early /\ call[c].entry \in Entries
         /\ call[c] # Idle
         /\ \/ call'[c] = Idle
            \/ call'[c].pc = "fallback" /\ call'[c].snap = {}
         /\ cut' = IF call[c].pc = "writing"
                   THEN cut \cup {FileOf(call[c].entry)} ELSE cut
         /\ told' = told \/ told' = [told EXCEPT ![c] = Refused]
         /\ UNCHANGED <<disk, index>>
PROOF
<1> DEFINE u == [call[c] EXCEPT !.pc = "fallback"]
           t == [call[c] EXCEPT !.pc = "fallback", !.snap = {}, !.blind = FALSE]
<1>1. call[c] \in Sane /\ call[c].pc \in Stages /\ call[c].pc \notin Early
  BY DEF WriteFails, Moment, Stages, InQueue, Early
<1>2. call[c].entry \in Entries /\ call[c] # Idle
  BY <1>1, SaneActive
<1>3. /\ Keeps(c)
      /\ \/ call'[c] = Idle
         \/ call'[c].pc = "fallback" /\ call'[c].snap = {}
  <2>1. CASE call[c].load
    <3>1. call' = Released([call EXCEPT ![c] = t], c)
      BY <2>1 DEF WriteFails
    <3>2. "fallback" \in Stages /\ "fallback" \in Early
      BY DEF Stages, Early
    <3>3. u \in Sane /\ u.pc = "fallback"
      BY <1>1, <3>2, GoesOn
    <3>4. t = [u EXCEPT !.snap = {}, !.blind = FALSE]
      OBVIOUS
    <3> HIDE DEF u, t
    <3>5. LET v == [u EXCEPT !.snap = {}, !.blind = FALSE] IN
          v \in Sane /\ v.pc = u.pc /\ v.snap = {}
      BY <3>2, <3>3, Snaps
    <3>6. QED
      BY <3>1, <3>3, <3>4, <3>5, Releases
  <2>2. CASE ~call[c].load
    BY <2>2, IdleSane, Releases DEF WriteFails
  <2>3. QED
    BY <2>1, <2>2
<1>4. QED
  BY <1>1, <1>2, <1>3 DEF WriteFails

-----------------------------------------------------------------------------
(* Type correctness.                                                       *)

LEMMA FileTypes ==
  ASSUME NEW e \in Entries
  PROVE  FileOf(e) \in Files
BY DEF FileOf, Files, Entries

LEMMA TellsType ==
  ASSUME Moment, NEW c \in Callers, Tells(c)
  PROVE  told' \in [Callers -> Files \cup {Refused, Nothing}]
PROOF
<1>1. told \in [Callers -> Files \cup {Refused, Nothing}]
  BY DEF Moment, Others
<1>2. CASE call[c].pc = "read" /\ told' = [told EXCEPT ![c] = FileOf(call[c].entry)]
  <2>1. call[c] \in Sane /\ call[c].pc \in Stages /\ call[c].pc \notin Early
    BY <1>2 DEF Moment, Stages, Early
  <2>2. FileOf(call[c].entry) \in Files
    BY <2>1, SaneActive, FileTypes
  <2>3. QED
    BY <1>1, <1>2, <2>2
<1>3. QED
  BY <1>1, <1>2 DEF Tells

LEMMA StepCases ==
  ASSUME Step
  PROVE  \/ Crash
         \/ \E c \in Callers :
              \/ \E d \in Devices, f \in Finders :
                   \/ \E refresh \in BOOLEAN : Load(c, d, refresh, f)
                   \/ ImportPackage(c, d, f)
              \/ Lookup(c) \/ ReadCached(c) \/ Search(c) \/ Download(c) \/ FallBack(c)
              \/ ReadIndex(c) \/ WriteTemporary(c)
              \/ OpenFile(c) \/ CloseFile(c) \/ Rename(c) \/ WriteFails(c)
BY DEF Step, Advance

\* A step as the properties see it: quiet, or one of the five that are not.
LEMMA StepKinds ==
  ASSUME Moment, Step
  PROVE  \/ Crash
         \/ \E c \in Callers :
              Quiet(c) \/ OpenFile(c) \/ CloseFile(c) \/ Rename(c) \/ WriteFails(c)
PROOF
<1>1. CASE Crash
  BY <1>1
<1>2. CASE ~Crash
  <2>1. PICK c \in Callers :
              \/ \E d \in Devices, f \in Finders :
                   \/ \E refresh \in BOOLEAN : Load(c, d, refresh, f)
                   \/ ImportPackage(c, d, f)
              \/ Lookup(c) \/ ReadCached(c) \/ Search(c) \/ Download(c) \/ FallBack(c)
              \/ ReadIndex(c) \/ WriteTemporary(c)
              \/ OpenFile(c) \/ CloseFile(c) \/ Rename(c) \/ WriteFails(c)
    BY <1>2, StepCases
  <2>2. QED
    BY <2>1, QuietSteps
<1>3. QED
  BY <1>1, <1>2

LEMMA MomentKept ==
  ASSUME Moment, Step
  PROVE  Moment'
PROOF
<1> USE DEF Others
<1>0. Others
  BY DEF Moment
<1>1. CASE Crash
  BY <1>0, <1>1, IdleSane DEF Crash, Moment
<1>2. ASSUME NEW c \in Callers, Quiet(c)
      PROVE  Moment'
  BY <1>0, <1>2, TellsType DEF Moment, Quiet, Keeps
<1>3. ASSUME NEW c \in Callers, OpenFile(c)
      PROVE  Moment'
  <2>1. FileOf(call[c].entry) \in Files /\ Keeps(c)
        /\ disk' = [disk EXCEPT ![FileOf(call[c].entry)] = "torn"]
        /\ cut' \in {cut, cut \ {FileOf(call[c].entry)}}
        /\ UNCHANGED <<index, told>>
    BY <1>3, OpenStep, FileTypes
  <2>2. QED
    BY <1>0, <2>1 DEF Moment, Keeps
<1>4. ASSUME NEW c \in Callers, CloseFile(c)
      PROVE  Moment'
  <2>1. FileOf(call[c].entry) \in Files /\ Keeps(c)
        /\ \E state \in {"torn", "whole"} :
             disk' = [disk EXCEPT ![FileOf(call[c].entry)] = state]
        /\ cut' \in {cut, cut \ {FileOf(call[c].entry)}}
        /\ UNCHANGED <<index, told>>
    BY <1>4, CloseStep, FileTypes
  <2>2. QED
    BY <1>0, <2>1 DEF Moment, Keeps
<1>5. ASSUME NEW c \in Callers, Rename(c)
      PROVE  Moment'
  <2>1. FileOf(call[c].entry) \in Files /\ Keeps(c)
        /\ call[c].entry \in Entries /\ call[c].snap \in SUBSET Entries
        /\ index' = Replacing(call[c].snap, call[c].entry)
        /\ told' = [told EXCEPT ![c] = FileOf(call[c].entry)]
        /\ UNCHANGED <<disk, cut>>
    BY <1>5, RenameStep, FileTypes
  <2>2. index' \in SUBSET Entries
    BY <2>1 DEF Replacing
  <2>3. QED
    BY <1>0, <2>1, <2>2 DEF Moment, Keeps
<1>6. ASSUME NEW c \in Callers, WriteFails(c)
      PROVE  Moment'
  <2>1. FileOf(call[c].entry) \in Files /\ Keeps(c)
        /\ cut' \in {cut, cut \cup {FileOf(call[c].entry)}}
        /\ (told' = told \/ told' = [told EXCEPT ![c] = Refused])
        /\ UNCHANGED <<disk, index>>
    BY <1>6, FailStep, FileTypes
  <2>2. QED
    BY <1>0, <2>1 DEF Moment, Keeps
<1>7. QED
  BY <1>1, <1>2, <1>3, <1>4, <1>5, <1>6, StepKinds

\* When the folder falters, nothing else changes.
LEMMA MomentFalters ==
  ASSUME Moment, Falter
  PROVE  Moment'
BY DEF Falter, Moment, Others

LEMMA MomentFirst ==
  ASSUME Init
  PROVE  Moment
BY IdleSane DEF Init, Moment, Others

\* Whatever finders share the folder and whenever the process crashes, the
\* disk holds files and a well-formed index, and every call that has come past
\* its search knows which entry it is about.
THEOREM TypeCorrect == Spec => []TypeOK
PROOF
<1>1. Init => TypeOK
  BY MomentFirst, TypeParts DEF Moment, Init
<1>2. TypeOK /\ [Next]_vars => TypeOK'
  <2> SUFFICES ASSUME TypeOK, [Next]_vars
               PROVE  TypeOK'
    OBVIOUS
  <2>1. /\ Moment /\ lacking \in SUBSET Callers
        /\ readable \in BOOLEAN /\ named \in SUBSET Files
    BY TypeParts DEF Moment
  <2>2. CASE UNCHANGED vars
    BY <2>2 DEF vars, TypeOK
  <2>3. CASE Next
    <3>1. Moment'
      BY <2>1, <2>3, MomentKept, MomentFalters DEF Next
    <3>2. lacking' \in SUBSET Callers /\ readable' \in BOOLEAN
      BY <2>1, <2>3 DEF Next, Falter
    <3>3. call' \in [Callers -> Sane] /\ Others' /\ index' \in SUBSET Entries
      BY <3>1 DEF Moment, Others
    <3>4. named' \in SUBSET Files
      BY <2>1, <2>3, <3>3, FileTypes DEF Next
    <3>5. QED
      BY <3>2, <3>3, <3>4 DEF TypeOK, Sane, Others, Early
  <2>4. QED
    BY <2>2, <2>3
<1>3. QED
  BY <1>1, <1>2, PTL DEF Spec

-----------------------------------------------------------------------------
(* What the index names is there.                                          *)

WrittenBy(c, f) == call[c].pc = "writing" /\ FileOf(call[c].entry) = f

\* The file is whole, is being made so, or was left torn.
Sound(f) ==
    \/ disk[f] = "whole"
    \/ f \in cut
    \/ \E c \in Callers : WrittenBy(c, f)

\* A file being written has been opened: a crash leaves it torn.
OpenedFirst ==
    \A c \in Callers : call[c].pc = "writing" => disk[FileOf(call[c].entry)] # "absent"

\* What the index names, what a call has read of it, and what it will add.
AllSound ==
    /\ \A e \in index : Sound(FileOf(e))
    /\ \A c \in Callers : call[c] # Idle => \A e \in call[c].snap : Sound(FileOf(e))
    /\ \A c \in Callers : Queued(c) => Sound(FileOf(call[c].entry))

WholeInv == Moment /\ OpenedFirst /\ AllSound

\* An other call writes what it wrote.
LEMMA OthersWrite ==
  ASSUME NEW c \in Callers, Keeps(c), NEW b \in Callers \ {c}, NEW f
  PROVE  WrittenBy(b, f)' <=> WrittenBy(b, f)
PROOF
<1>1. Same(b, c)
  BY DEF Keeps
<1>2. CASE call[b] = Idle
  BY <1>1, <1>2, IdleStage DEF Same, WrittenBy
<1>3. CASE call[b] # Idle
  BY <1>1, <1>3 DEF Same, WrittenBy
<1>4. QED
  BY <1>2, <1>3

\* No step makes a sound file unsound.
LEMMA SoundStays ==
  ASSUME WholeInv, Step, NEW f \in Files, Sound(f)
  PROVE  Sound(f)'
PROOF
<1>0. Moment /\ disk \in [Files -> {"absent", "torn", "whole"}] /\ cut \in SUBSET Files
  BY DEF WholeInv, Moment, Others
<1>1. CASE Crash
  <2>1. disk[f] \in {"absent", "torn", "whole"} /\ UNCHANGED disk
        /\ cut' = cut \cup {g \in Files : disk[g] = "torn"}
    BY <1>0, <1>1 DEF Crash
  <2>2. (\E c \in Callers : WrittenBy(c, f)) => disk[f] # "absent"
    BY DEF WholeInv, OpenedFirst, WrittenBy
  <2>3. QED
    BY <2>1, <2>2 DEF Sound
<1>2. ASSUME NEW c \in Callers, Quiet(c)
      PROVE  Sound(f)'
  <2>1. Keeps(c) /\ UNCHANGED <<disk, cut>> /\ ~WrittenBy(c, f)
    BY <1>2 DEF Quiet, WrittenBy
  <2>2. QED
    BY <2>1, OthersWrite DEF Sound
<1>3. ASSUME NEW c \in Callers, OpenFile(c)
      PROVE  Sound(f)'
  <2>1. /\ Keeps(c) /\ ~WrittenBy(c, f)
        /\ call'[c].pc = "writing" /\ call'[c].entry = call[c].entry
        /\ disk' = [disk EXCEPT ![FileOf(call[c].entry)] = "torn"]
        /\ cut' \in {cut, cut \ {FileOf(call[c].entry)}}
    BY <1>0, <1>3, OpenStep DEF WrittenBy
  <2>2. CASE FileOf(call[c].entry) = f
    BY <2>1, <2>2 DEF Sound, WrittenBy
  <2>3. CASE FileOf(call[c].entry) # f
    BY <1>0, <2>1, <2>3, OthersWrite DEF Sound
  <2>4. QED
    BY <2>2, <2>3
<1>4. ASSUME NEW c \in Callers, CloseFile(c)
      PROVE  Sound(f)'
  <2>1. /\ Keeps(c) /\ WrittenBy(c, FileOf(call[c].entry))
        /\ \/ /\ disk' = [disk EXCEPT ![FileOf(call[c].entry)] = "whole"]
              /\ cut' = cut \ {FileOf(call[c].entry)}
           \/ /\ disk' = [disk EXCEPT ![FileOf(call[c].entry)] = "torn"]
              /\ cut' = cut
              /\ Writing(FileOf(call[c].entry)) # {c} \/ FileOf(call[c].entry) \in cut
    BY <1>0, <1>4, CloseStep DEF WrittenBy
  <2>2. CASE FileOf(call[c].entry) = f
    <3>1. CASE disk' = [disk EXCEPT ![f] = "whole"]
      BY <1>0, <3>1 DEF Sound
    <3>2. CASE cut' = cut /\ f \in cut
      BY <3>2 DEF Sound
    <3>3. CASE Writing(f) # {c}
      <4>1. PICK b \in Callers \ {c} : WrittenBy(b, f)
        BY <2>1, <2>2, <3>3 DEF Writing, WrittenBy
      <4>2. WrittenBy(b, f)'
        BY <2>1, <4>1, OthersWrite
      <4>3. QED
        BY <4>2 DEF Sound
    <3>4. QED
      BY <2>1, <2>2, <3>1, <3>2, <3>3
  <2>3. CASE FileOf(call[c].entry) # f
    <3>1. ~WrittenBy(c, f)
      BY <2>3 DEF WrittenBy
    <3>2. QED
      BY <1>0, <2>1, <2>3, <3>1, OthersWrite DEF Sound
  <2>4. QED
    BY <2>2, <2>3
<1>5. ASSUME NEW c \in Callers, Rename(c)
      PROVE  Sound(f)'
  <2>1. Keeps(c) /\ UNCHANGED <<disk, cut>> /\ ~WrittenBy(c, f)
    BY <1>0, <1>5, RenameStep DEF WrittenBy
  <2>2. QED
    BY <2>1, OthersWrite DEF Sound
<1>6. ASSUME NEW c \in Callers, WriteFails(c)
      PROVE  Sound(f)'
  <2>1. /\ Keeps(c) /\ UNCHANGED disk
        /\ cut' = IF call[c].pc = "writing"
                  THEN cut \cup {FileOf(call[c].entry)} ELSE cut
    BY <1>0, <1>6, FailStep
  <2>2. CASE WrittenBy(c, f)
    BY <2>1, <2>2 DEF WrittenBy, Sound
  <2>3. CASE ~WrittenBy(c, f)
    BY <2>1, <2>3, OthersWrite DEF Sound
  <2>4. QED
    BY <2>2, <2>3
<1>7. QED
  BY <1>0, <1>1, <1>2, <1>3, <1>4, <1>5, <1>6, StepKinds

LEMMA OpenedStays ==
  ASSUME WholeInv, Step
  PROVE  OpenedFirst'
PROOF
<1>0. Moment /\ OpenedFirst /\ disk \in [Files -> {"absent", "torn", "whole"}]
  BY DEF WholeInv, Moment, Others
<1>1. CASE Crash
  BY <1>1, IdleStage DEF Crash, OpenedFirst
<1>2. ASSUME NEW c \in Callers, Keeps(c),
             \A f \in Files : disk[f] # "absent" => disk'[f] # "absent",
             call'[c].pc = "writing" => disk'[FileOf(call'[c].entry)] # "absent"
      PROVE  OpenedFirst'
  <2> SUFFICES ASSUME NEW b \in Callers, call'[b].pc = "writing"
               PROVE  disk'[FileOf(call'[b].entry)] # "absent"
    BY DEF OpenedFirst
  <2>1. CASE b = c
    BY <1>2, <2>1
  <2>2. CASE b # c
    <3>1. call[b].pc = "writing" /\ call'[b].entry = call[b].entry
      BY <1>2, <2>2, IdleStage DEF Keeps, Same
    <3>2. call[b] \in Sane /\ call[b].pc \in Stages /\ call[b].pc \notin Early
      BY <1>0, <3>1 DEF Moment, Stages, Early
    <3>3. FileOf(call[b].entry) \in Files
      BY <3>2, SaneActive, FileTypes
    <3>4. disk[FileOf(call[b].entry)] # "absent"
      BY <1>0, <3>1 DEF OpenedFirst
    <3>5. QED
      BY <1>2, <3>1, <3>3, <3>4
  <2>3. QED
    BY <2>1, <2>2
<1>3. ASSUME NEW c \in Callers, Quiet(c)
      PROVE  OpenedFirst'
  BY <1>2, <1>3 DEF Quiet
<1>4. ASSUME NEW c \in Callers, OpenFile(c)
      PROVE  OpenedFirst'
  <2>1. FileOf(call[c].entry) \in Files /\ Keeps(c) /\ call'[c].entry = call[c].entry
        /\ disk' = [disk EXCEPT ![FileOf(call[c].entry)] = "torn"]
    BY <1>0, <1>4, OpenStep, FileTypes
  <2>2. QED
    BY <1>0, <1>2, <2>1
<1>5. ASSUME NEW c \in Callers, CloseFile(c)
      PROVE  OpenedFirst'
  <2>1. FileOf(call[c].entry) \in Files /\ Keeps(c) /\ call'[c].pc = "queued"
        /\ \E state \in {"torn", "whole"} :
             disk' = [disk EXCEPT ![FileOf(call[c].entry)] = state]
    BY <1>0, <1>5, CloseStep, FileTypes
  <2>2. QED
    BY <1>0, <1>2, <2>1
<1>6. ASSUME NEW c \in Callers, Rename(c)
      PROVE  OpenedFirst'
  <2>1. Keeps(c) /\ call'[c].pc # "writing" /\ UNCHANGED disk
    BY <1>0, <1>6, RenameStep, IdleStage
  <2>2. QED
    BY <1>2, <2>1
<1>7. ASSUME NEW c \in Callers, WriteFails(c)
      PROVE  OpenedFirst'
  <2>1. Keeps(c) /\ call'[c].pc # "writing" /\ UNCHANGED disk
    BY <1>0, <1>7, FailStep, IdleStage
  <2>2. QED
    BY <1>2, <2>1
<1>8. QED
  BY <1>0, <1>1, <1>3, <1>4, <1>5, <1>6, <1>7, StepKinds

\* The entry of a call, and all that a call has read, are of the folder.
LEMMA CallTypes ==
  ASSUME Moment, NEW c \in Callers, call[c] # Idle
  PROVE  /\ call[c].snap \in SUBSET Entries
         /\ Queued(c) => call[c].entry \in Entries
PROOF
<1>1. call[c] \in Sane /\ call[c].pc \in Stages
  BY DEF Moment, Sane, Active
<1>2. Queued(c) => call[c].pc \notin Early
  BY DEF Queued, InQueue, Early
<1>3. QED
  BY <1>1, <1>2, SaneActive

LEMMA AllSoundStays ==
  ASSUME WholeInv, Step
  PROVE  AllSound'
PROOF
<1>0. Moment /\ AllSound /\ index \in SUBSET Entries
  BY DEF WholeInv, Moment, Others
<1>a. \A e \in Entries : Sound(FileOf(e)) => Sound(FileOf(e))'
  BY SoundStays, FileTypes DEF FileOf
<1>b. \A e \in index : Sound(FileOf(e))'
  BY <1>0, <1>a DEF AllSound
<1>c. ASSUME NEW b \in Callers, call[b] # Idle
      PROVE  \A e \in call[b].snap : Sound(FileOf(e))'
  BY <1>0, <1>a, <1>c, CallTypes DEF AllSound
<1>d. ASSUME NEW b \in Callers, Queued(b)
      PROVE  /\ call[b] # Idle /\ call[b].entry \in Entries
             /\ \A e \in Entries : e = call[b].entry => Sound(FileOf(e))'
  <2>1. call[b] # Idle
    BY <1>d, IdleStage DEF Queued, InQueue
  <2>2. QED
    BY <1>0, <1>a, <1>d, <2>1, CallTypes DEF AllSound
<1>1. CASE Crash
  BY <1>1, <1>b, IdleStage DEF Crash, AllSound, Queued, InQueue
<1>2. ASSUME NEW c \in Callers, Keeps(c),
             \A e \in index' : Sound(FileOf(e))',
             call'[c] # Idle => \A e \in call'[c].snap : Sound(FileOf(e))',
             Queued(c)' => Sound(FileOf(call[c].entry))'
      PROVE  AllSound'
  <2>1. ASSUME NEW b \in Callers, call'[b] # Idle
        PROVE  \A e \in call'[b].snap : Sound(FileOf(e))'
    <3>1. CASE b = c
      BY <1>2, <2>1, <3>1
    <3>2. CASE b # c
      <4>1. call[b] # Idle /\ call'[b].snap = call[b].snap
        BY <1>2, <2>1, <3>2 DEF Keeps, Same
      <4>2. QED
        BY <1>c, <4>1
    <3>3. QED
      BY <3>1, <3>2
  <2>2. ASSUME NEW b \in Callers, Queued(b)'
        PROVE  Sound(FileOf(call[b].entry))'
    <3>1. CASE b = c
      BY <1>2, <2>2, <3>1
    <3>2. CASE b # c
      <4>1. Queued(b) /\ call'[b].entry = call[b].entry
        BY <1>2, <2>2, <3>2, IdleStage DEF Keeps, Same, Queued, InQueue
      <4>2. QED
        BY <1>d, <4>1
    <3>3. QED
      BY <3>1, <3>2
  <2>3. QED
    BY <1>2, <2>1, <2>2 DEF AllSound, FileOf
<1>3. ASSUME NEW c \in Callers, Quiet(c)
      PROVE  AllSound'
  <2>1. Keeps(c) /\ UNCHANGED index
    BY <1>3 DEF Quiet
  <2>2. call'[c] # Idle => \A e \in call'[c].snap : Sound(FileOf(e))'
    BY <1>3, <1>b, <1>c DEF Quiet
  <2>3. Queued(c)' => Queued(c) /\ call'[c].entry = call[c].entry
    BY <1>3 DEF Quiet, Queued
  <2>4. QED
    BY <1>2, <1>b, <1>d, <2>1, <2>2, <2>3
<1>4. ASSUME NEW c \in Callers, OpenFile(c)
      PROVE  AllSound'
  <2>1. Keeps(c) /\ UNCHANGED index /\ call[c] # Idle /\ call'[c].snap = call[c].snap
        /\ ~Queued(c)'
    BY <1>0, <1>4, OpenStep DEF Queued, InQueue
  <2>2. QED
    BY <1>2, <1>b, <1>c, <2>1
<1>5. ASSUME NEW c \in Callers, CloseFile(c)
      PROVE  AllSound'
  <2>1. /\ Keeps(c) /\ UNCHANGED index /\ call[c] # Idle
        /\ call[c].pc = "writing" /\ call[c].entry \in Entries
        /\ call'[c].snap = call[c].snap /\ call'[c].entry = call[c].entry
    BY <1>0, <1>5, CloseStep
  <2>2. Sound(FileOf(call[c].entry))
    BY <2>1 DEF Sound, WrittenBy
  <2>3. \A e \in Entries : e = call[c].entry => Sound(FileOf(e))'
    BY <1>a, <2>2
  <2>4. QED
    BY <1>2, <1>b, <1>c, <2>1, <2>3
<1>6. ASSUME NEW c \in Callers, Rename(c)
      PROVE  AllSound'
  <2>1. /\ Keeps(c) /\ call[c] # Idle /\ call'[c] = Idle /\ Queued(c)
        /\ index' = Replacing(call[c].snap, call[c].entry)
    BY <1>0, <1>6, RenameStep DEF Queued, InQueue
  <2>2. \A e \in index' : e \in call[c].snap \/ e = call[c].entry
    BY <2>1 DEF Replacing
  <2>3. \A e \in index' : Sound(FileOf(e))'
    BY <1>c, <1>d, <2>1, <2>2 DEF FileOf
  <2>4. ~Queued(c)'
    BY <2>1, IdleStage DEF Queued, InQueue
  <2>5. QED
    BY <1>2, <2>1, <2>3, <2>4
<1>7. ASSUME NEW c \in Callers, WriteFails(c)
      PROVE  AllSound'
  <2>1. /\ Keeps(c) /\ UNCHANGED index
        /\ \/ call'[c] = Idle
           \/ call'[c].pc = "fallback" /\ call'[c].snap = {}
    BY <1>0, <1>7, FailStep
  <2>2. ~Queued(c)'
    BY <2>1, IdleStage DEF Queued, InQueue
  <2>3. QED
    BY <1>2, <1>b, <2>1, <2>2
<1>8. QED
  BY <1>0, <1>1, <1>3, <1>4, <1>5, <1>6, <1>7, StepKinds

\* With any number of finders and crashes, no entry of the index names a file
\* that was never written: it is whole, or being written once more, or such a
\* write was cut short.
THEOREM NamedWhole == Spec => []NamedFilesWhole
PROOF
<1>1. Init => WholeInv
  <2> SUFFICES ASSUME Init
               PROVE  WholeInv
    OBVIOUS
  <2>1. index = {} /\ \A c \in Callers : call[c] = Idle
    BY DEF Init
  <2>2. OpenedFirst /\ AllSound
    BY <2>1, IdleStage DEF OpenedFirst, AllSound, Queued, InQueue
  <2>3. QED
    BY <2>2, MomentFirst DEF WholeInv
<1>2. WholeInv /\ [Next]_vars => WholeInv'
  <2> SUFFICES ASSUME WholeInv, [Next]_vars
               PROVE  WholeInv'
    OBVIOUS
  <2>1. CASE UNCHANGED vars
    BY <2>1 DEF vars, WholeInv, Moment, Others, OpenedFirst, AllSound, Sound,
                WrittenBy, Queued
  <2>2. CASE Step
    BY <2>2, MomentKept, OpenedStays, AllSoundStays DEF WholeInv
  <2>3. CASE Falter
    BY <2>3, MomentFalters DEF Falter, WholeInv, OpenedFirst, AllSound, Sound,
                WrittenBy, Queued
  <2>4. QED
    BY <2>1, <2>2, <2>3 DEF Next
<1>3. WholeInv => NamedFilesWhole
  BY DEF WholeInv, AllSound, Sound, WrittenBy, NamedFilesWhole
<1>4. QED
  BY <1>1, <1>2, <1>3, PTL DEF Spec

-----------------------------------------------------------------------------
(* One finder.                                                             *)

OneFinder == \A f, g \in Finders : f = g

\* Of two updates in the queue one waits for the other.
InTurn ==
    \A b, c \in Callers :
        b # c /\ Queued(b) /\ Queued(c) => b \in call[c].ahead \/ c \in call[b].ahead

\* Whose turn it is has read the index as it still is, or nothing at all.
Current(c) == call[c].snap = index \/ (call[c].blind /\ call[c].snap = {})

UpToDate ==
    \A c \in Callers : call[c].pc \in {"merging", "renaming"} =>
        call[c].ahead = {} /\ Current(c)

\* An entry that was found is one of the device, and the index named its file.
OnceNamed ==
    \A c \in Callers : call[c].pc = "read" =>
        /\ call[c].entry.device = call[c].device
        /\ FileOf(call[c].entry) \in named

AllNoted == \A e \in index : FileOf(e) \in named

TurnInv == Moment /\ InTurn /\ UpToDate /\ OnceNamed /\ AllNoted

\* An other call is in the queue, and at its place in it, as it was.
LEMMA OthersStay ==
  ASSUME Moment, NEW c \in Callers, Keeps(c), NEW b \in Callers \ {c}
  PROVE  /\ call'[b].pc = call[b].pc /\ (Queued(b)' <=> Queued(b))
         /\ call[b].pc # "idle" =>
              /\ call'[b].entry = call[b].entry /\ call'[b].snap = call[b].snap
              /\ call'[b].blind = call[b].blind
              /\ call'[b].device = call[b].device
              /\ call'[b].ahead \in SUBSET call[b].ahead
              /\ call[b].ahead \ {c} \in SUBSET call'[b].ahead
PROOF
<1>1. Same(b, c)
  BY DEF Keeps
<1>2. CASE call[b] = Idle
  BY <1>1, <1>2, IdleStage DEF Same, Queued
<1>3. CASE call[b] # Idle
  BY <1>1, <1>3 DEF Same, Queued
<1>4. QED
  BY <1>2, <1>3

LEMMA InTurnStays ==
  ASSUME OneFinder, TurnInv, Step
  PROVE  InTurn'
PROOF
<1>0. Moment /\ InTurn
  BY DEF TurnInv
<1>1. CASE Crash
  BY <1>1, IdleStage DEF Crash, InTurn, Queued, InQueue
<1>2. ASSUME NEW c \in Callers, Keeps(c),
             Queued(c)' => \A b \in Callers \ {c} :
                 Queued(b)' => b \in call'[c].ahead \/ c \in call'[b].ahead
      PROVE  InTurn'
  <2>1. \A b \in Callers \ {c} :
            Queued(b)' => Queued(b) /\ call[b].ahead \ {c} \in SUBSET call'[b].ahead
    BY <1>0, <1>2, OthersStay DEF Queued, InQueue
  <2>2. ASSUME NEW a \in Callers \ {c}, NEW b \in Callers \ {c},
               a # b, Queued(a)', Queued(b)'
        PROVE  a \in call'[b].ahead \/ b \in call'[a].ahead
    BY <1>0, <2>1, <2>2 DEF InTurn
  <2>3. QED
    BY <1>2, <2>2 DEF InTurn
<1>3. ASSUME NEW c \in Callers, Quiet(c)
      PROVE  InTurn'
  <2>1. /\ Keeps(c) /\ \A b \in Callers \ {c} : call'[b] = call[b]
        /\ Queued(c)' => Queued(c) /\ call'[c].ahead = call[c].ahead
    BY <1>3 DEF Quiet, Alone, Queued
  <2>2. ASSUME NEW b \in Callers \ {c}, Queued(c)', Queued(b)'
        PROVE  b \in call'[c].ahead \/ c \in call'[b].ahead
    BY <1>0, <2>1, <2>2 DEF InTurn, Queued
  <2>3. QED
    BY <1>2, <2>1, <2>2
<1>4. ASSUME NEW c \in Callers, OpenFile(c)
      PROVE  InTurn'
  <2>1. Keeps(c) /\ ~Queued(c)'
    BY <1>0, <1>4, OpenStep DEF Queued, InQueue
  <2>2. QED
    BY <1>2, <2>1
<1>5. ASSUME NEW c \in Callers, CloseFile(c)
      PROVE  InTurn'
  <2>1. Keeps(c) /\ call[c] # Idle /\ call'[c].ahead = Ahead(c)
    BY <1>0, <1>5, CloseStep
  <2>2. ASSUME NEW b \in Callers \ {c}, Queued(b)'
        PROVE  b \in call'[c].ahead
    <3>1. Queued(b)
      BY <1>0, <2>1, <2>2, OthersStay
    <3>2. \A a \in Callers : call[a] # Idle => call[a].finder \in Finders
      BY <1>0, SaneActive DEF Moment, Sane, Active
    <3>3. call[b].finder = call[c].finder
      BY <2>1, <3>1, <3>2, IdleStage DEF OneFinder, Queued, InQueue
    <3>4. QED
      BY <2>1, <3>1, <3>3 DEF Ahead
  <2>3. QED
    BY <1>2, <2>1, <2>2
<1>6. ASSUME NEW c \in Callers, Rename(c)
      PROVE  InTurn'
  <2>1. Keeps(c) /\ ~Queued(c)'
    BY <1>0, <1>6, RenameStep, IdleStage DEF Queued, InQueue
  <2>2. QED
    BY <1>2, <2>1
<1>7. ASSUME NEW c \in Callers, WriteFails(c)
      PROVE  InTurn'
  <2>1. Keeps(c) /\ ~Queued(c)'
    BY <1>0, <1>7, FailStep, IdleStage DEF Queued, InQueue
  <2>2. QED
    BY <1>2, <2>1
<1>8. QED
  BY <1>0, <1>1, <1>3, <1>4, <1>5, <1>6, <1>7, StepKinds

\* While one call renames, no other one has read the index.
LEMMA OneAtATime ==
  ASSUME TurnInv, NEW b \in Callers, NEW c \in Callers, b # c,
         call[c].pc \in {"merging", "renaming"}
  PROVE  call[b].pc \notin {"merging", "renaming"}
BY DEF TurnInv, InTurn, UpToDate, Queued, InQueue

LEMMA UpToDateStays ==
  ASSUME TurnInv, Step
  PROVE  UpToDate'
PROOF
<1>0. Moment /\ UpToDate
  BY DEF TurnInv
<1>1. CASE Crash
  BY <1>1, IdleStage DEF Crash, UpToDate
<1>2. ASSUME NEW c \in Callers, Keeps(c),
             \/ index' = index
             \/ call[c].pc = "renaming",
             call'[c].pc \in {"merging", "renaming"} =>
                 call'[c].ahead = {} /\ Current(c)'
      PROVE  UpToDate'
  <2> SUFFICES ASSUME NEW b \in Callers, call'[b].pc \in {"merging", "renaming"}
               PROVE  call'[b].ahead = {} /\ Current(b)'
    BY DEF UpToDate, Current
  <2>1. CASE b = c
    BY <1>2, <2>1
  <2>2. CASE b # c
    <3>1. call[b].pc \in {"merging", "renaming"}
          /\ call'[b].snap = call[b].snap /\ call'[b].blind = call[b].blind
          /\ call'[b].ahead \in SUBSET call[b].ahead
      BY <1>0, <1>2, <2>2, OthersStay
    <3>2. call[b].ahead = {} /\ Current(b)
      BY <1>0, <3>1 DEF UpToDate
    <3>3. call[c].pc # "renaming"
      BY <2>2, <3>1, OneAtATime
    <3>4. QED
      BY <1>2, <3>1, <3>2, <3>3 DEF Current
  <2>3. QED
    BY <2>1, <2>2
<1>3. ASSUME NEW c \in Callers, Quiet(c)
      PROVE  UpToDate'
  <2>1. Keeps(c) /\ index' = index
    BY <1>3 DEF Quiet
  <2>2. call'[c].pc \in {"merging", "renaming"} =>
          call'[c].ahead = {} /\ Current(c)'
    BY <1>0, <1>3 DEF Quiet, UpToDate, Current, InQueue
  <2>3. QED
    BY <1>2, <2>1, <2>2
<1>4. ASSUME NEW c \in Callers, OpenFile(c) \/ CloseFile(c)
      PROVE  UpToDate'
  <2>1. Keeps(c) /\ index' = index /\ call'[c].pc \notin {"merging", "renaming"}
    BY <1>0, <1>4, OpenStep, CloseStep
  <2>2. QED
    BY <1>2, <2>1
<1>5. ASSUME NEW c \in Callers, Rename(c)
      PROVE  UpToDate'
  <2>1. Keeps(c) /\ call[c].pc = "renaming"
        /\ call'[c].pc \notin {"merging", "renaming"}
    BY <1>0, <1>5, RenameStep, IdleStage
  <2>2. QED
    BY <1>2, <2>1
<1>6. ASSUME NEW c \in Callers, WriteFails(c)
      PROVE  UpToDate'
  <2>1. Keeps(c) /\ index' = index /\ call'[c].pc \notin {"merging", "renaming"}
    BY <1>0, <1>6, FailStep, IdleStage
  <2>2. QED
    BY <1>2, <2>1
<1>7. QED
  BY <1>0, <1>1, <1>3, <1>4, <1>5, <1>6, StepKinds

\* No step takes a file out of the index, but an update that could not read it.
LEMMA KeepsFiles ==
  ASSUME TurnInv, Step, ~Blindly, NEW e \in index
  PROVE  \E x \in index' : FileOf(x) = FileOf(e)
PROOF
<1>0. Moment /\ UpToDate
  BY DEF TurnInv
<1>1. CASE index' = index
  BY <1>1
<1>2. ASSUME NEW c \in Callers, Rename(c)
      PROVE  \E x \in index' : FileOf(x) = FileOf(e)
  <2>1. index' = Replacing(index, call[c].entry)
    BY <1>0, <1>2, RenameStep DEF UpToDate, Current, Blindly
  <2>2. QED
    BY <2>1 DEF Replacing
<1>3. ASSUME NEW c \in Callers, Quiet(c) \/ OpenFile(c) \/ CloseFile(c) \/ WriteFails(c)
      PROVE  index' = index
  BY <1>0, <1>3, OpenStep, CloseStep, FailStep DEF Quiet
<1>4. Crash => index' = index
  BY DEF Crash
<1>5. QED
  BY <1>0, <1>1, <1>2, <1>3, <1>4, StepKinds

\* What the histories note.
Noting == named' = named \cup {FileOf(e) : e \in index'}

LEMMA OnceNamedStays ==
  ASSUME TurnInv, Step, Noting
  PROVE  OnceNamed'
PROOF
<1>0. Moment /\ OnceNamed /\ AllNoted /\ \A f \in named : f \in named'
  BY DEF TurnInv, Noting
<1>1. CASE Crash
  BY <1>1, IdleStage DEF Crash, OnceNamed
<1>2. ASSUME NEW c \in Callers, Keeps(c),
             call'[c].pc = "read" =>
                 /\ call'[c].entry \in index
                 /\ call'[c].entry.device = call'[c].device
      PROVE  OnceNamed'
  <2> SUFFICES ASSUME NEW b \in Callers, call'[b].pc = "read"
               PROVE  /\ call'[b].entry.device = call'[b].device
                      /\ FileOf(call'[b].entry) \in named'
    BY DEF OnceNamed, FileOf
  <2>1. CASE b = c
    BY <1>0, <1>2, <2>1 DEF AllNoted
  <2>2. CASE b # c
    <3>1. /\ call[b].pc = "read" /\ call'[b].entry = call[b].entry
          /\ call'[b].device = call[b].device
      BY <1>0, <1>2, <2>2, OthersStay
    <3>2. QED
      BY <1>0, <3>1 DEF OnceNamed
  <2>3. QED
    BY <2>1, <2>2
<1>3. ASSUME NEW c \in Callers, Quiet(c)
      PROVE  OnceNamed'
  <2>1. /\ Keeps(c)
        /\ call'[c].pc = "read" =>
             call'[c].entry \in index /\ call'[c].entry.device = call'[c].device
    BY <1>3 DEF Quiet
  <2>2. QED
    BY <1>2, <2>1
<1>4. ASSUME NEW c \in Callers, OpenFile(c) \/ CloseFile(c) \/ Rename(c) \/ WriteFails(c)
      PROVE  OnceNamed'
  <2>1. Keeps(c) /\ call'[c].pc # "read"
    BY <1>0, <1>4, OpenStep, CloseStep, RenameStep, FailStep, IdleStage
  <2>2. QED
    BY <1>2, <2>1
<1>5. QED
  BY <1>0, <1>1, <1>3, <1>4, StepKinds

LEMMA AllNotedStays ==
  ASSUME Noting
  PROVE  AllNoted'
BY DEF Noting, AllNoted, FileOf

LEMMA TurnInvariant ==
  ASSUME OneFinder
  PROVE  Spec => []TurnInv
PROOF
<1>1. Init => TurnInv
  <2> SUFFICES ASSUME Init
               PROVE  TurnInv
    OBVIOUS
  <2>1. \A c \in Callers : call[c] = Idle
    BY DEF Init
  <2>2. QED
    BY <2>1, MomentFirst, IdleStage
       DEF Init, TurnInv, InTurn, UpToDate, OnceNamed, AllNoted, Queued, InQueue
<1>2. TurnInv /\ [Next]_vars => TurnInv'
  <2> SUFFICES ASSUME TurnInv, [Next]_vars
               PROVE  TurnInv'
    OBVIOUS
  <2>1. CASE UNCHANGED vars
    BY <2>1 DEF vars, TurnInv, Moment, Others, InTurn, UpToDate, Current, OnceNamed,
                AllNoted, Queued
  <2>2. CASE Step /\ Noting
    BY <2>2, MomentKept, InTurnStays, UpToDateStays, OnceNamedStays, AllNotedStays
       DEF TurnInv
  <2>3. CASE Falter /\ Noting
    <3>1. Moment' /\ AllNoted' /\ UNCHANGED <<index, call>>
          /\ \A f \in named : f \in named'
      BY <2>3, MomentFalters, AllNotedStays DEF TurnInv, Falter, Noting
    <3>2. InTurn' /\ UpToDate' /\ OnceNamed'
      BY <3>1 DEF TurnInv, InTurn, UpToDate, Current, OnceNamed, Queued, FileOf
    <3>3. QED
      BY <3>1, <3>2 DEF TurnInv
  <2>4. QED
    BY <2>1, <2>2, <2>3 DEF Next, Noting
<1>3. QED
  BY <1>1, <1>2, PTL DEF Spec

\* With one finder an update takes a file out of the index only if its own read
\* of the index failed: whatever else interleaves, what a call has added no
\* later update overwrites.
THEOREM NothingIsForgotten ==
  ASSUME OneFinder
  PROVE  Spec => NothingForgotten
PROOF
<1>1. TurnInv /\ [Next]_vars =>
        [\/ \A e \in index : \E x \in index' : FileOf(x) = FileOf(e)
         \/ Blindly]_index
  BY KeepsFiles DEF Next, Falter, vars
<1>2. QED
  BY <1>1, TurnInvariant, PTL DEF Spec, NothingForgotten

\* With one finder the folder is one catalogue to which entries are added whole
\* and one at a time, whatever calls are under way and whenever they fail or
\* the process crashes; what a call is told names what it holds or held.  An
\* update whose read of the index failed starts it over.
THEOREM ImplementsCatalogue ==
  ASSUME OneFinder
  PROVE  Spec => IsCatalogue
PROOF
<1> DEFINE outer == <<index, named, told>>
<1> USE DEF Catalogue!FileOf, Catalogue!Replacing
<1>1. Init => Catalogue!Init
  <2>1. {FileOf(e) : e \in {}} = {}
    OBVIOUS
  <2>2. QED
    BY <2>1 DEF Init, Catalogue!Init, FileOf
<1>2. TurnInv /\ [Next]_vars => [Catalogue!Next]_outer
  <2> SUFFICES ASSUME TurnInv, [Next]_vars
               PROVE  [Catalogue!Next]_outer
    OBVIOUS
  <2>0. Moment /\ UpToDate /\ OnceNamed /\ AllNoted
    BY DEF TurnInv
  <2>1. CASE UNCHANGED vars
    BY <2>1 DEF vars
  <2>s. ASSUME Noting, index' = index
        PROVE  named' = named
    BY <2>0, <2>s DEF Noting, AllNoted
  <2>2. CASE Noting /\ Crash
    <3>1. index' = index /\ named' = named
      BY <2>2, <2>s DEF Crash
    <3>2. QED
      BY <2>2, <3>1 DEF Crash, Catalogue!Next, Catalogue!Restart
  <2>3. ASSUME NEW c \in Callers, NEW answer \in {Refused, Nothing}, Noting, index' = index,
               told' = [told EXCEPT ![c] = answer]
        PROVE  Catalogue!Next
    BY <2>s, <2>3 DEF Catalogue!Next, Catalogue!Clear
  <2>4. ASSUME NEW c \in Callers, Noting, Quiet(c)
        PROVE  [Catalogue!Next]_outer
    <3>1. index' = index /\ named' = named /\ Tells(c)
      BY <2>s, <2>4 DEF Quiet
    <3>2. CASE call[c].pc = "read" /\ told' = [told EXCEPT ![c] = FileOf(call[c].entry)]
      <4>1. call[c] \in Sane /\ call[c].pc \in Stages /\ call[c].pc \notin Early
        BY <2>0, <3>2 DEF Moment, Stages, Early
      <4>2. call[c].entry \in Entries
        BY <4>1, SaneActive
      <4>3. FileOf(call[c].entry) \in named
        BY <2>0, <3>2 DEF OnceNamed
      <4>4. Catalogue!Recall(c, call[c].entry)
        BY <3>1, <3>2, <4>3 DEF Catalogue!Recall, FileOf
      <4>5. QED
        BY <4>2, <4>4 DEF Catalogue!Next
    <3>3. QED
      BY <2>3, <2>4, <3>1, <3>2 DEF Tells
  <2>5. ASSUME NEW c \in Callers, Noting, OpenFile(c) \/ CloseFile(c)
        PROVE  UNCHANGED outer
    BY <2>0, <2>5, <2>s, OpenStep, CloseStep
  <2>6. ASSUME NEW c \in Callers, Noting, Rename(c)
        PROVE  Catalogue!Next
    <3>1. /\ call[c].entry \in Entries /\ call[c].pc = "renaming"
          /\ index' = Replacing(call[c].snap, call[c].entry)
          /\ told' = [told EXCEPT ![c] = FileOf(call[c].entry)]
      BY <2>0, <2>6, RenameStep
    <3>2. call[c].snap = index \/ call[c].snap = {}
      BY <2>0, <3>1 DEF UpToDate, Current
    <3>3. named' = named \cup {FileOf(call[c].entry)}
      <4>1. \A x \in index' : FileOf(x) \in named \/ x = call[c].entry
        BY <2>0, <3>1, <3>2 DEF Replacing, AllNoted
      <4>2. call[c].entry \in index'
        BY <3>1 DEF Replacing
      <4>3. QED
        BY <2>6, <4>1, <4>2 DEF Noting
    <3>4. Catalogue!Add(c, call[c].entry) \/ Catalogue!StartOver(c, call[c].entry)
      BY <3>1, <3>2, <3>3
         DEF Catalogue!Add, Catalogue!StartOver, Catalogue!Join, Replacing, FileOf
    <3>5. QED
      BY <3>1, <3>4 DEF Catalogue!Next
  <2>7. ASSUME NEW c \in Callers, Noting, WriteFails(c)
        PROVE  [Catalogue!Next]_outer
    <3>1. /\ index' = index /\ named' = named
          /\ told' = told \/ told' = [told EXCEPT ![c] = Refused]
      BY <2>0, <2>7, <2>s, FailStep
    <3>2. QED
      BY <2>3, <2>7, <3>1
  <2>8. CASE Noting /\ Step
    BY <2>0, <2>2, <2>4, <2>5, <2>6, <2>7, <2>8, StepKinds
  <2>9. CASE Noting /\ Falter
    BY <2>9, <2>s DEF Falter
  <2>10. QED
    BY <2>1, <2>8, <2>9 DEF Next, Noting
<1>3. QED
  BY <1>1, <1>2, TurnInvariant, PTL DEF Spec, IsCatalogue, Catalogue!Spec

-----------------------------------------------------------------------------
(* A stale entry beats no reading at all.                                  *)

\* The history has noted every moment without a copy at hand.
Noted == \A c \in Callers : Lacks(c) => c \in lacking

\* What a step tells a load: only the cache itself lets it down.
LEMMA RefusedBy ==
  ASSUME Moment, Step, NEW c \in Callers, call[c] # Idle, call[c].load,
         told[c] # Refused, told'[c] = Refused
  PROVE  FallBack(c) \/ ReadCached(c)
PROOF
<1>0. told \in [Callers -> Files \cup {Refused, Nothing}]
  BY DEF Moment, Others
<1>1. CASE Crash
  BY <1>1, FinderMarkers DEF Crash
<1>2. ASSUME NEW b \in Callers, NEW s, NEW load, NEW d, NEW f, NEW e,
             Start(b, s, load, d, f, e)
      PROVE  FALSE
  BY <1>0, <1>2, FinderMarkers DEF Start
<1>3. ASSUME NEW b \in Callers, Trouble(b)
      PROVE  FALSE
  BY <1>0, <1>3 DEF Trouble, End
<1>4. ASSUME NEW b \in Callers,
             \/ Lookup(b) \/ Search(b) \/ Download(b) \/ OpenFile(b)
             \/ CloseFile(b) \/ ReadIndex(b) \/ WriteTemporary(b)
      PROVE  FALSE
  <2>1. told' = told \/ Trouble(b)
    BY <1>4 DEF Lookup, Find, Choose, Search, Download, OpenFile, CloseFile,
                ReadIndex, WriteTemporary
  <2>2. QED
    BY <1>0, <1>3, <2>1
<1>5. ASSUME NEW b \in Callers, Rename(b)
      PROVE  FALSE
  <2>1. FileOf(call[b].entry) \in Files
        /\ told' = [told EXCEPT ![b] = FileOf(call[b].entry)]
    BY <1>5, RenameStep, FileTypes
  <2>2. QED
    BY <1>0, <2>1, FinderMarkers
<1>6. ASSUME NEW b \in Callers, WriteFails(b)
      PROVE  FALSE
  BY <1>0, <1>6 DEF WriteFails
<1>7. ASSUME NEW b \in Callers, FallBack(b) \/ ReadCached(b)
      PROVE  b = c
  <2>1. \/ told' = told
        \/ \E answer : told' = [told EXCEPT ![b] = answer]
    BY <1>7 DEF FallBack, Find, Choose, ReadCached, End
  <2>2. QED
    BY <1>0, <2>1
<1>8. QED
  BY <1>1, <1>2, <1>3, <1>4, <1>5, <1>6, <1>7, StepCases DEF Load, ImportPackage

\* The cache lets it down only when it is not at hand.
LEMMA RefusedLacking ==
  ASSUME TurnInv, NEW c \in Callers, call[c] # Idle,
         FallBack(c) \/ ReadCached(c), told[c] # Refused, told'[c] = Refused
  PROVE  Lacks(c)
PROOF
<1>0. /\ Moment /\ OnceNamed /\ index \in SUBSET Entries
      /\ told \in [Callers -> Files \cup {Refused, Nothing}]
  BY DEF TurnInv, Moment, Others
<1>1. CASE FallBack(c)
  <2>1. Hits(Read, call[c].device) = {}
    BY <1>0, <1>1 DEF FallBack, Find, Choose
  <2>2. ~readable \/ Hits(index, call[c].device) = {}
    BY <2>1 DEF Read
  <2>3. QED
    BY <2>2 DEF Lacks, AtHand
<1>2. CASE ReadCached(c)
  <2>1. call[c].pc = "read"
    BY <1>2 DEF ReadCached
  <2>2. call[c] \in Sane /\ call[c].pc \in Stages /\ call[c].pc \notin Early
    BY <1>0, <2>1 DEF Moment, Stages, Early
  <2>3. FileOf(call[c].entry) \in Files
    BY <2>2, SaneActive, FileTypes
  <2>4. ~readable \/ disk[FileOf(call[c].entry)] # "whole"
    BY <1>0, <1>2, <2>3, FinderMarkers DEF ReadCached, End
  <2>5. CASE ~readable \/ Dropped(c)
    BY <2>5 DEF Lacks, AtHand
  <2>6. CASE readable /\ ~Dropped(c)
    <3>1. PICK x \in index : FileOf(x) = FileOf(call[c].entry)
      BY <2>1, <2>6 DEF Dropped
    <3>2. x.device = call[c].device /\ disk[FileOf(x)] # "whole"
      BY <1>0, <2>1, <2>4, <2>6, <3>1 DEF FileOf, OnceNamed
    <3>3. QED
      BY <3>1, <3>2 DEF Lacks, AtHand, Hits
  <2>7. QED
    BY <2>5, <2>6
<1>3. QED
  BY <1>1, <1>2

LEMMA NotedAlways == Spec => []Noted
PROOF
<1>1. Init => Noted
  BY DEF Init, Noted, Lacks
<1>2. Noted /\ [Next]_vars => Noted'
  <2> SUFFICES ASSUME Noted, [Next]_vars
               PROVE  Noted'
    OBVIOUS
  <2>1. CASE UNCHANGED vars
    BY <2>1 DEF vars, Noted, Lacks, Dropped, AtHand, Hits
  <2>2. CASE Next
    BY <2>2 DEF Next, Noted
  <2>3. QED
    BY <2>1, <2>2
<1>3. QED
  BY <1>1, <1>2, PTL DEF Spec

\* With one finder a load is refused only if at some moment since it began the
\* folder could not be read, had no whole copy to offer, or lost the entry the
\* load had chosen to an update that could not read the index: neither a registry that does not answer
\* nor a package that does not parse nor a full disk costs a reading that the
\* cache could have given.
THEOREM StaleCopyServes ==
  ASSUME OneFinder
  PROVE  Spec => StaleBeatsNothing
PROOF
<1>1. TurnInv /\ Noted /\ [Next]_vars =>
        [\A c \in Callers :
           (/\ call[c] # Idle /\ call[c].load
            /\ told[c] = Nothing /\ told'[c] = Refused) => c \in lacking]_vars
  <2> SUFFICES ASSUME TurnInv, Noted, Next, NEW c \in Callers,
                      call[c] # Idle, call[c].load,
                      told[c] = Nothing, told'[c] = Refused
               PROVE  c \in lacking
    OBVIOUS
  <2>1. Moment /\ Step /\ told[c] # Refused
    BY FinderMarkers DEF TurnInv, Next, Falter
  <2>2. Lacks(c)
    BY <2>1, RefusedBy, RefusedLacking
  <2>3. QED
    BY <2>2 DEF Noted
<1>2. QED
  BY <1>1, NotedAlways, TurnInvariant, PTL DEF Spec, StaleBeatsNothing
=============================================================================
