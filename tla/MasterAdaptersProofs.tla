------------------------ MODULE MasterAdaptersProofs ------------------------
(***************************************************************************)
(* What the adapters promise, for any number of ports, devices, names and  *)
(* calls at once: a scan tells who is there and never takes an outage for  *)
(* an empty port, and a request goes to the device it was meant for.       *)
(***************************************************************************)
EXTENDS MasterAdapters, TLAPS

-----------------------------------------------------------------------------
(* Scans.                                                                   *)

Answers == Settled \cup {Pending}

\* A scan under way, and one that has its entry.
InScan == [pc : {"status", "identity"}, got : [Requests -> Answers],
           calm : BOOLEAN, vacant : BOOLEAN]
Ended == [pc : {"done"}, got : [Requests -> Answers],
          calm : BOOLEAN, vacant : BOOLEAN, entry : Entry]

LEMMA ScanShapes ==
  ASSUME NEW k \in {Resting} \cup Scanning
  PROVE  /\ k = Resting <=> k.pc = "idle"
         /\ k.pc \in {"idle", "status", "identity", "done"}
         /\ k.pc \in {"status", "identity"} => k \in InScan
         /\ k.pc = "done" => k \in Ended
BY DEF Resting, Scanning, InScan, Ended, Answers

LEMMA ScanParts ==
  ASSUME NEW k \in InScan \cup Ended
  PROVE  /\ k \in Scanning /\ k # Resting
         /\ k.got \in [Requests -> Answers]
         /\ k.calm \in BOOLEAN /\ k.vacant \in BOOLEAN
BY DEF Resting, Scanning, InScan, Ended, Answers

LEMMA SaysSettled ==
  ASSUME occupant \in Devices \cup {Nobody}, NEW r \in Requests
  PROVE  Says(r) \in Settled
BY DEF Says, Settled, Failures, Requests, IdRequests

LEMMA EntriesOK ==
  /\ Absent \in Entry
  /\ [kind |-> "error"] \in Entry /\ [kind |-> "unknown"] \in Entry
  /\ \A v, d \in Devices \cup {Nobody} :
       [kind |-> "present", vendorId |-> v, deviceId |-> d] \in Entry
BY DEF Absent, Entry

LEMMA Unanswers == Unanswered \in [Requests -> Answers]
BY DEF Unanswered, Answers

\* A step of one scan leaves the others alone.
LEMMA OneScan ==
  ASSUME scan \in [Scans -> {Resting} \cup Scanning], NEW s \in Scans,
         NEW t \in {Resting} \cup Scanning, scan' = [scan EXCEPT ![s] = t]
  PROVE  /\ scan' \in [Scans -> {Resting} \cup Scanning]
         /\ scan'[s] = t
         /\ \A o \in Scans \ {s} : scan'[o] = scan[o]
OBVIOUS

\* The record a scan that gets an entry ends with.
LEMMA Dones ==
  ASSUME NEW s \in Scans, scan[s] \in InScan, NEW e \in Entry
  PROVE  LET t == [pc |-> "done", got |-> scan[s].got, calm |-> scan[s].calm,
                   vacant |-> scan[s].vacant, entry |-> e] IN
         /\ t \in Ended /\ t.pc = "done" /\ t.got = scan[s].got
         /\ t.calm = scan[s].calm /\ t.vacant = scan[s].vacant /\ t.entry = e
BY DEF InScan, Ended

-----------------------------------------------------------------------------
(* What holds of a scan at every moment.                                    *)

Going(s) == scan[s].pc # "idle"

\* A port without a device is known to have been without one.
EmptySeen(s) == Going(s) /\ occupant = Nobody => scan[s].vacant

\* What the master can have said of the port, which was true when it said so.
StatusTrue(s) ==
    Going(s) =>
      /\ scan[s].got["status"] \in {Pending, "connected", "vacant"} \cup Failures
      /\ scan[s].got["mode"] \in {Pending, "mode"} \cup Failures
      /\ scan[s].got["status"] = "vacant" => scan[s].vacant

\* Of an undisturbed scan it is still true.
CalmTrue(s) ==
    Going(s) /\ scan[s].calm =>
      /\ scan[s].got["status"] \notin Failures /\ scan[s].got["mode"] \notin Failures
      /\ scan[s].got["status"] = "connected" => occupant # Nobody

\* The ids of an undisturbed scan are those of the device on the port.
IdsTrue(s) ==
    /\ scan[s].pc = "status" => \A r \in IdRequests : scan[s].got[r] = Pending
    /\ scan[s].pc = "identity" =>
         /\ scan[s].got["status"] = "connected"
         /\ scan[s].calm => \A r \in IdRequests :
              \/ scan[s].got[r] \in {Pending, occupant}
              \/ profile = "generic" /\ r \in unsupported

EmptyEntry(s) ==
    (Finished(s) /\ scan[s].entry.kind = "absent") =>
        \/ scan[s].vacant
        \/ scan[s].got["status"] = "refused"
        \/ scan[s].got["status"] = "lost" /\ scan[s].got["mode"] = "mode"

WholeEntry(s) ==
    (Finished(s) /\ scan[s].calm) =>
        \/ scan[s].vacant /\ scan[s].entry = Absent
        \/ StatusUnknown /\ scan[s].entry.kind = "unknown"
        \/ /\ scan[s].entry.kind = "present"
           /\ \A r \in IdRequests \ (IF profile = "generic" THEN refusedOnce ELSE {}) :
                LET id == IF r = "vendorId" THEN scan[s].entry.vendorId
                          ELSE scan[s].entry.deviceId
                IN id = occupant

Good(s) == EmptySeen(s) /\ StatusTrue(s) /\ CalmTrue(s) /\ IdsTrue(s)
           /\ EmptyEntry(s) /\ WholeEntry(s)

ScanIInv ==
    /\ ScanTypeOK
    /\ unsupported \subseteq refusedOnce
    /\ \A s \in Scans : Good(s)

\* Nothing that happens to another scan spoils this one.
Learnt == /\ UNCHANGED <<profile, occupant>>
          /\ unsupported \subseteq unsupported' /\ refusedOnce \subseteq refusedOnce'

LEMMA StaysGood ==
  ASSUME NEW s \in Scans, Good(s), Learnt, scan'[s] = scan[s]
  PROVE  Good(s)'
<1>1. EmptySeen(s)' /\ StatusTrue(s)' /\ CalmTrue(s)' /\ EmptyEntry(s)'
  BY DEF Good, Learnt, EmptySeen, StatusTrue, CalmTrue, EmptyEntry, Going, Finished
<1>2. IdsTrue(s)'
  BY DEF Good, Learnt, IdsTrue
<1>3. WholeEntry(s)'
  BY DEF Good, Learnt, WholeEntry, Finished, StatusUnknown
<1>4. QED
  BY <1>1, <1>2, <1>3 DEF Good

LEMMA ScanInitOK ==
  ASSUME ScanInit
  PROVE  ScanIInv
<1>1. ScanTypeOK
  BY DEF ScanInit, ScanTypeOK
<1>2. \A s \in Scans : scan[s].pc = "idle"
  BY DEF ScanInit, Resting
<1>3. \A s \in Scans : Good(s)
  BY <1>2 DEF Good, EmptySeen, StatusTrue, CalmTrue, IdsTrue, EmptyEntry, WholeEntry,
              Going, Finished
<1>4. QED
  BY <1>1, <1>3 DEF ScanIInv, ScanInit

\* A step of scan s that leaves the port alone.
LEMMA StepOf ==
  ASSUME ScanIInv, Learnt, NEW s \in Scans, NEW t \in {Resting} \cup Scanning,
         scan' = [scan EXCEPT ![s] = t],
         unsupported' \in SUBSET Optional, refusedOnce' \in SUBSET Optional,
         unsupported' \subseteq refusedOnce', Good(s)'
  PROVE  ScanIInv'
<1>1. /\ scan' \in [Scans -> {Resting} \cup Scanning]
      /\ \A o \in Scans \ {s} : scan'[o] = scan[o]
  BY OneScan DEF ScanIInv, ScanTypeOK
<1>2. \A o \in Scans \ {s} : Good(o)'
  BY <1>1, StaysGood DEF ScanIInv
<1>3. ScanTypeOK'
  BY <1>1 DEF ScanIInv, ScanTypeOK, Learnt
<1>4. QED
  BY <1>2, <1>3 DEF ScanIInv

LEMMA RestOK ==
  ASSUME NEW s \in Scans, scan'[s] = Resting
  PROVE  Good(s)'
BY DEF Resting, Good, EmptySeen, StatusTrue, CalmTrue, IdsTrue, EmptyEntry, WholeEntry,
       Going, Finished

LEMMA ScanOK ==
  ASSUME ScanIInv, NEW s \in Scans, Scan(s), UNCHANGED profile
  PROVE  ScanIInv'
<1> DEFINE v == occupant = Nobody
           t == [pc |-> "status", got |-> Unanswered, calm |-> TRUE, vacant |-> v]
<1>a. v \in BOOLEAN /\ (occupant = Nobody => v)
  OBVIOUS
<1> HIDE DEF v
<1>1. t \in InScan /\ t.pc = "status" /\ t.got = Unanswered /\ t.calm /\ (t.vacant <=> v)
  BY Unanswers, <1>a DEF InScan
<1>2. t \in {Resting} \cup Scanning
  BY <1>1, ScanParts
<1>3. scan' = [scan EXCEPT ![s] = t] /\ UNCHANGED <<occupant, unsupported, refusedOnce>>
  BY DEF Scan, v
<1>4. scan'[s] = t
  BY <1>2, <1>3, OneScan DEF ScanIInv, ScanTypeOK
<1> HIDE DEF t
<1>5. \A r \in Requests : t.got[r] = Pending
  BY <1>1 DEF Unanswered
<1>6. Pending \notin {"vacant", "connected"} \cup Failures
  BY DEF Pending, Failures
<1>7. Good(s)'
  BY <1>a, <1>1, <1>3, <1>4, <1>5, <1>6
     DEF Good, EmptySeen, StatusTrue, CalmTrue, IdsTrue, EmptyEntry, WholeEntry,
         Going, Finished, Requests
<1>8. Learnt
  BY <1>3 DEF Learnt
<1>9. QED
  BY <1>2, <1>3, <1>7, <1>8, StepOf DEF ScanIInv, ScanTypeOK

\* An answer or a failure, and what it says.
LEMMA OutcomeTrue ==
  ASSUME ScanIInv, NEW s \in Scans, NEW r \in Asked(s), scan[s].pc \in {"status", "identity"},
         NEW o \in {Says(r)} \cup Failures
  PROVE  /\ r \in Requests /\ o \in Answers
         /\ r = "status" => /\ o \in {"connected", "vacant"} \cup Failures
                            /\ o = "vacant" => occupant = Nobody
                            /\ o = "connected" => occupant # Nobody
         /\ r = "mode" => o \in {"mode"} \cup Failures
         /\ r \in IdRequests => o = occupant \/ o \in Failures
         /\ scan[s].pc = "status" => r \notin IdRequests
         /\ scan[s].pc = "identity" => r \in IdRequests /\ r \notin {"status", "mode"}
<1>1. r \in Requests
  BY DEF Asked, StatusRequests, Requests
<1>2. o \in Answers
  BY <1>1, SaysSettled DEF ScanIInv, ScanTypeOK, Answers, Settled, Failures
<1>3. /\ scan[s].pc = "status" => r \notin IdRequests
      /\ scan[s].pc = "identity" => r \in IdRequests /\ r \notin {"status", "mode"}
  BY DEF Asked, StatusRequests, IdRequests
<1>4. /\ r = "status" => /\ o \in {"connected", "vacant"} \cup Failures
                         /\ o = "vacant" => occupant = Nobody
                         /\ o = "connected" => occupant # Nobody
      /\ r = "mode" => o \in {"mode"} \cup Failures
      /\ r \in IdRequests => o = occupant \/ o \in Failures
  BY DEF Says, Failures, IdRequests
<1>5. QED
  BY <1>1, <1>2, <1>3, <1>4

LEMMA SettleOK ==
  ASSUME ScanIInv, NEW s \in Scans, NEW r \in Requests, Settle(s, r), UNCHANGED profile
  PROVE  ScanIInv'
<1> DEFINE k == scan[s]
<1>1. PICK o \in {Says(r)} \cup Failures :
        /\ scan' = [scan EXCEPT ![s].got[r] = o,
                                ![s].calm = scan[s].calm /\ o \notin Failures]
        /\ unsupported' = Unsupported(r, o)
        /\ refusedOnce' = IF r \in IdRequests /\ o = "refused"
                          THEN refusedOnce \cup {r} ELSE refusedOnce
  BY DEF Settle
<1>2. k.pc \in {"status", "identity"} /\ r \in Asked(s) /\ k.got[r] = Pending
      /\ UNCHANGED occupant
  BY DEF Settle
<1>3. k \in {Resting} \cup Scanning
  BY DEF ScanIInv, ScanTypeOK
<1>4. k \in InScan
  BY <1>2, <1>3, ScanShapes
<1> DEFINE b == k.calm /\ o \notin Failures
           g == [k.got EXCEPT ![r] = o]
           t == [k EXCEPT !.got = g, !.calm = b]
<1>5. b \in BOOLEAN
  OBVIOUS
<1>6. /\ o \in Answers
      /\ r = "status" => /\ o \in {"connected", "vacant"} \cup Failures
                         /\ o = "vacant" => occupant = Nobody
                         /\ o = "connected" => occupant # Nobody
      /\ r = "mode" => o \in {"mode"} \cup Failures
      /\ r \in IdRequests => o = occupant \/ o \in Failures
      /\ k.pc = "status" => r \notin IdRequests
      /\ k.pc = "identity" => r \in IdRequests /\ r \notin {"status", "mode"}
  BY <1>1, <1>2, OutcomeTrue
<1> HIDE DEF b
<1>7. /\ t \in InScan /\ t.pc = k.pc /\ t.calm = b /\ t.vacant = k.vacant
      /\ t.got = [k.got EXCEPT ![r] = o]
  <2>1. g \in [Requests -> Answers]
    BY <1>4, <1>6, ScanParts
  <2> HIDE DEF g, k
  <2>2. t \in InScan /\ t.pc = k.pc /\ t.got = g /\ t.calm = b /\ t.vacant = k.vacant
    BY <2>1, <1>4, <1>5 DEF InScan
  <2>3. QED
    BY <2>2 DEF g
<1>8. t \in {Resting} \cup Scanning
  BY <1>7, ScanParts
<1>9. scan' = [scan EXCEPT ![s] = t]
  BY <1>1 DEF b
<1> HIDE DEF t
<1>10. scan'[s] = t
  BY <1>8, <1>9, OneScan DEF ScanIInv, ScanTypeOK
<1>11. k.got \in [Requests -> Answers]
  BY <1>4, ScanParts
<1>12. t.got[r] = o /\ \A q \in Requests \ {r} : t.got[q] = k.got[q]
  BY <1>7, <1>11
<1>13. "status" \in Requests /\ "mode" \in Requests /\ IdRequests \subseteq Requests
  BY DEF Requests
<1>14. Good(s)
  BY DEF ScanIInv
<1>15. /\ unsupported \subseteq unsupported' /\ refusedOnce \subseteq refusedOnce'
       /\ unsupported' \in SUBSET Optional /\ refusedOnce' \in SUBSET Optional
       /\ unsupported' \subseteq refusedOnce'
  BY <1>1 DEF Unsupported, ScanIInv, ScanTypeOK, Optional
<1>16. Learnt
  BY <1>2, <1>15 DEF Learnt
<1>17. Going(s) /\ Going(s)' /\ ~Finished(s)'
  BY <1>2, <1>7, <1>10 DEF Going, Finished
<1>18. EmptySeen(s)'
  BY <1>2, <1>7, <1>10, <1>14, <1>17 DEF Good, EmptySeen
<1>19. StatusTrue(s)'
  BY <1>2, <1>6, <1>7, <1>10, <1>12, <1>13, <1>14, <1>17
     DEF Good, StatusTrue, EmptySeen, Failures
<1>20. CalmTrue(s)'
  BY <1>2, <1>6, <1>7, <1>10, <1>12, <1>13, <1>14, <1>17 DEF Good, CalmTrue, b
<1>21. IdsTrue(s)'
  <2>1. CASE k.pc = "status"
    BY <2>1, <1>6, <1>7, <1>10, <1>12, <1>13, <1>14 DEF Good, IdsTrue
  <2>2. CASE k.pc = "identity"
    <3>1. t.got["status"] = "connected"
      BY <2>2, <1>6, <1>12, <1>13, <1>14 DEF Good, IdsTrue
    <3>2. ASSUME t.calm, NEW q \in IdRequests
          PROVE  t.got[q] \in {Pending, occupant} \/ (profile = "generic" /\ q \in unsupported)
      <4>1. CASE q = r
        <5>1. o \notin Failures /\ o = occupant
          BY <3>2, <2>2, <1>6, <1>7 DEF b
        <5>2. QED
          BY <5>1, <4>1, <1>12
      <4>2. CASE q # r
        <5>1. k.calm
          BY <3>2, <1>7 DEF b
        <5>2. k.got[q] \in {Pending, occupant} \/ (profile = "generic" /\ q \in unsupported)
          BY <5>1, <2>2, <1>14 DEF Good, IdsTrue
        <5>3. q \in Requests \ {r}
          BY <4>2, <1>13
        <5>4. QED
          BY <5>2, <5>3, <1>12
      <4>3. QED
        BY <4>1, <4>2
    <3>3. QED
      BY <2>2, <3>1, <3>2, <1>2, <1>7, <1>10, <1>15 DEF IdsTrue
  <2>3. QED
    BY <2>1, <2>2, <1>2
<1>22. Good(s)'
  BY <1>17, <1>18, <1>19, <1>20, <1>21 DEF Good, EmptyEntry, WholeEntry
<1>23. QED
  BY <1>8, <1>9, <1>15, <1>16, <1>22, StepOf

\* An entry that is as good as the invariant says ends a scan well.
LEMMA DoneOK ==
  ASSUME ScanIInv, NEW s \in Scans, NEW e \in Entry, Done(s, e),
         scan[s].pc \in {"status", "identity"},
         UNCHANGED <<profile, occupant, unsupported, refusedOnce>>,
         e.kind = "absent" => \/ scan[s].vacant
                              \/ scan[s].got["status"] = "refused"
                              \/ /\ scan[s].got["status"] = "lost"
                                 /\ scan[s].got["mode"] = "mode",
         scan[s].calm =>
            \/ scan[s].vacant /\ e = Absent
            \/ StatusUnknown /\ e.kind = "unknown"
            \/ /\ e.kind = "present"
               /\ \A r \in IdRequests \ (IF profile = "generic" THEN refusedOnce ELSE {}) :
                    LET id == IF r = "vendorId" THEN e.vendorId ELSE e.deviceId
                    IN id = occupant
  PROVE  ScanIInv'
<1> DEFINE k == scan[s]
           t == [pc |-> "done", got |-> k.got, calm |-> k.calm, vacant |-> k.vacant,
                 entry |-> e]
<1>1. k \in {Resting} \cup Scanning
  BY DEF ScanIInv, ScanTypeOK
<1>2. k \in InScan
  BY <1>1, ScanShapes
<1>3. /\ t \in Ended /\ t.pc = "done" /\ t.got = k.got
      /\ t.calm = k.calm /\ t.vacant = k.vacant /\ t.entry = e
  BY <1>2, Dones
<1>4. t \in {Resting} \cup Scanning
  BY <1>3, ScanParts
<1>5. scan' = [scan EXCEPT ![s] = t]
  BY DEF Done
<1> HIDE DEF t
<1>6. scan'[s] = t
  BY <1>4, <1>5, OneScan DEF ScanIInv, ScanTypeOK
<1>7. Good(s) /\ Going(s)
  BY DEF ScanIInv, Going
<1>8. EmptySeen(s)' /\ StatusTrue(s)' /\ CalmTrue(s)' /\ IdsTrue(s)'
  BY <1>3, <1>6, <1>7 DEF Good, EmptySeen, StatusTrue, CalmTrue, IdsTrue, Going
<1>9. EmptyEntry(s)'
  BY <1>3, <1>6 DEF EmptyEntry, Finished
<1>10. WholeEntry(s)'
  BY <1>3, <1>6 DEF WholeEntry, Finished, StatusUnknown
<1>11. Good(s)' /\ Learnt
  BY <1>8, <1>9, <1>10 DEF Good, Learnt
<1>12. QED
  BY <1>4, <1>5, <1>11, StepOf DEF ScanIInv, ScanTypeOK

LEMMA IdentifyOK ==
  ASSUME ScanIInv, NEW s \in Scans, Identify(s), scan[s].pc = "status",
         scan[s].got["status"] = "connected", ~StatusUnknown,
         UNCHANGED <<profile, occupant, unsupported, refusedOnce>>
  PROVE  ScanIInv'
<1> DEFINE k == scan[s]
           g == [r \in Requests |->
                   IF profile = "generic" /\ r \in unsupported THEN "unasked" ELSE k.got[r]]
           t == [k EXCEPT !.pc = "identity", !.got = g]
<1>1. k \in {Resting} \cup Scanning
  BY DEF ScanIInv, ScanTypeOK
<1>2. k \in InScan
  BY <1>1, ScanShapes
<1>3. k.got \in [Requests -> Answers] /\ "unasked" \in Answers
  BY <1>2, ScanParts DEF Answers, Settled
<1>4. g \in [Requests -> Answers]
  BY <1>3
<1>5. scan' = [scan EXCEPT ![s] = t]
  BY DEF Identify
<1>6. /\ \A r \in IdRequests : g[r] = k.got[r] \/ (profile = "generic" /\ r \in unsupported)
      /\ g["status"] = k.got["status"] /\ g["mode"] = k.got["mode"]
  BY DEF ScanIInv, ScanTypeOK, IdRequests, Requests, Optional, StatusUnknown
<1> HIDE DEF g
<1>7. t \in InScan /\ t.pc = "identity" /\ t.got = g /\ t.calm = k.calm /\ t.vacant = k.vacant
  BY <1>2, <1>4 DEF InScan
<1>8. t \in {Resting} \cup Scanning
  BY <1>7, ScanParts
<1> HIDE DEF t
<1>9. scan'[s] = t
  BY <1>5, <1>8, OneScan DEF ScanIInv, ScanTypeOK
<1>10. Good(s) /\ Going(s)
  BY DEF ScanIInv, Going
<1>11. EmptySeen(s)' /\ StatusTrue(s)' /\ CalmTrue(s)' /\ EmptyEntry(s)' /\ WholeEntry(s)'
  BY <1>6, <1>7, <1>9, <1>10
     DEF Good, EmptySeen, StatusTrue, CalmTrue, EmptyEntry, WholeEntry, Finished, Going
<1>12. IdsTrue(s)'
  BY <1>6, <1>7, <1>9, <1>10 DEF Good, IdsTrue
<1>13. Good(s)' /\ Learnt
  BY <1>11, <1>12 DEF Good, Learnt
<1>14. QED
  BY <1>5, <1>8, <1>13, StepOf DEF ScanIInv, ScanTypeOK

LEMMA StatusKnownOK ==
  ASSUME ScanIInv, NEW s \in Scans, StatusKnown(s), UNCHANGED profile
  PROVE  ScanIInv'
<1> DEFINE got == scan[s].got
<1>1. /\ scan[s].pc = "status" /\ UNCHANGED <<occupant, unsupported, refusedOnce>>
      /\ \A r \in StatusRequests : got[r] # Pending
  BY DEF StatusKnown
<1>2. Good(s) /\ Going(s)
  BY <1>1 DEF ScanIInv, Going
<1>3. CASE StatusUnknown
  <2>1. Done(s, [kind |-> "unknown"])
    BY <1>3 DEF StatusKnown
  <2>2. [kind |-> "unknown"].kind = "unknown"
    OBVIOUS
  <2>3. QED
    BY <1>1, <1>3, <2>1, <2>2, DoneOK, EntriesOK
<1>4. CASE ~StatusUnknown
  <2>1. "status" \in StatusRequests /\ StatusRequests \subseteq {"status", "mode"}
        /\ ("mode" \in StatusRequests => profile = "ifm")
    BY <1>4 DEF StatusRequests
  <2>2. /\ got["status"] \in {"connected", "vacant"} \cup Failures
        /\ got["mode"] \in {Pending, "mode"} \cup Failures
        /\ got["status"] = "vacant" => scan[s].vacant
        /\ scan[s].calm => got["status"] \notin Failures
    BY <1>1, <1>2, <2>1 DEF Good, StatusTrue, CalmTrue
  <2>3. \/ Throws(got) = "error" /\ Done(s, [kind |-> "error"])
        \/ Throws(got) = "absent" /\ Done(s, Absent)
        \/ Throws(got) = "nothing" /\ got["status"] = "connected" /\ Identify(s)
        \/ Throws(got) = "nothing" /\ got["status"] # "connected" /\ Done(s, Absent)
    BY <1>4 DEF StatusKnown, Throws
  <2>4. Throws(got) # "nothing" => got["status"] \in Failures
    BY <2>1 DEF Throws, NothingAnswered
  <2>5. CASE Throws(got) = "error" /\ Done(s, [kind |-> "error"])
    BY <1>1, <2>2, <2>4, <2>5, DoneOK, EntriesOK
  <2>6. CASE Throws(got) = "absent" /\ Done(s, Absent)
    <3>1. got["status"] = "refused"
      BY <2>6 DEF Throws
    <3>2. QED
      BY <1>1, <2>2, <2>4, <2>6, <3>1, DoneOK, EntriesOK
  <2>7. CASE Throws(got) = "nothing" /\ got["status"] = "connected" /\ Identify(s)
    BY <1>1, <1>4, <2>7, IdentifyOK
  <2>8. CASE Throws(got) = "nothing" /\ got["status"] # "connected" /\ Done(s, Absent)
    <3>1. \E r \in StatusRequests : got[r] \notin Failures
      BY <2>8 DEF Throws, NothingAnswered
    <3>2. got["status"] \notin Failures \/ ("mode" \in StatusRequests /\ got["mode"] \notin Failures)
      BY <2>1, <3>1
    <3>3. \/ got["status"] = "vacant" \/ got["status"] = "refused"
          \/ got["status"] = "lost" /\ got["mode"] = "mode"
      BY <1>1, <2>2, <2>8, <3>2 DEF Failures
    <3>4. scan[s].calm => scan[s].vacant
      BY <2>2, <2>8
    <3>5. QED
      BY <1>1, <2>2, <2>8, <3>3, <3>4, DoneOK, EntriesOK
  <2>9. QED
    BY <2>3, <2>5, <2>6, <2>7, <2>8
<1>5. QED
  BY <1>3, <1>4

LEMMA IdentityKnownOK ==
  ASSUME ScanIInv, NEW s \in Scans, IdentityKnown(s), UNCHANGED profile
  PROVE  ScanIInv'
<1> DEFINE got == scan[s].got
           v == Id(got, "vendorId")
           d == Id(got, "deviceId")
           e == [kind |-> "present", vendorId |-> v, deviceId |-> d]
<1>1. /\ scan[s].pc = "identity" /\ UNCHANGED <<occupant, unsupported, refusedOnce>>
      /\ \A r \in IdRequests : got[r] # Pending
      /\ Done(s, e)
  BY DEF IdentityKnown
<1>2. Good(s) /\ Going(s)
  BY <1>1 DEF ScanIInv, Going
<1>3. v \in Devices \cup {Nobody} /\ d \in Devices \cup {Nobody}
  BY DEF Id
<1>4. ASSUME scan[s].calm,
             NEW r \in IdRequests \ (IF profile = "generic" THEN refusedOnce ELSE {})
      PROVE  Id(got, r) = occupant
  <2>1. got[r] = occupant
    BY <1>1, <1>2, <1>4 DEF Good, IdsTrue, ScanIInv
  <2>2. occupant \in Devices
    BY <1>1, <1>2, <1>4 DEF Good, IdsTrue, CalmTrue, ScanIInv, ScanTypeOK
  <2>3. QED
    BY <2>1, <2>2 DEF Id
<1>5. e \in Entry
  BY <1>3, EntriesOK
<1>6. e.kind = "present" /\ e.vendorId = v /\ e.deviceId = d
  OBVIOUS
<1>7. \A r \in IdRequests : (IF r = "vendorId" THEN v ELSE d) = Id(got, r)
  BY DEF IdRequests
<1> HIDE DEF e, v, d
<1>8. QED
  BY <1>1, <1>4, <1>5, <1>6, <1>7, DoneOK

LEMMA ReturnOK ==
  ASSUME ScanIInv, NEW s \in Scans, Return(s), UNCHANGED profile
  PROVE  ScanIInv'
<1>1. scan' = [scan EXCEPT ![s] = Resting] /\ Learnt
      /\ UNCHANGED <<occupant, unsupported, refusedOnce>>
  BY DEF Return, Learnt
<1>2. scan'[s] = Resting
  BY <1>1, OneScan DEF ScanIInv, ScanTypeOK
<1>3. Good(s)'
  BY <1>2, RestOK
<1>4. QED
  BY <1>1, <1>3, StepOf DEF ScanIInv, ScanTypeOK

LEMMA ExchangeOK ==
  ASSUME ScanIInv, NEW d \in Devices \cup {Nobody}, Exchange(d), UNCHANGED profile
  PROVE  ScanIInv'
<1>1. /\ occupant' = d /\ UNCHANGED <<unsupported, refusedOnce>>
      /\ scan' = [s \in Scans |->
           IF scan[s] # Resting
           THEN [scan[s] EXCEPT !.calm = FALSE, !.vacant = scan[s].vacant \/ d = Nobody]
           ELSE scan[s]]
  BY DEF Exchange
<1>2. ASSUME NEW s \in Scans
      PROVE  scan'[s] \in {Resting} \cup Scanning /\ Good(s)'
  <2> DEFINE k == scan[s]
             v == k.vacant \/ d = Nobody
             t == [k EXCEPT !.calm = FALSE, !.vacant = v]
  <2>1. k \in {Resting} \cup Scanning
    BY DEF ScanIInv, ScanTypeOK
  <2>2. CASE k = Resting
    BY <1>1, <2>1, <2>2, RestOK
  <2>3. CASE k # Resting
    <3>1. scan'[s] = t
      BY <1>1, <2>3
    <3>2. k \in InScan \cup Ended /\ k.pc # "idle"
      BY <2>1, <2>3, ScanShapes
    <3>3. v \in BOOLEAN /\ (d = Nobody => v) /\ (k.vacant => v)
      BY <3>2, ScanParts
    <3> HIDE DEF v
    <3>4. /\ t \in InScan \cup Ended
          /\ t.pc = k.pc /\ t.got = k.got /\ ~t.calm /\ t.vacant = v
          /\ k.pc = "done" => t.entry = k.entry
      BY <3>2, <3>3 DEF InScan, Ended
    <3>5. t \in {Resting} \cup Scanning
      BY <3>4, ScanParts
    <3> HIDE DEF t
    <3>6. Good(s)
      BY DEF ScanIInv
    <3>7. EmptySeen(s)' /\ StatusTrue(s)' /\ CalmTrue(s)' /\ EmptyEntry(s)' /\ WholeEntry(s)'
      BY <1>1, <3>1, <3>2, <3>3, <3>4, <3>6
         DEF Good, EmptySeen, StatusTrue, CalmTrue, EmptyEntry, WholeEntry, Finished, Going
    <3>8. IdsTrue(s)'
      BY <1>1, <3>1, <3>4, <3>6 DEF Good, IdsTrue
    <3>9. QED
      BY <3>1, <3>5, <3>7, <3>8 DEF Good
  <2>4. QED
    BY <2>2, <2>3
<1>3. scan' \in [Scans -> {Resting} \cup Scanning]
  BY <1>1, <1>2
<1>4. QED
  BY <1>1, <1>2, <1>3 DEF ScanIInv, ScanTypeOK

LEMMA ScanStepOK ==
  ASSUME ScanIInv, ScanNext, UNCHANGED profile
  PROVE  ScanIInv'
BY ScanOK, SettleOK, StatusKnownOK, IdentityKnownOK, ReturnOK, ExchangeOK DEF ScanNext

LEMMA ScanStutter ==
  ASSUME ScanIInv, UNCHANGED <<profile, scanVars>>
  PROVE  ScanIInv'
<1>1. UNCHANGED <<occupant, unsupported, scan, refusedOnce>> /\ Learnt
  BY DEF scanVars, Learnt
<1>2. \A s \in Scans : Good(s)'
  BY <1>1, StaysGood DEF ScanIInv
<1>3. QED
  BY <1>1, <1>2 DEF ScanIInv, ScanTypeOK

-----------------------------------------------------------------------------
(* Calls.                                                                   *)

Stages == {"status", "listing", "listed", "asking"}

\* A call under way, and one that is over.
InCall == [pc : Stages, kind : Kinds, port : Ports, again : BOOLEAN,
           alias : Aliases \cup {Unlisted}, list : Tables,
           landed : 0 .. 2, excused : BOOLEAN, late : BOOLEAN]
Over == [pc : {"done"}, kind : Kinds, landed : 0 .. 2, excused : BOOLEAN,
         notFound : BOOLEAN, result : Results]

Calls == {Waiting} \cup AliasCalls

LEMMA CallShapes ==
  ASSUME NEW k \in Calls
  PROVE  /\ k = Waiting <=> k.pc = "idle"
         /\ k.pc \in Stages \cup {"idle", "done"}
         /\ k.pc \in Stages => k \in InCall
         /\ k.pc = "done" => k \in Over
BY DEF Calls, Waiting, AliasCalls, InCall, Over, Stages

LEMMA CallParts ==
  ASSUME NEW k \in InCall
  PROVE  /\ k \in Calls /\ k.pc \in Stages
         /\ k.kind \in Kinds /\ k.port \in Ports /\ k.again \in BOOLEAN
         /\ k.alias \in Aliases \cup {Unlisted} /\ k.list \in Tables
         /\ k.landed \in 0 .. 2 /\ k.excused \in BOOLEAN /\ k.late \in BOOLEAN
BY DEF Calls, AliasCalls, InCall, Stages

LEMMA OverParts ==
  ASSUME NEW k \in Over
  PROVE  /\ k \in Calls /\ k.pc = "done"
         /\ k.kind \in Kinds /\ k.landed \in 0 .. 2 /\ k.excused \in BOOLEAN
         /\ k.notFound \in BOOLEAN /\ k.result \in Results
BY DEF Calls, AliasCalls, Over

LEMMA UnderwayIs ==
  ASSUME NEW c \in Callers, call[c] \in Calls
  PROVE  Underway(c) <=> call[c].pc \in Stages
BY CallShapes DEF Underway, Stages

LEMMA TablesOK ==
  /\ Empty \in Tables
  /\ \A f \in Namings : f \in Tables /\ \A p \in Ports : f[p] \in Aliases /\ f[p] # Unlisted
  /\ \A t \in Tables, p \in Ports :
       /\ AliasOf(t, p) \in Aliases
       /\ AliasOf(t, p) = p \/ AliasOf(t, p) = t[p]
       /\ t[p] # Unlisted => AliasOf(t, p) = t[p]
       /\ t[p] = Unlisted => AliasOf(t, p) = p
<1>1. Empty \in Tables
  BY DEF Empty, Tables
<1>2. ASSUME NEW f \in Namings
      PROVE  f \in Tables /\ \A p \in Ports : f[p] \in Aliases /\ f[p] # Unlisted
  <2>1. f \in [Ports -> Aliases]
    BY DEF Namings
  <2>2. QED
    BY <2>1, AliasAssumption DEF Tables
<1>3. ASSUME NEW t \in Tables, NEW p \in Ports
      PROVE  /\ AliasOf(t, p) \in Aliases
             /\ AliasOf(t, p) = p \/ AliasOf(t, p) = t[p]
             /\ t[p] # Unlisted => AliasOf(t, p) = t[p]
             /\ t[p] = Unlisted => AliasOf(t, p) = p
  BY AliasAssumption DEF AliasOf, Tables
<1>4. QED
  BY <1>1, <1>2, <1>3

-----------------------------------------------------------------------------
(* What holds of the calls at every moment.                                 *)

\* Only what has found nobody is made again, so that nothing has landed yet.
Unlanded(c) == Underway(c) => call[c].landed = 0

\* A list is of names that are still true, or were renamed during the call.
ListTrue(c) ==
    call[c].pc = "listed" =>
      /\ call[c].list = names \/ sinceRename <= IF call[c].late THEN 1 ELSE 0
      /\ ~call[c].excused => call[c].list = names

\* A list is asked for when the table is emptied.
Recent(c) ==
    call[c].pc \in {"listing", "listed"} => age <= IF call[c].late THEN 1 ELSE 0

\* An alias was true when its table was filled, and its table was not stale.
AliasTrue(c) ==
    call[c].pc = "asking" =>
      \/ call[c].alias \in {call[c].port, names[call[c].port]}
      \/ sinceRename <= IF call[c].late THEN 3 ELSE 2

\* The second attempt goes by a list of its own.
SecondTry(c) ==
    Underway(c) /\ call[c].again =>
      /\ call[c].pc # "status"
      /\ call[c].pc = "asking" /\ ~call[c].excused => call[c].alias = names[call[c].port]

Told(c) ==
    call[c].pc = "done" =>
      /\ call[c].landed <= 1
      /\ call[c].kind = "write" /\ call[c].result = "ok" => call[c].landed = 1
      /\ call[c].notFound => call[c].excused

Fair(c) == Unlanded(c) /\ ListTrue(c) /\ Recent(c) /\ AliasTrue(c) /\ SecondTry(c) /\ Told(c)

\* What the table says is true, or too old to be used, or was when it was filled.
TableTrue ==
    \A p \in Ports :
      table[p] \in {Unlisted, names[p]} \/ age > MaxAge \/ sinceRename <= age + 1

AliasIInv == AliasTypeOK /\ TableTrue /\ \A c \in Callers : Fair(c)

\* A list that is put into a table makes a table.
LEMMA FilledOK ==
  ASSUME NEW t \in Tables, NEW list \in Tables, NEW given \in SUBSET Ports
  PROVE  /\ Filled(t, list, given) \in Tables
         /\ \A p \in given : Filled(t, list, given)[p] = list[p]
         /\ \A p \in Ports \ given : Filled(t, list, given)[p] = t[p]
BY DEF Filled, Tables

LEMMA AliasInitOK ==
  ASSUME AliasInit
  PROVE  AliasIInv
<1>1. AliasTypeOK
  BY TablesOK DEF AliasInit, AliasTypeOK, Ages, MaxAge, Linger
<1>2. TableTrue
  BY DEF AliasInit, TableTrue, Empty
<1>3. \A c \in Callers : call[c].pc = "idle"
  BY DEF AliasInit, Waiting
<1>4. \A c \in Callers : Fair(c)
  BY <1>3 DEF Fair, Unlanded, ListTrue, Recent, AliasTrue, SecondTry, Told, Underway
<1>5. QED
  BY <1>1, <1>2, <1>4 DEF AliasIInv

\* What is known of the numbers.
LEMMA Clocks ==
  ASSUME AliasIInv
  PROVE  /\ age \in 0 .. 2 /\ sinceRename \in 0 .. 4
         /\ Stale <=> age > 1
         /\ names \in Namings /\ table \in Tables /\ call \in [Callers -> Calls]
BY DEF AliasIInv, AliasTypeOK, Ages, MaxAge, Linger, Stale, Calls

\* Nothing that another call does spoils this one.
LEMMA StaysFair ==
  ASSUME AliasIInv, NEW c \in Callers, call'[c] = call[c],
         UNCHANGED <<names, sinceRename>>, age' \in {0, age}
  PROVE  Fair(c)'
<1>1. Fair(c) /\ age \in 0 .. 2
  BY Clocks DEF AliasIInv
<1>2. Unlanded(c)' /\ ListTrue(c)' /\ AliasTrue(c)' /\ SecondTry(c)' /\ Told(c)'
  BY <1>1 DEF Fair, Unlanded, ListTrue, AliasTrue, SecondTry, Told, Underway
<1>3. Recent(c)'
  BY <1>1 DEF Fair, Recent
<1>4. QED
  BY <1>2, <1>3 DEF Fair

\* A step of call c.
LEMMA CallStep ==
  ASSUME AliasIInv, NEW c \in Callers, NEW t \in Calls, call' = [call EXCEPT ![c] = t],
         UNCHANGED <<names, sinceRename>>, age' \in {0, age},
         table' \in Tables, TableTrue', Fair(c)'
  PROVE  AliasIInv'
<1>1. call \in [Callers -> Calls] /\ age \in 0 .. 2
  BY Clocks
<1>2. call' \in [Callers -> Calls] /\ \A o \in Callers \ {c} : call'[o] = call[o]
  BY <1>1
<1>3. \A o \in Callers \ {c} : Fair(o)'
  BY <1>2, StaysFair
<1>4. AliasTypeOK'
  BY <1>1, <1>2 DEF AliasIInv, AliasTypeOK, Calls, Ages, MaxAge
<1>5. QED
  BY <1>3, <1>4 DEF AliasIInv

LEMMA TableKept ==
  ASSUME AliasIInv, UNCHANGED <<names, sinceRename, table, age>>
  PROVE  table' \in Tables /\ TableTrue' /\ age' \in {0, age}
BY Clocks DEF AliasIInv, TableTrue

LEMMA EndsOK ==
  ASSUME AliasIInv, NEW c \in Callers, NEW t \in Over, call' = [call EXCEPT ![c] = t],
         t.landed <= 1, t.kind = "write" /\ t.result = "ok" => t.landed = 1,
         t.notFound => t.excused,
         UNCHANGED <<names, sinceRename, table, age>>
  PROVE  AliasIInv'
<1>1. t \in Calls /\ t.pc = "done"
  BY OverParts
<1>2. call'[c] = t
  BY <1>1, Clocks
<1>3. Fair(c)'
  BY <1>1, <1>2
     DEF Fair, Unlanded, ListTrue, Recent, AliasTrue, SecondTry, Told, Underway
<1>4. QED
  BY <1>1, <1>3, TableKept, CallStep

\* A call ends with a device that answers, or does not, but is there.
LEMMA FinishOK ==
  ASSUME AliasIInv, NEW c \in Callers, call[c] \in InCall,
         NEW r \in Results, NEW l \in 0 .. 1, Finish(c, r, FALSE, l),
         call[c].kind = "write" /\ r = "ok" => l = 1,
         UNCHANGED <<names, sinceRename, table, age>>
  PROVE  AliasIInv'
<1> DEFINE k == call[c]
           t == [pc |-> "done", kind |-> k.kind, landed |-> l, excused |-> FALSE,
                 notFound |-> FALSE, result |-> r]
<1>1. call' = [call EXCEPT ![c] = t]
  BY DEF Finish
<1>2. k.kind \in Kinds /\ k.excused \in BOOLEAN
  BY CallParts
<1>3. t \in Over /\ t.kind = k.kind /\ t.landed = l /\ ~t.notFound /\ t.result = r
  BY <1>2 DEF Over
<1> HIDE DEF t
<1>4. /\ t.landed <= 1 /\ (t.kind = "write" /\ t.result = "ok" => t.landed = 1)
      /\ t.notFound => t.excused
  BY <1>3
<1>5. t \in Over
  BY <1>3
<1> HIDE DEF k
<1>6. QED
  BY <1>1, <1>4, <1>5, EndsOK

\* Wherever a request goes out from, its alias is true or lately was.
LEMMA AddressOK ==
  ASSUME AliasIInv, NEW c \in Callers, NEW k \in InCall, NEW refresh \in BOOLEAN,
         k.landed = 0, k.again => refresh,
         Address(c, k, refresh), UNCHANGED <<names, sinceRename>>
  PROVE  AliasIInv'
<1>1. CASE refresh \/ Stale
  <2> DEFINE t == [k EXCEPT !.pc = "listing", !.alias = Unlisted]
  <2>1. table' = Empty /\ age' = 0 /\ call' = [call EXCEPT ![c] = t]
    BY <1>1 DEF Address
  <2>2. t \in InCall /\ t.pc = "listing" /\ t.landed = k.landed /\ t.late = k.late
    BY DEF InCall, Stages
  <2> HIDE DEF t
  <2>3. t \in Calls /\ t.late \in BOOLEAN
    BY <2>2, CallParts
  <2>4. call'[c] = t
    BY <2>1, <2>3, Clocks
  <2>5. Fair(c)'
    BY <2>1, <2>2, <2>3, <2>4
       DEF Fair, Unlanded, ListTrue, Recent, AliasTrue, SecondTry, Told, Underway
  <2>6. table' \in Tables /\ TableTrue'
    BY <2>1, TablesOK DEF TableTrue, Empty
  <2>7. QED
    BY <2>1, <2>3, <2>5, <2>6, CallStep
<1>2. CASE ~(refresh \/ Stale)
  <2> DEFINE a == AliasOf(table, k.port)
             t == [k EXCEPT !.pc = "asking", !.alias = a]
  <2>1. UNCHANGED <<table, age>> /\ call' = [call EXCEPT ![c] = t]
    BY <1>2 DEF Address
  <2>2. a \in Aliases /\ (a = k.port \/ (a = table[k.port] /\ table[k.port] # Unlisted))
    BY TablesOK, Clocks, CallParts
  <2> HIDE DEF a
  <2>3. /\ t \in InCall /\ t.pc = "asking" /\ t.landed = k.landed /\ t.late = k.late
        /\ t.again = k.again /\ t.port = k.port /\ t.alias = a
    BY <2>2 DEF InCall, Stages
  <2> HIDE DEF t
  <2>4. t \in Calls /\ t.late \in BOOLEAN /\ t.port \in Ports
    BY <2>3, CallParts
  <2>5. call'[c] = t
    BY <2>1, <2>4, Clocks
  <2>6. a \in {t.port, names[t.port]} \/ sinceRename <= 2
    <3>1. age \in 0 .. 1 /\ sinceRename \in 0 .. 4
      BY <1>2, Clocks
    <3>2. table[k.port] \in {Unlisted, names[k.port]} \/ sinceRename <= age + 1
      BY <3>1, <2>3, <2>4 DEF AliasIInv, TableTrue, MaxAge
    <3>3. CASE sinceRename <= age + 1
      BY <3>1, <3>3
    <3>4. CASE table[k.port] \in {Unlisted, names[k.port]}
      BY <2>2, <2>3, <3>4
    <3>5. QED
      BY <3>2, <3>3, <3>4
  <2>7. AliasTrue(c)'
    BY <2>3, <2>5, <2>6, Clocks DEF AliasTrue
  <2>8. Fair(c)'
    BY <1>2, <2>3, <2>5, <2>7
       DEF Fair, Unlanded, ListTrue, Recent, SecondTry, Told, Underway
  <2>9. QED
    BY <2>1, <2>4, <2>8, TableKept, CallStep
<1>3. QED
  BY <1>1, <1>2

LEMMA Stage ==
  ASSUME AliasIInv, NEW c \in Callers, call[c].pc \in Stages
  PROVE  /\ call[c] \in InCall /\ Underway(c) /\ Fair(c) /\ call[c].landed = 0
         /\ call[c].pc = "status" => ~call[c].again
<1>1. call[c] \in InCall /\ Underway(c)
  BY Clocks, CallShapes, UnderwayIs
<1>2. Fair(c)
  BY DEF AliasIInv
<1>3. QED
  BY <1>1, <1>2 DEF Fair, Unlanded, SecondTry

LEMMA CallOK ==
  ASSUME AliasIInv, NEW c \in Callers, NEW kind \in Kinds, NEW p \in Ports, Call(c, kind, p)
  PROVE  AliasIInv'
<1> DEFINE k == Fresh(kind, p)
<1>1. /\ k \in InCall /\ k.pc = "status" /\ k.landed = 0 /\ ~k.again
  BY TablesOK DEF Fresh, InCall, Stages
<1> HIDE DEF k
<1>2. CASE kind = "scan"
  <2>1. call' = [call EXCEPT ![c] = k] /\ UNCHANGED <<table, age, names, sinceRename>>
    BY <1>2 DEF Call, k
  <2>2. k \in Calls
    BY <1>1, CallParts
  <2>3. call'[c] = k
    BY <2>1, <2>2, Clocks
  <2>4. Fair(c)'
    BY <1>1, <2>3
       DEF Fair, Unlanded, ListTrue, Recent, AliasTrue, SecondTry, Told, Underway
  <2>5. QED
    BY <2>1, <2>2, <2>4, TableKept, CallStep
<1>3. CASE kind # "scan"
  <2>1. Address(c, k, FALSE) /\ UNCHANGED <<names, sinceRename>>
    BY <1>3 DEF Call, k
  <2>2. QED
    BY <1>1, <2>1, AddressOK
<1>4. QED
  BY <1>2, <1>3

LEMMA StatusArrivesOK ==
  ASSUME AliasIInv, NEW c \in Callers, StatusArrives(c)
  PROVE  AliasIInv'
<1>1. call[c].pc = "status" /\ UNCHANGED <<names, sinceRename>>
  BY DEF StatusArrives
<1>2. call[c] \in InCall /\ call[c].landed = 0 /\ ~call[c].again
  BY <1>1, Stage DEF Stages
<1>3. CASE Address(c, call[c], FALSE)
  BY <1>1, <1>2, <1>3, AddressOK
<1>4. CASE (\E r \in {"absent", "error"} : Finish(c, r, FALSE, 0)) /\ UNCHANGED <<table, age>>
  <2>1. PICK r \in {"absent", "error"} : Finish(c, r, FALSE, 0)
    BY <1>4
  <2>2. r \in Results /\ r # "ok" /\ 0 \in 0 .. 1
    BY DEF Results
  <2>3. QED
    BY <1>1, <1>2, <1>4, <2>1, <2>2, FinishOK
<1>5. QED
  BY <1>3, <1>4 DEF StatusArrives

LEMMA ListingOK ==
  ASSUME AliasIInv, NEW c \in Callers, Listing(c)
  PROVE  AliasIInv'
<1> DEFINE k == call[c]
           t == [k EXCEPT !.pc = "listed", !.list = names]
<1>1. k.pc = "listing" /\ UNCHANGED <<names, table, age, sinceRename>>
      /\ call' = [call EXCEPT ![c] = t]
  BY DEF Listing
<1>2. k \in InCall /\ Fair(c) /\ k.landed = 0
  BY <1>1, Stage DEF Stages
<1>3. names \in Tables
  BY Clocks, TablesOK
<1>4. /\ t \in InCall /\ t.pc = "listed" /\ t.list = names /\ t.landed = k.landed
      /\ t.late = k.late /\ t.again = k.again
  BY <1>2, <1>3 DEF InCall, Stages
<1> HIDE DEF t
<1>5. t \in Calls
  BY <1>4, CallParts
<1>6. call'[c] = t
  BY <1>1, <1>5, Clocks
<1>7. Fair(c)'
  BY <1>1, <1>2, <1>4, <1>6
     DEF Fair, Unlanded, ListTrue, Recent, AliasTrue, SecondTry, Told, Underway
<1>8. QED
  BY <1>1, <1>5, <1>7, TableKept, CallStep

LEMMA ListArrivesOK ==
  ASSUME AliasIInv, NEW c \in Callers, ListArrives(c)
  PROVE  AliasIInv'
<1> DEFINE k == call[c]
<1>1. k.pc = "listed" /\ UNCHANGED <<names, age, sinceRename>>
  BY DEF ListArrives
<1>2. PICK given \in SUBSET Ports :
        /\ table' = Filled(table, k.list, given)
        /\ call' = [call EXCEPT
             ![c].pc = "asking", ![c].list = Empty,
             ![c].alias = AliasOf(table', k.port),
             ![c].excused = k.excused \/ k.port \notin given]
  BY DEF ListArrives
<1>3. k \in InCall /\ Fair(c) /\ k.landed = 0
  BY <1>1, Stage DEF Stages
<1>4. /\ k.list \in Tables /\ k.port \in Ports /\ k.late \in BOOLEAN
      /\ k.excused \in BOOLEAN /\ table \in Tables
  BY <1>3, CallParts, Clocks
<1>5. /\ table' \in Tables
      /\ \A p \in given : table'[p] = k.list[p]
      /\ \A p \in Ports \ given : table'[p] = table[p]
  BY <1>2, <1>4, FilledOK
<1> DEFINE a == AliasOf(table', k.port)
           x == k.excused \/ k.port \notin given
           t == [k EXCEPT !.pc = "asking", !.list = Empty, !.alias = a, !.excused = x]
<1>6. a \in Aliases /\ (a = k.port \/ a = table'[k.port])
      /\ (table'[k.port] # Unlisted => a = table'[k.port])
  BY <1>4, <1>5, TablesOK
<1>7. x \in BOOLEAN /\ (~x => ~k.excused /\ k.port \in given)
  OBVIOUS
<1>8. call' = [call EXCEPT ![c] = t]
  BY <1>2
<1> HIDE DEF a, x
<1>9. /\ t \in InCall /\ t.pc = "asking" /\ t.alias = a /\ t.landed = k.landed
      /\ t.port = k.port /\ t.late = k.late /\ t.again = k.again /\ t.excused = x
  BY <1>3, <1>6, <1>7, TablesOK DEF InCall, Stages
<1> HIDE DEF t
<1>10. t \in Calls
  BY <1>9, CallParts
<1>11. call'[c] = t
  BY <1>8, <1>10, Clocks
<1>12. /\ k.list = names \/ sinceRename <= IF k.late THEN 1 ELSE 0
       /\ ~k.excused => k.list = names
       /\ age <= IF k.late THEN 1 ELSE 0
  BY <1>1, <1>3 DEF Fair, ListTrue, Recent
<1>13. names[k.port] # Unlisted /\ sinceRename \in 0 .. 4 /\ age \in 0 .. 2
  BY <1>4, Clocks, TablesOK
<1>14. \A p \in Ports : table'[p] \in {Unlisted, names[p]} \/ sinceRename <= age + 1
  <2>1. TAKE p \in Ports
  <2>2. CASE p \in given
    BY <2>2, <1>5, <1>12, <1>13
  <2>3. CASE p \notin given
    <3>1. table[p] \in {Unlisted, names[p]} \/ sinceRename <= age + 1
      BY <1>4, <1>12, <1>13 DEF AliasIInv, TableTrue, MaxAge
    <3>2. QED
      BY <2>3, <3>1, <1>5
  <2>4. QED
    BY <2>2, <2>3
<1>15. SecondTry(c)'
  <2>1. SUFFICES ASSUME ~x PROVE a = names[k.port]
    BY <1>1, <1>9, <1>11 DEF SecondTry
  <2>2. table'[k.port] = names[k.port]
    BY <2>1, <1>5, <1>7, <1>12
  <2>3. QED
    BY <2>2, <1>6, <1>13
<1>16. AliasTrue(c)'
  <2>1. CASE sinceRename <= age + 1
    BY <2>1, <1>1, <1>4, <1>9, <1>11, <1>12, <1>13 DEF AliasTrue
  <2>2. CASE table'[k.port] \in {Unlisted, names[k.port]}
    <3>1. a = k.port \/ a = names[k.port]
      BY <2>2, <1>4, <1>5, <1>6, TablesOK DEF a
    <3>2. QED
      BY <3>1, <1>1, <1>9, <1>11 DEF AliasTrue
  <2>3. QED
    BY <2>1, <2>2, <1>4, <1>14
<1>17. Fair(c)'
  BY <1>3, <1>9, <1>11, <1>15, <1>16 DEF Fair, Unlanded, ListTrue, Recent, Told
<1>18. TableTrue'
  BY <1>1, <1>14 DEF TableTrue
<1>19. QED
  BY <1>1, <1>5, <1>10, <1>8, <1>17, <1>18, CallStep

LEMMA NoListOK ==
  ASSUME AliasIInv, NEW c \in Callers, NoList(c)
  PROVE  AliasIInv'
<1> DEFINE k == call[c]
           a == AliasOf(table, k.port)
           t == [k EXCEPT !.pc = "asking", !.excused = TRUE, !.alias = a]
<1>1. k.pc = "listing" /\ UNCHANGED <<names, table, age, sinceRename>>
  BY DEF NoList
<1>2. k \in InCall /\ Fair(c) /\ k.landed = 0
  BY <1>1, Stage DEF Stages
<1>3. CASE Finish(c, "error", FALSE, k.landed)
  <2>1. Finish(c, "error", FALSE, 0) /\ "error" \in Results /\ 0 \in 0 .. 1
    BY <1>2, <1>3 DEF Results, Finish
  <2> HIDE DEF k
  <2>2. QED
    BY <1>1, <1>2, <2>1, FinishOK DEF k
<1>4. CASE call' = [call EXCEPT ![c] = t]
  <2>1. k.port \in Ports /\ k.late \in BOOLEAN
    BY <1>2, CallParts
  <2>2. a \in Aliases /\ (a = k.port \/ a = table[k.port])
        /\ (table[k.port] = Unlisted => a = k.port)
    BY <2>1, Clocks, TablesOK
  <2>3. /\ age <= IF k.late THEN 1 ELSE 0
        /\ age \in 0 .. 2 /\ sinceRename \in 0 .. 4
    BY <1>1, <1>2, Clocks DEF Fair, Recent
  <2>4. table[k.port] \in {Unlisted, names[k.port]} \/ sinceRename <= age + 1
    BY <2>1, <2>3 DEF AliasIInv, TableTrue, MaxAge
  <2> HIDE DEF a
  <2>5. /\ t \in InCall /\ t.pc = "asking" /\ t.alias = a /\ t.landed = k.landed
        /\ t.port = k.port /\ t.late = k.late /\ t.excused
    BY <1>2, <2>2 DEF InCall, Stages
  <2> HIDE DEF t
  <2>6. t \in Calls
    BY <2>5, CallParts
  <2>7. call'[c] = t
    BY <1>4, <2>6, Clocks
  <2>8. AliasTrue(c)'
    <3>1. CASE sinceRename <= age + 1
      BY <1>1, <2>1, <2>3, <2>5, <2>7, <3>1 DEF AliasTrue
    <3>2. CASE table[k.port] \in {Unlisted, names[k.port]}
      BY <1>1, <2>2, <2>5, <2>7, <3>2 DEF AliasTrue
    <3>3. QED
      BY <2>4, <3>1, <3>2
  <2>9. Fair(c)'
    BY <1>2, <2>5, <2>7, <2>8 DEF Fair, Unlanded, ListTrue, Recent, SecondTry, Told
  <2>10. QED
    BY <1>1, <1>4, <2>6, <2>9, TableKept, CallStep
<1>5. QED
  BY <1>3, <1>4 DEF NoList

LEMMA ReachOK ==
  ASSUME AliasIInv, NEW c \in Callers, Reach(c)
  PROVE  AliasIInv'
<1>1. call[c].pc = "asking" /\ UNCHANGED <<names, table, age, sinceRename>>
      /\ Finish(c, "ok", FALSE, Landed(c))
  BY DEF Reach
<1>2. call[c] \in InCall /\ call[c].landed = 0
  BY <1>1, Stage DEF Stages
<1>3. Landed(c) \in 0 .. 1 /\ (call[c].kind = "write" => Landed(c) = 1) /\ "ok" \in Results
  BY <1>2 DEF Landed, Results
<1>4. QED
  BY <1>1, <1>2, <1>3, FinishOK

LEMMA LostOK ==
  ASSUME AliasIInv, NEW c \in Callers, Lost(c)
  PROVE  AliasIInv'
<1>1. call[c].pc = "asking"
  BY DEF Lost
<1>2. call[c] \in InCall /\ call[c].landed = 0
  BY <1>1, Stage DEF Stages
<1>3. Landed(c) \in 0 .. 1 /\ "error" \in Results
  BY <1>2 DEF Landed, Results
<1>4. PICK l \in {call[c].landed} \cup (IF Found(c) THEN {Landed(c)} ELSE {}) :
        GiveUpIfLost(c, l)
  BY DEF Lost
<1>5. Finish(c, "error", FALSE, l) /\ UNCHANGED <<names, table, age, sinceRename>>
  BY <1>4 DEF Lost, GiveUpIfLost
<1>6. l \in 0 .. 1
  BY <1>2, <1>3
<1>7. QED
  BY <1>1, <1>2, <1>3, <1>5, <1>6, FinishOK

LEMMA RefuseOK ==
  ASSUME AliasIInv, NEW c \in Callers, Refuse(c)
  PROVE  AliasIInv'
<1>1. call[c].pc = "asking" /\ UNCHANGED <<names, table, age, sinceRename>>
  BY DEF Refuse
<1>2. call[c] \in InCall /\ call[c].landed = 0
  BY <1>1, Stage DEF Stages
<1>3. PICK r \in {"absent", "error"} : Finish(c, r, FALSE, 0)
  BY <1>2 DEF Refuse, Finish
<1>4. r \in Results /\ r # "ok" /\ 0 \in 0 .. 1
  BY DEF Results
<1>5. QED
  BY <1>1, <1>2, <1>3, <1>4, FinishOK

LEMMA NotFoundOK ==
  ASSUME AliasIInv, NEW c \in Callers, NotFound(c)
  PROVE  AliasIInv'
<1> DEFINE k == call[c]
<1>1. k.pc = "asking" /\ ~Found(c) /\ UNCHANGED <<names, sinceRename>>
  BY DEF NotFound
<1>2. k \in InCall /\ Underway(c) /\ Fair(c) /\ k.landed = 0
  BY <1>1, Stage DEF Stages
<1>3. CASE k.again
  <2>1. k.port \in Ports /\ k.kind \in Kinds /\ k.excused \in BOOLEAN
    BY <1>2, CallParts
  <2>2. k.excused
    BY <1>1, <1>2, <1>3, <2>1 DEF Found, Fair, SecondTry
  <2> DEFINE r == IF k.kind = "scan" THEN "absent" ELSE "error"
             t == [pc |-> "done", kind |-> k.kind, landed |-> k.landed,
                   excused |-> TRUE, notFound |-> TRUE, result |-> r]
  <2>3. call' = [call EXCEPT ![c] = t] /\ UNCHANGED <<table, age>>
    BY <1>3, <2>2 DEF NotFound, Finish
  <2>4. r \in Results /\ r # "ok"
    BY DEF Results
  <2> HIDE DEF r
  <2>5. t \in Over /\ t.landed = 0 /\ t.result = r /\ t.excused
    BY <1>2, <2>1, <2>4 DEF Over
  <2> HIDE DEF t
  <2>6. t.landed <= 1 /\ t.result # "ok" /\ t.excused
    BY <2>4, <2>5
  <2>7. QED
    BY <1>1, <2>3, <2>5, <2>6, EndsOK
<1>4. CASE ~k.again
  <2> DEFINE t == [k EXCEPT !.again = TRUE]
  <2>1. Address(c, t, TRUE)
    BY <1>4 DEF NotFound, LookAgain
  <2>2. t \in InCall /\ t.landed = 0
    BY <1>2 DEF InCall
  <2> HIDE DEF t
  <2>3. QED
    BY <1>1, <2>1, <2>2, AddressOK
<1>5. QED
  BY <1>3, <1>4

\* What the call does not bring about, but suffers: a renaming, and a minute.
LEMMA RenameOK ==
  ASSUME AliasIInv, NEW f \in Namings, Rename(f)
  PROVE  AliasIInv'
<1>1. /\ names' = f /\ sinceRename' = 0 /\ UNCHANGED <<table, age>>
      /\ call' = [c \in Callers |->
           IF Underway(c) THEN [call[c] EXCEPT !.excused = TRUE] ELSE call[c]]
  BY DEF Rename
<1>2. age \in 0 .. 2 /\ table \in Tables /\ call \in [Callers -> Calls]
  BY Clocks
<1>3. ASSUME NEW c \in Callers
      PROVE  call'[c] \in Calls /\ Fair(c)'
  <2>1. CASE Underway(c)
    <3> DEFINE k == call[c]
               t == [k EXCEPT !.excused = TRUE]
    <3>1. k \in InCall /\ Fair(c)
      BY <1>2, <2>1, UnderwayIs, Stage
    <3>2. /\ t \in InCall /\ t.pc = k.pc /\ t.landed = k.landed /\ t.late = k.late
          /\ t.excused /\ t.again = k.again
      BY <3>1 DEF InCall
    <3>3. call'[c] = t
      BY <1>1, <2>1
    <3> HIDE DEF t
    <3>4. t \in Calls /\ t.late \in BOOLEAN /\ t.pc \in Stages
      BY <3>2, CallParts
    <3>5. Unlanded(c)' /\ SecondTry(c)' /\ Told(c)'
      BY <2>1, <3>1, <3>2, <3>3, <3>4
         DEF Fair, Unlanded, SecondTry, Told, Underway, Stages
    <3>6. ListTrue(c)' /\ AliasTrue(c)' /\ Recent(c)'
      BY <1>1, <1>2, <3>1, <3>2, <3>3, <3>4 DEF Fair, ListTrue, AliasTrue, Recent
    <3>7. QED
      BY <3>3, <3>4, <3>5, <3>6 DEF Fair
  <2>2. CASE ~Underway(c)
    <3>1. call'[c] = call[c] /\ Fair(c) /\ call[c].pc \in {"idle", "done"}
      BY <1>1, <2>2 DEF AliasIInv, Underway
    <3>2. QED
      BY <1>2, <3>1
         DEF Fair, Unlanded, ListTrue, Recent, AliasTrue, SecondTry, Told, Underway
  <2>3. QED
    BY <2>1, <2>2
<1>4. call' \in [Callers -> Calls]
  BY <1>1, <1>3
<1>5. AliasTypeOK'
  BY <1>1, <1>2, <1>4 DEF AliasTypeOK, Calls, Ages, MaxAge, Linger
<1>6. TableTrue'
  BY <1>1, <1>2 DEF TableTrue
<1>7. QED
  BY <1>3, <1>5, <1>6 DEF AliasIInv

LEMMA MinuteOK ==
  ASSUME AliasIInv, Minute
  PROVE  AliasIInv'
<1>1. /\ age' = (IF age > 1 THEN age ELSE age + 1)
      /\ sinceRename' = (IF sinceRename > 3 THEN sinceRename ELSE sinceRename + 1)
      /\ UNCHANGED <<names, table>>
      /\ call' = [c \in Callers |->
           IF Underway(c) THEN [call[c] EXCEPT !.late = TRUE] ELSE call[c]]
  BY DEF Minute, MaxAge, Linger
<1>2. age \in 0 .. 2 /\ sinceRename \in 0 .. 4 /\ call \in [Callers -> Calls]
  BY Clocks
<1>3. ASSUME NEW c \in Callers
      PROVE  call'[c] \in Calls /\ Fair(c)'
  <2>1. CASE Underway(c)
    <3> DEFINE k == call[c]
               t == [k EXCEPT !.late = TRUE]
    <3>1. k \in InCall /\ Fair(c) /\ ~k.late
      BY <1>2, <2>1, UnderwayIs, Stage DEF Minute
    <3>2. /\ t \in InCall /\ t.pc = k.pc /\ t.landed = k.landed /\ t.late
          /\ t.excused = k.excused /\ t.again = k.again /\ t.alias = k.alias
          /\ t.port = k.port /\ t.list = k.list
      BY <3>1 DEF InCall
    <3>3. call'[c] = t
      BY <1>1, <2>1
    <3> HIDE DEF t
    <3>4. t \in Calls /\ t.pc \in Stages
      BY <3>2, CallParts
    <3>5. Unlanded(c)' /\ SecondTry(c)' /\ Told(c)'
      BY <1>1, <2>1, <3>1, <3>2, <3>3, <3>4
         DEF Fair, Unlanded, SecondTry, Told, Underway, Stages
    <3>6. ListTrue(c)'
      BY <1>1, <1>2, <3>1, <3>2, <3>3 DEF Fair, ListTrue
    <3>7. Recent(c)'
      BY <1>1, <1>2, <3>1, <3>2, <3>3 DEF Fair, Recent
    <3>8. AliasTrue(c)'
      BY <1>1, <1>2, <3>1, <3>2, <3>3 DEF Fair, AliasTrue
    <3>9. QED
      BY <3>3, <3>4, <3>5, <3>6, <3>7, <3>8 DEF Fair
  <2>2. CASE ~Underway(c)
    <3>1. call'[c] = call[c] /\ Fair(c) /\ call[c].pc \in {"idle", "done"}
      BY <1>1, <2>2 DEF AliasIInv, Underway
    <3>2. QED
      BY <1>2, <3>1
         DEF Fair, Unlanded, ListTrue, Recent, AliasTrue, SecondTry, Told, Underway
  <2>3. QED
    BY <2>1, <2>2
<1>4. call' \in [Callers -> Calls]
  BY <1>1, <1>3
<1>5. AliasTypeOK'
  BY <1>1, <1>2, <1>4 DEF AliasIInv, AliasTypeOK, Calls, Ages, MaxAge, Linger
<1>6. TableTrue'
  BY <1>1, <1>2 DEF AliasIInv, TableTrue, MaxAge
<1>7. QED
  BY <1>3, <1>5, <1>6 DEF AliasIInv

LEMMA AliasStepOK ==
  ASSUME AliasIInv, AliasNext
  PROVE  AliasIInv'
BY CallOK, StatusArrivesOK, ListingOK, ListArrivesOK, NoListOK, ReachOK, LostOK, RefuseOK,
   NotFoundOK, RenameOK, MinuteOK
   DEF AliasNext

LEMMA AliasStutter ==
  ASSUME AliasIInv, UNCHANGED aliasVars
  PROVE  AliasIInv'
<1>1. UNCHANGED <<names, table, age, call, sinceRename>>
  BY DEF aliasVars
<1>2. AliasTypeOK' /\ TableTrue'
  BY <1>1 DEF AliasIInv, AliasTypeOK, TableTrue
<1>3. \A c \in Callers : Fair(c)'
  BY <1>1 DEF AliasIInv, Fair, Unlanded, ListTrue, Recent, AliasTrue, SecondTry, Told,
              Underway
<1>4. QED
  BY <1>2, <1>3 DEF AliasIInv

-----------------------------------------------------------------------------
(* The adapter of a master node.                                            *)

IInv == profile \in Profiles /\ ScanIInv /\ AliasIInv

LEMMA InitOK == Init => IInv
BY ScanInitOK, AliasInitOK DEF Init, CreateAdapter, IInv

LEMMA StepOK == IInv /\ [Next]_vars => IInv'
<1> SUFFICES ASSUME IInv, [Next]_vars
             PROVE  IInv'
  OBVIOUS
<1>1. CASE ScanNext /\ UNCHANGED <<profile, aliasVars>>
  BY <1>1, ScanStepOK, AliasStutter DEF IInv
<1>2. CASE AliasNext /\ UNCHANGED <<profile, scanVars>>
  BY <1>2, AliasStepOK, ScanStutter DEF IInv
<1>3. CASE UNCHANGED vars
  BY <1>3, ScanStutter, AliasStutter DEF IInv, vars
<1>4. QED
  BY <1>1, <1>2, <1>3 DEF Next

THEOREM Invariant == Spec => []IInv
BY InitOK, StepOK, PTL DEF Spec

-----------------------------------------------------------------------------
(* What follows from it.                                                    *)

\* scanPorts of any adapter gives entries of a shape the nodes know, with ids
\* that are a device's or null, and no call counts a write that was not sent.
THEOREM TypeCorrect == Spec => []TypeOK
<1>1. IInv => TypeOK
  BY DEF IInv, TypeOK, ScanIInv, AliasIInv
<1>2. QED
  BY <1>1, Invariant, PTL

\* The ifm and the generic adapter report an empty port only if it was empty at
\* some moment of the scan, or the status was refused, or, with ifm, the status
\* was lost and the mode was answered.
THEOREM NoFalseEmptiness == Spec => []EmptyIsEmpty
<1>1. IInv => EmptyIsEmpty
  BY DEF IInv, EmptyIsEmpty, ScanIInv, Good, EmptyEntry
<1>2. QED
  BY <1>1, Invariant, PTL

\* A scan that nothing disturbed tells both ids of the one device on the port,
\* but for those the generic adapter has no path for or was refused once; and
\* without a path for the status it says that it does not know.
THEOREM CalmScanIsWhole == Spec => []UndisturbedTellsAll
<1>1. IInv => UndisturbedTellsAll
  BY DEF IInv, UndisturbedTellsAll, ScanIInv, Good, WholeEntry
<1>2. QED
  BY <1>1, Invariant, PTL

\* The JSON API adapter makes no write take effect twice, and tells the node of
\* no success that did not happen.
THEOREM WritesOnce == Spec => []AtMostOnce
<1>1. IInv => AtMostOnce
  BY DEF IInv, AtMostOnce, AliasIInv, Fair, Told
<1>2. QED
  BY <1>1, Invariant, PTL

\* A call that ends with 304 was overtaken by a renaming, or the master would
\* not list its port's name.
THEOREM RenamingExplains304 == Spec => []NotFoundIsTrue
<1>1. IInv => NotFoundIsTrue
  BY DEF IInv, NotFoundIsTrue, AliasIInv, Fair, Told
<1>2. QED
  BY <1>1, Invariant, PTL

\* A request reaches another port's device only for Linger minutes after a
\* renaming, or where that device goes by this port's default name.
THEOREM RightDevice == Spec => []OldNamesDieOut
<1>1. ASSUME IInv, NEW c \in Callers, call[c].pc = "asking"
      PROVE  \/ names[call[c].port] = call[c].alias
             \/ sinceRename <= Linger
             \/ call[c].alias = call[c].port
  BY <1>1, Clocks DEF IInv, AliasIInv, Fair, AliasTrue, Linger, MaxAge
<1>2. IInv => OldNamesDieOut
  BY <1>1 DEF OldNamesDieOut
<1>3. QED
  BY <1>2, Invariant, PTL
=============================================================================
