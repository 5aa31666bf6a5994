-------------------------- MODULE FlowNodesProofs --------------------------
(***************************************************************************)
(* What the nodes of a flow tell, for any number of ports, parameters,     *)
(* files and messages at once: nothing that was asked for is left out, no  *)
(* write goes untold, and the timer's readings go forward.                 *)
(***************************************************************************)
EXTENDS FlowNodes, SequenceTheorems, FiniteSetTheorems, TLAPS

\* What an assignment to a property of an object does.
LEMMA Joined ==
  ASSUME NEW A, NEW B, NEW S \in SUBSET A, NEW f \in [S -> B],
         NEW x \in A, NEW v \in B
  PROVE  /\ Put(f, x, v) \in [S \cup {x} -> B]
         /\ DOMAIN Put(f, x, v) = S \cup {x}
         /\ Put(f, x, v)[x] = v
         /\ \A y \in S : y # x => Put(f, x, v)[y] = f[y]
BY DEF Put

LEMMA Nowhere == ASSUME NEW B PROVE <<>> \in [{} -> B] /\ DOMAIN <<>> = {}
OBVIOUS

-----------------------------------------------------------------------------
(* The scan node.                                                           *)

Identified(k) == {p \in k.asked : k.entries[p] = "identified" /\ k.resolve}

\* Only what has an identity is looked up, once the list is there.
Walking(k) ==
    /\ k.pc = "asking" => DOMAIN k.iodds = {}
    /\ k.pc = "walking" =>
         /\ k.entries \in [k.asked -> Contents]
         /\ DOMAIN k.iodds \subseteq Identified(k)

ScanNodeIInv == ScanNodeTypeOK /\ Walking(looking) /\ ScanTellsAll

LEMMA ScanNodeInitOK == ScanNodeInit => ScanNodeIInv
BY DEF ScanNodeInit, ScanNodeIInv, ScanNodeTypeOK, Walking, ScanTellsAll, NotLooking

LEMMA ScanInputOK == ScanNodeIInv /\ ScanInput => ScanNodeIInv'
<1> SUFFICES ASSUME ScanNodeIInv, ScanInput
             PROVE  ScanNodeIInv'
  OBVIOUS
<1>1. PICK asked \in (SUBSET Sockets \ {{}}) \cup {Watched}, resolve \in BOOLEAN :
        looking' = [pc |-> "asking", asked |-> asked, entries |-> <<>>,
                    resolve |-> resolve, iodds |-> <<>>]
  BY DEF ScanInput
<1>2. asked \in SUBSET Sockets
  BY WatchedAssumption
<1>3. /\ <<>> \in Entries(Sockets)
      /\ <<>> \in UNION {[T -> Verdicts] : T \in SUBSET Sockets}
  BY Nowhere DEF Entries
<1>4. looking' \in Lookups /\ looking'.pc = "asking"
  BY <1>1, <1>2, <1>3 DEF Lookups
<1>5. listed' = NotLooking
  BY DEF ScanInput
<1>6. QED
  BY <1>1, <1>4, <1>5, Nowhere
     DEF ScanNodeIInv, ScanNodeTypeOK, Walking, ScanTellsAll, NotLooking

LEMMA LookupsOK ==
  ASSUME ScanNodeTypeOK, looking.pc \in {"asking", "walking"}
  PROVE  looking \in Lookups
BY DEF ScanNodeTypeOK, NotLooking

\* What is kept while a scan goes on, and told when it ends.
LEMMA GoesOn ==
  ASSUME ScanNodeIInv, looking' \in Lookups, Walking(looking)', UNCHANGED listed
  PROVE  ScanNodeIInv'
BY DEF ScanNodeIInv, ScanNodeTypeOK, ScanTellsAll

LEMMA TellOK ==
  ASSUME ScanNodeIInv, looking \in Lookups, NEW o \in {"sent", "failed"}, Tell(o, looking),
         o = "sent" => /\ DOMAIN looking.entries = looking.asked
                       /\ DOMAIN looking.iodds = Identified(looking)
  PROVE  ScanNodeIInv'
<1>1. looking' = NotLooking /\ listed' = [pc |-> o, of |-> looking]
  BY DEF Tell
<1>2. listed'.pc = o /\ listed'.of = looking
  BY <1>1
<1>3. listed' \in [pc : {"sent", "failed"}, of : Lookups]
  BY <1>1
<1>4. ScanTellsAll'
  BY <1>2 DEF ScanTellsAll, Identified
<1>5. QED
  BY <1>1, <1>3, <1>4 DEF ScanNodeIInv, ScanNodeTypeOK, Walking, NotLooking

LEMMA PortsAnswerOK == ScanNodeIInv /\ PortsAnswer => ScanNodeIInv'
<1> SUFFICES ASSUME ScanNodeIInv, PortsAnswer
             PROVE  ScanNodeIInv'
  OBVIOUS
<1>1. looking.pc = "asking" /\ looking \in Lookups /\ UNCHANGED listed
      /\ DOMAIN looking.iodds = {}
  BY LookupsOK DEF PortsAnswer, ScanNodeIInv, Walking
<1>2. PICK entries \in [looking.asked -> Contents] :
        looking' = [looking EXCEPT !.pc = "walking", !.entries = entries]
  BY DEF PortsAnswer
<1>3. looking.asked \in SUBSET Sockets /\ entries \in Entries(Sockets)
  BY <1>1 DEF Lookups, Entries
<1>4. looking' \in Lookups /\ looking'.pc = "walking" /\ looking'.entries = entries
      /\ looking'.asked = looking.asked /\ looking'.iodds = looking.iodds
  BY <1>1, <1>2, <1>3 DEF Lookups
<1>5. Walking(looking)'
  BY <1>1, <1>4 DEF Walking
<1>6. QED
  BY <1>1, <1>4, <1>5, GoesOn

LEMMA LookupOK == ScanNodeIInv /\ Lookup => ScanNodeIInv'
<1> SUFFICES ASSUME ScanNodeIInv, Lookup
             PROVE  ScanNodeIInv'
  OBVIOUS
<1>1. looking.pc = "walking" /\ looking \in Lookups /\ UNCHANGED listed
      /\ looking.entries \in [looking.asked -> Contents]
      /\ DOMAIN looking.iodds \subseteq Identified(looking)
  BY LookupsOK DEF Lookup, ScanNodeIInv, Walking
<1>2. PICK p \in Missing, verdict \in Verdicts :
        looking' = [looking EXCEPT !.iodds = Put(looking.iodds, p, verdict)]
  BY DEF Lookup
<1> DEFINE iodds == Put(looking.iodds, p, verdict)
<1>3. p \in Identified(looking) /\ looking.asked \in SUBSET Sockets
  BY <1>1 DEF Missing, Identified, Lookups
<1>4. PICK T \in SUBSET Sockets : looking.iodds \in [T -> Verdicts]
  BY <1>1 DEF Lookups
<1>5. p \in Sockets
  BY <1>3 DEF Identified
<1>6. iodds \in [T \cup {p} -> Verdicts] /\ DOMAIN iodds = DOMAIN looking.iodds \cup {p}
  <2>1. DOMAIN looking.iodds = T
    BY <1>4
  <2>2. QED
    BY <1>2, <1>4, <1>5, <2>1 DEF Put
<1> HIDE DEF iodds
<1>7. iodds \in UNION {[S -> Verdicts] : S \in SUBSET Sockets}
  <2>1. T \cup {p} \in SUBSET Sockets
    BY <1>4, <1>5
  <2>2. QED
    BY <1>6, <2>1
<1>8. looking' = [looking EXCEPT !.iodds = iodds]
  BY <1>2 DEF iodds
<1>9. looking' \in Lookups /\ looking'.pc = "walking" /\ looking'.entries = looking.entries
      /\ looking'.asked = looking.asked /\ looking'.iodds = iodds
      /\ looking'.resolve = looking.resolve
  BY <1>1, <1>7, <1>8 DEF Lookups
<1>10. Identified(looking') = Identified(looking)
  BY <1>9 DEF Identified
<1>11. DOMAIN iodds \subseteq Identified(looking)
  BY <1>1, <1>3, <1>6
<1>12. Walking(looking)'
  BY <1>1, <1>9, <1>10, <1>11 DEF Walking
<1>13. QED
  BY <1>1, <1>9, <1>12, GoesOn

LEMMA ScanDoneOK == ScanNodeIInv /\ ScanDone => ScanNodeIInv'
<1> SUFFICES ASSUME ScanNodeIInv, ScanDone
             PROVE  ScanNodeIInv'
  OBVIOUS
<1>1. looking \in Lookups /\ Missing = {} /\ Tell("sent", looking)
      /\ looking.entries \in [looking.asked -> Contents]
      /\ DOMAIN looking.iodds \subseteq Identified(looking)
  BY LookupsOK DEF ScanDone, ScanNodeIInv, Walking
<1>2. DOMAIN looking.iodds = Identified(looking)
  BY <1>1 DEF Missing, Identified
<1>3. QED
  BY <1>1, <1>2, TellOK

LEMMA ScanNodeStep == ScanNodeIInv /\ ScanNodeNext => ScanNodeIInv'
<1> SUFFICES ASSUME ScanNodeIInv, ScanNodeNext
             PROVE  ScanNodeIInv'
  OBVIOUS
<1>1. CASE ScanFails
  <2>1. looking \in Lookups /\ Tell("failed", looking)
    BY <1>1, LookupsOK DEF ScanFails, ScanNodeIInv
  <2>2. QED
    BY <2>1, TellOK
<1>2. QED
  BY <1>1, ScanInputOK, PortsAnswerOK, LookupOK, ScanDoneOK DEF ScanNodeNext

LEMMA ScanNodeStutter == ScanNodeIInv /\ UNCHANGED scanNodeVars => ScanNodeIInv'
BY DEF ScanNodeIInv, scanNodeVars, ScanNodeTypeOK, Walking, Identified, ScanTellsAll

-----------------------------------------------------------------------------
(* The parameter node.                                                      *)

LEMMA ShortLists ==
  ASSUME NEW S, NEW s \in BoundedSeq(S, 2)
  PROVE  /\ Len(s) \in 0..2 /\ DOMAIN s = 1..Len(s)
         /\ \A i \in DOMAIN s : s[i] \in S
<1>1. PICK m \in 0..2 : s \in [1..m -> S]
  BY DEF BoundedSeq, SeqOf
<1>2. s \in Seq(S) /\ Len(s) = m
  BY <1>1
<1>3. QED
  BY <1>1, <1>2

LEMMA RequestParts ==
  ASSUME NEW k \in Requests
  PROVE  /\ k # NoRequest
         /\ k.pc \in {"resolving", "turn", "asking", "landed"} /\ k.write \in BOOLEAN
         /\ k.at \in 1..2 /\ k.errors \in SUBSET Selectors
         /\ k.asked \in SelectorLists(Selectors)
         /\ k.results \in UNION {[S -> Values] : S \in SUBSET Names}
         /\ k.landed \in SUBSET (Params \X Values) /\ k.had \in [Params -> SUBSET Values]
         /\ Len(k.asked) \in 0..2 /\ DOMAIN k.asked = 1..Len(k.asked)
         /\ \A i \in DOMAIN k.asked : k.asked[i] \in Selectors
<1>1. k.asked \in BoundedSeq(Selectors, 2)
  BY DEF Requests, SelectorLists
<1>2. QED
  BY <1>1, ShortLists DEF Requests, NoRequest, SelectorLists

\* What stands under the name n is what the j-th selector had, and what was written
\* to it if it was.
Bears(k, j, n) ==
    LET q == k.asked[j] IN
    /\ q \in Params /\ name[q] = n /\ k.results[n] \in k.had[q]
    /\ k.write => <<q, k.results[n]>> \in k.landed

\* The i-th selector is an error, or under its name stands what it had, or what a
\* later one of that name had.
Covers(k, i) ==
    \/ k.asked[i] \in k.errors
    \/ /\ name[k.asked[i]] \in DOMAIN k.results
       /\ \E j \in DOMAIN k.asked : i <= j /\ Bears(k, j, name[k.asked[i]])

\* A result is what some parameter asked for had, and what was written if it was.
Truthful(k) ==
    \A n \in DOMAIN k.results :
      /\ \E p \in Params \cap ToSet(k.asked) : name[p] = n /\ k.results[n] \in k.had[p]
      /\ k.write => \E w \in k.landed : name[w[1]] = n /\ w[2] = k.results[n]

\* The loop has dealt with the selectors before `at`, and with every write that
\* landed but the one whose answer it awaits.
Dealt(k) ==
    /\ \A i \in DOMAIN k.asked : i < k.at => Covers(k, i)
    /\ \A w \in k.landed :
         /\ w[2] = k.payload[w[1]]
         /\ \E i \in DOMAIN k.asked :
              k.asked[i] = w[1] /\ (i < k.at \/ (i = k.at /\ k.pc = "landed"))

\* What the code has made sure of before it asks the master.
Cleared(k) ==
    LET s == k.asked[k.at] IN
    /\ k.pc = "resolving" => k.at = 1 /\ k.landed = {} /\ DOMAIN k.results = {}
    /\ k.pc # "resolving" => k.at \in DOMAIN k.asked
    /\ k.pc \in {"asking", "landed"} => s \in Params
    /\ (k.pc \in {"asking", "landed"} /\ k.write) => k.payload[s] \in Values
    /\ k.pc = "landed" => /\ k.write /\ <<s, k.payload[s]>> \in k.landed
                          /\ k.payload[s] \in k.had[s]

Handled(k) ==
    /\ Truthful(k) /\ Dealt(k) /\ Cleared(k)
    /\ \A p \in Params : stored[p] \in k.had[p]

ParamIInv ==
    /\ ParamTypeOK
    /\ request # NoRequest => Handled(request)
    /\ ParamTellsAll /\ NoSilentWrite

LEMMA ParamInitOK == ParamInit => ParamIInv
BY DEF ParamInit, ParamIInv, ParamTypeOK, ParamTellsAll, NoSilentWrite, NoRequest

\* What was told stays an account as long as nothing else is.
LEMMA ToldStays ==
  ASSUME ParamTellsAll, NoSilentWrite, UNCHANGED <<name, told>>
  PROVE  ParamTellsAll' /\ NoSilentWrite'
<1>1. \A p : Namesakes(told.of, p)' = Namesakes(told.of, p)
  BY DEF Namesakes
<1>2. QED
  BY <1>1 DEF ParamTellsAll, NoSilentWrite

\* The message goes on, in a state that is sound again.
LEMMA Onwards ==
  ASSUME ParamIInv, UNCHANGED <<access, name, told>>, stored' \in [Params -> Values],
         request' \in Requests, Handled(request)'
  PROVE  ParamIInv'
<1>1. request'.pc \in {"turn", "asking", "landed"} => request'.at \in DOMAIN request'.asked
  BY DEF Handled, Cleared
<1>2. ParamTypeOK'
  BY <1>1 DEF ParamIInv, ParamTypeOK
<1>3. ParamTellsAll' /\ NoSilentWrite'
  BY ToldStays DEF ParamIInv
<1>4. QED
  BY <1>2, <1>3 DEF ParamIInv

\* The message ends, with all that was asked for and all that landed told.
LEMMA ConcludeOK ==
  ASSUME ParamIInv, UNCHANGED <<access, name, stored>>, NEW k \in Requests,
         NEW o \in {"sent", "failed"}, Conclude(o, k), Truthful(k),
         o = "sent" => \A i \in DOMAIN k.asked : Covers(k, i),
         \A w \in k.landed :
           /\ w[2] = k.payload[w[1]]
           /\ \E i \in DOMAIN k.asked : k.asked[i] = w[1] /\ Covers(k, i)
  PROVE  ParamIInv'
<1>1. request' = NoRequest /\ told' = [pc |-> o, of |-> k] /\ name' = name
  BY DEF Conclude
<1>2. told'.pc = o /\ told'.of = k
  BY <1>1
<1>3. told' \in [pc : {"sent", "failed"}, of : Requests]
  BY <1>1
<1>4. DOMAIN k.asked = 1..Len(k.asked) /\ Len(k.asked) \in 0..2
      /\ k.landed \in SUBSET (Params \X Values)
  BY RequestParts
<1>5. ASSUME NEW i \in DOMAIN k.asked, NEW j \in DOMAIN k.asked, i <= j,
             Bears(k, j, name[k.asked[i]])
      PROVE  k.asked[j] = k.asked[i] \/ k.asked[j] \in Namesakes(k, k.asked[i])
  <2>1. CASE j = i
    BY <2>1
  <2>2. CASE j # i
    <3>1. i < j
      BY <1>4, <1>5, <2>2
    <3>2. QED
      BY <1>5, <3>1 DEF Bears, Namesakes
  <2>3. QED
    BY <2>1, <2>2
<1>6. ASSUME o = "sent", NEW s \in ToSet(k.asked)
      PROVE  \/ s \in k.errors
             \/ /\ name[s] \in DOMAIN k.results
                /\ \E q \in {s} \cup Namesakes(k, s) : k.results[name[s]] \in k.had[q]
  <2>1. PICK i \in DOMAIN k.asked : k.asked[i] = s
    BY <1>6 DEF ToSet
  <2>2. CASE s \in k.errors
    BY <2>2
  <2>3. CASE s \notin k.errors
    <3>1. name[s] \in DOMAIN k.results
          /\ \E j \in DOMAIN k.asked : i <= j /\ Bears(k, j, name[s])
      BY <1>6, <2>1, <2>3 DEF Covers
    <3>2. PICK j \in DOMAIN k.asked : i <= j /\ Bears(k, j, name[s])
      BY <3>1
    <3>3. k.asked[j] \in {s} \cup Namesakes(k, s) /\ k.results[name[s]] \in k.had[k.asked[j]]
      BY <1>5, <2>1, <3>2 DEF Bears
    <3>4. QED
      BY <3>1, <3>3
  <2>4. QED
    BY <2>2, <2>3
<1>7. ASSUME k.write, NEW w \in k.landed
      PROVE  \/ w[1] \in k.errors
             \/ /\ name[w[1]] \in DOMAIN k.results
                /\ \/ k.results[name[w[1]]] = w[2]
                   \/ \E q \in Namesakes(k, w[1]) :
                        <<q, k.results[name[w[1]]]>> \in k.landed
  <2>1. PICK i \in DOMAIN k.asked : k.asked[i] = w[1] /\ Covers(k, i)
    OBVIOUS
  <2>2. CASE w[1] \in k.errors
    BY <2>2
  <2>3. CASE w[1] \notin k.errors
    <3> DEFINE v == k.results[name[w[1]]]
    <3>1. name[w[1]] \in DOMAIN k.results
          /\ \E j \in DOMAIN k.asked : i <= j /\ Bears(k, j, name[w[1]])
      BY <2>1, <2>3 DEF Covers
    <3>2. PICK j \in DOMAIN k.asked : i <= j /\ Bears(k, j, name[w[1]])
      BY <3>1
    <3>3. <<k.asked[j], v>> \in k.landed
      BY <1>7, <3>2 DEF Bears
    <3>4. k.asked[j] = w[1] \/ k.asked[j] \in Namesakes(k, w[1])
      BY <1>5, <2>1, <3>2
    <3>5. CASE k.asked[j] = w[1]
      <4>1. <<k.asked[j], v>>[2] = k.payload[<<k.asked[j], v>>[1]]
        BY <3>3
      <4>2. v = w[2]
        BY <4>1, <3>5
      <4>3. QED
        BY <4>2, <3>1
    <3>6. CASE k.asked[j] \in Namesakes(k, w[1])
      BY <3>1, <3>3, <3>6
    <3>7. QED
      BY <3>4, <3>5, <3>6
  <2>4. QED
    BY <2>2, <2>3
<1>8. ParamTellsAll'
  BY <1>1, <1>2, <1>6 DEF ParamTellsAll, Truthful, Namesakes
<1>9. NoSilentWrite'
  <2>1. \A p : Namesakes(told.of, p)' = Namesakes(k, p)
    BY <1>1, <1>2 DEF Namesakes
  <2> HIDE DEF Conclude
  <2>2. ASSUME k.write, NEW n \in DOMAIN k.results
        PROVE  \E w \in k.landed : name'[w[1]] = n /\ w[2] = k.results[n]
    BY <1>1, <2>2 DEF Truthful
  <2>3. ASSUME k.write, NEW w \in k.landed
        PROVE  \/ w[1] \in k.errors
               \/ /\ name'[w[1]] \in DOMAIN k.results
                  /\ \/ k.results[name'[w[1]]] = w[2]
                     \/ \E q \in Namesakes(told.of, w[1])' :
                          <<q, k.results[name'[w[1]]]>> \in k.landed
    BY <1>1, <1>7, <2>1, <2>3
  <2>4. QED
    BY <1>2, <2>2, <2>3 DEF NoSilentWrite
<1>10. ParamTypeOK'
  BY <1>1, <1>3 DEF ParamIInv, ParamTypeOK, NoRequest
<1>11. QED
  BY <1>1, <1>8, <1>9, <1>10 DEF ParamIInv

LEMMA AskOK == ParamIInv /\ Ask => ParamIInv'
<1> SUFFICES ASSUME ParamIInv, Ask
             PROVE  ParamIInv'
  OBVIOUS
<1>1. PICK write \in BOOLEAN, asked \in SelectorLists(Selectors), payload \in Payloads :
        request' = [pc |-> "resolving", write |-> write, asked |-> asked,
                    payload |-> payload, at |-> 1, results |-> <<>>, errors |-> {},
                    landed |-> {}, had |-> [p \in Params |-> {stored[p]}]]
  BY DEF Ask
<1>2. stored \in [Params -> Values] /\ UNCHANGED <<access, name, stored, told>>
  BY DEF Ask, ParamIInv, ParamTypeOK
<1>3. [p \in Params |-> {stored[p]}] \in [Params -> SUBSET Values]
  BY <1>2
<1>4. <<>> \in UNION {[S -> Values] : S \in SUBSET Names}
  BY Nowhere
<1>5. request' \in Requests
  BY <1>1, <1>3, <1>4 DEF Requests
<1>6. /\ request'.pc = "resolving" /\ request'.at = 1 /\ request'.landed = {}
      /\ request'.results = <<>> /\ request'.had = [p \in Params |-> {stored[p]}]
  BY <1>1
<1>7. DOMAIN request'.results = {}
  BY <1>6, Nowhere
<1>8. Truthful(request)' /\ Cleared(request)'
  BY <1>6, <1>7 DEF Truthful, Cleared
<1>9. Dealt(request)'
  BY <1>5, <1>6, RequestParts DEF Dealt
<1>10. \A p \in Params : stored'[p] \in request'.had[p]
  BY <1>2, <1>6
<1>11. QED
  BY <1>2, <1>5, <1>8, <1>9, <1>10, Onwards DEF Handled

LEMMA TakenOK == ParamIInv /\ Taken => ParamIInv'
BY DEF Taken, ParamIInv, ParamTypeOK, ParamTellsAll, NoSilentWrite, Handled, Truthful, Dealt,
       Cleared, Covers, Bears, Namesakes, NoRequest

LEMMA DeviceResolvedOK == ParamIInv /\ DeviceResolved => ParamIInv'
<1> SUFFICES ASSUME ParamIInv, DeviceResolved
             PROVE  ParamIInv'
  OBVIOUS
<1>1. /\ request.pc = "resolving" /\ request.asked # <<>>
      /\ request' = [request EXCEPT !.pc = "turn"]
      /\ UNCHANGED <<access, name, stored, told>>
  BY DEF DeviceResolved
<1>2. request \in Requests /\ Handled(request) /\ stored \in [Params -> Values]
  BY <1>1 DEF ParamIInv, ParamTypeOK, NoRequest
<1>3. request' \in Requests
  BY <1>1, <1>2 DEF Requests
<1>4. /\ request'.pc = "turn" /\ request'.at = request.at /\ request'.landed = request.landed
      /\ request'.results = request.results /\ request'.had = request.had
      /\ request'.asked = request.asked /\ request'.errors = request.errors
  BY <1>1, <1>2 DEF Requests
<1>5. request.at = 1 /\ request.landed = {} /\ DOMAIN request.results = {}
  BY <1>1, <1>2 DEF Handled, Cleared
<1>6. 1 \in DOMAIN request.asked
  <2>1. request.asked \in BoundedSeq(Selectors, 2)
    BY <1>2 DEF Requests, SelectorLists
  <2>2. PICK m \in 0..2 : request.asked \in [1..m -> Selectors]
    BY <2>1 DEF BoundedSeq, SeqOf
  <2>3. m # 0
    BY <1>1, <2>2
  <2>4. QED
    BY <2>2, <2>3
<1>7. Truthful(request)' /\ Cleared(request)'
  BY <1>4, <1>5, <1>6 DEF Truthful, Cleared
<1>8. Dealt(request)'
  BY <1>2, <1>4, <1>5, RequestParts DEF Dealt
<1>9. QED
  BY <1>1, <1>2, <1>3, <1>4, <1>7, <1>8, Onwards DEF Handled

LEMMA NotResolvedOK == ParamIInv /\ NotResolved => ParamIInv'
<1> SUFFICES ASSUME ParamIInv, NotResolved
             PROVE  ParamIInv'
  OBVIOUS
<1>1. request.pc = "resolving" /\ Conclude("failed", request)
      /\ UNCHANGED <<access, name, stored>>
  BY DEF NotResolved
<1>2. request \in Requests /\ Handled(request)
  BY <1>1 DEF ParamIInv, ParamTypeOK, NoRequest
<1>3. request.landed = {}
  BY <1>1, <1>2 DEF Handled, Cleared
<1>4. QED
  BY <1>1, <1>2, <1>3, ConcludeOK DEF Handled

\* A turn of the loop ends with the selector told of, and nothing taken back.
LEMMA OneDoneOK ==
  ASSUME ParamIInv, request.pc \in {"turn", "asking", "landed"},
         NEW results \in UNION {[S -> Values] : S \in SUBSET Names},
         NEW errors \in SUBSET Selectors, NEW k \in Requests,
         k = [request EXCEPT !.results = results, !.errors = errors], Truthful(k),
         \A i \in DOMAIN k.asked : i <= k.at => Covers(k, i),
         OneDone(results, errors), UNCHANGED <<access, name, stored>>
  PROVE  ParamIInv'
<1>1. request \in Requests /\ Handled(request) /\ stored \in [Params -> Values]
  BY DEF ParamIInv, ParamTypeOK, NoRequest
<1>2. /\ request.at \in 1..2 /\ request.at \in 1..Len(request.asked)
      /\ Len(request.asked) \in 0..2 /\ DOMAIN request.asked = 1..Len(request.asked)
  BY <1>1, RequestParts DEF Handled, Cleared
<1>4. /\ k.write = request.write /\ k.asked = request.asked /\ k.results = results
      /\ k.errors = errors /\ k.had = request.had /\ k.landed = request.landed
      /\ k.pc = request.pc /\ k.at = request.at /\ k.payload = request.payload
  BY <1>1 DEF Requests
<1>9. ASSUME NEW w \in request.landed
      PROVE  /\ w[2] = k.payload[w[1]]
             /\ \E i \in DOMAIN k.asked : k.asked[i] = w[1] /\ i <= k.at
  <2>1. w[2] = k.payload[w[1]]
    BY <1>1, <1>4 DEF Handled, Dealt
  <2>2. PICK i \in DOMAIN request.asked :
          request.asked[i] = w[1] /\ (i < request.at \/ i = request.at)
    BY <1>1 DEF Handled, Dealt
  <2>3. i <= request.at
    BY <1>2, <2>2
  <2>4. QED
    BY <1>4, <2>1, <2>2, <2>3
<1>10. CASE request.at < Len(request.asked)
  <2>1. request' = [request EXCEPT !.pc = "turn", !.at = request.at + 1,
                                   !.results = results, !.errors = errors]
        /\ UNCHANGED told
    BY <1>10 DEF OneDone
  <2>2. request.at + 1 \in 1..2 /\ request.at + 1 \in DOMAIN request.asked
    <3> DEFINE a == request.at
               n == Len(request.asked)
    <3>1. a \in 1..2 /\ n \in 0..2 /\ a < n
      BY <1>2, <1>10
    <3> HIDE DEF a, n
    <3>2. a + 1 \in 1..2 /\ a + 1 \in 1..n
      BY <3>1
    <3>3. QED
      BY <1>2, <3>2 DEF a, n
  <2>3. request' \in Requests
    BY <1>1, <2>1, <2>2 DEF Requests
  <2>4. /\ request'.write = k.write /\ request'.asked = k.asked
        /\ request'.results = k.results /\ request'.errors = k.errors
        /\ request'.had = k.had /\ request'.landed = k.landed
        /\ request'.pc = "turn" /\ request'.at = request.at + 1
        /\ request'.payload = k.payload
    BY <1>1, <1>4, <2>1 DEF Requests
  <2>5. Truthful(request)'
    BY <2>4 DEF Truthful
  <2>6. ASSUME NEW i, Covers(k, i)
        PROVE  Covers(request, i)'
    BY <2>4, <2>6 DEF Covers, Bears
  <2>7. Dealt(request)'
    <3>1. ASSUME NEW i \in DOMAIN request'.asked, i < request'.at
          PROVE  Covers(request, i)'
      <4>1. i \in DOMAIN k.asked /\ i <= k.at
        BY <1>2, <1>4, <2>4, <3>1
      <4>2. QED
        BY <2>6, <4>1
    <3>2. ASSUME NEW w \in request'.landed
          PROVE  /\ w[2] = request'.payload[w[1]]
                 /\ \E i \in DOMAIN request'.asked :
                      request'.asked[i] = w[1] /\ i < request'.at
      <4>1. w \in request.landed
        BY <1>4, <2>4
      <4>2. PICK i \in DOMAIN k.asked : k.asked[i] = w[1] /\ i <= k.at
        BY <1>9, <4>1
      <4>3. i < request'.at
        BY <1>2, <1>4, <2>4, <4>2
      <4>4. QED
        BY <1>9, <2>4, <4>1, <4>2, <4>3
    <3>3. QED
      BY <3>1, <3>2 DEF Dealt
  <2>8. Cleared(request)'
    BY <1>4, <2>2, <2>4 DEF Cleared
  <2>9. \A p \in Params : stored'[p] \in request'.had[p]
    BY <1>1, <1>4, <2>4 DEF Handled
  <2>10. QED
    BY <1>1, <2>1, <2>3, <2>5, <2>7, <2>8, <2>9, Onwards DEF Handled
<1>11. CASE ~(request.at < Len(request.asked))
  <2> DEFINE o == IF DOMAIN results = {} THEN "failed" ELSE "sent"
  <2>1. Conclude(o, k)
    BY <1>11, Zenon DEF OneDone
  <2> HIDE DEF o
  <2>2. \A i \in DOMAIN k.asked : Covers(k, i)
    BY <1>2, <1>4, <1>11
  <2>3. o \in {"sent", "failed"}
    BY DEF o
  <2>4. \A w \in k.landed :
          /\ w[2] = k.payload[w[1]]
          /\ \E i \in DOMAIN k.asked : k.asked[i] = w[1] /\ Covers(k, i)
    BY <1>4, <1>9, <2>2
  <2>5. QED
    BY <2>1, <2>2, <2>3, <2>4, ConcludeOK
<1>12. QED
  BY <1>10, <1>11

LEMMA Turned ==
  ASSUME ParamIInv, request.pc \in {"turn", "asking", "landed"}
  PROVE  /\ request \in Requests /\ Handled(request) /\ Selector \in Selectors
         /\ stored \in [Params -> Values] /\ name \in [Params -> Names]
<1>1. request \in Requests /\ Handled(request)
  BY DEF ParamIInv, ParamTypeOK, NoRequest
<1>2. request.at \in DOMAIN request.asked
  BY <1>1 DEF Handled, Cleared
<1>3. QED
  BY <1>1, <1>2, RequestParts DEF ParamIInv, ParamTypeOK, Selector

LEMMA FailedOK ==
  ASSUME ParamIInv, request.pc \in {"turn", "asking", "landed"}, Failed,
         UNCHANGED <<access, name, stored>>
  PROVE  ParamIInv'
<1> DEFINE results == request.results
           errors == request.errors \cup {Selector}
           k == [request EXCEPT !.results = results, !.errors = errors]
<1>1. request \in Requests /\ Handled(request) /\ Selector \in Selectors
  BY Turned
<1>2. results \in UNION {[S -> Values] : S \in SUBSET Names} /\ errors \in SUBSET Selectors
  BY <1>1, RequestParts
<1>3. OneDone(results, errors)
  BY DEF Failed
<1>4. request.errors \subseteq errors /\ Selector \in errors
  OBVIOUS
<1> HIDE DEF errors
<1>5. k \in Requests
  BY <1>1, <1>2 DEF Requests
<1>6. /\ k.write = request.write /\ k.asked = request.asked /\ k.results = results
      /\ k.errors = errors /\ k.had = request.had /\ k.landed = request.landed
      /\ k.at = request.at
  BY <1>1 DEF Requests
<1>7. k = [request EXCEPT !.results = results, !.errors = errors]
  OBVIOUS
<1> HIDE DEF k
<1>8. Truthful(k)
  BY <1>1, <1>6 DEF Handled, Truthful
<1>9. ASSUME NEW i \in DOMAIN k.asked, i <= k.at
      PROVE  Covers(k, i)
  <2>1. CASE i = request.at
    BY <1>4, <1>6, <2>1 DEF Covers, Selector
  <2>2. CASE i # request.at
    <3>1. i < request.at
      BY <1>1, <1>6, <1>9, <2>2, RequestParts
    <3>2. Covers(request, i)
      BY <1>1, <1>6, <3>1 DEF Handled, Dealt
    <3>3. QED
      BY <1>4, <1>6, <3>2 DEF Covers, Bears
  <2>3. QED
    BY <2>1, <2>2
<1> HIDE DEF results
<1>10. QED
  BY <1>2, <1>3, <1>5, <1>7, <1>8, <1>9, OneDoneOK

LEMMA ResultOK ==
  ASSUME ParamIInv, request.pc \in {"asking", "landed"}, NEW value \in Values,
         value \in request.had[Selector],
         request.write => <<Selector, value>> \in request.landed,
         Result(value), UNCHANGED <<access, name, stored>>
  PROVE  ParamIInv'
<1> DEFINE n == name[Selector]
           old == request.results
           results == Put(old, n, value)
           errors == request.errors
           k == [request EXCEPT !.results = results, !.errors = errors]
<1>1. request \in Requests /\ Handled(request) /\ name \in [Params -> Names]
  BY Turned
<1>2. Selector \in Params /\ request.at \in DOMAIN request.asked
  BY <1>1 DEF Handled, Cleared, Selector
<1>3. Selector \in Params \cap ToSet(request.asked) /\ n \in Names
  BY <1>1, <1>2 DEF ToSet, Selector
<1>4. PICK S \in SUBSET Names : old \in [S -> Values]
  BY <1>1, RequestParts
<1>5. DOMAIN old = S
  BY <1>4
<1>6. /\ results \in [S \cup {n} -> Values] /\ DOMAIN results = S \cup {n}
      /\ results[n] = value /\ \A m \in S : m # n => results[m] = old[m]
  BY <1>3, <1>4, <1>5 DEF Put
<1>7. OneDone(results, errors)
  BY DEF Result
<1> HIDE DEF results
<1>8. results \in UNION {[T -> Values] : T \in SUBSET Names}
  <2>1. S \cup {n} \in SUBSET Names
    BY <1>3, <1>4
  <2>2. QED
    BY <1>6, <2>1
<1>9. k \in Requests /\ errors \in SUBSET Selectors
  BY <1>1, <1>8, RequestParts DEF Requests
<1>10. /\ k.write = request.write /\ k.asked = request.asked /\ k.results = results
       /\ k.errors = request.errors /\ k.had = request.had /\ k.landed = request.landed
       /\ k.at = request.at
  BY <1>1 DEF Requests
<1>11. k = [request EXCEPT !.results = results, !.errors = errors]
  OBVIOUS
<1> HIDE DEF k, errors
<1>12. ASSUME NEW m \in DOMAIN results
       PROVE  /\ \E p \in Params \cap ToSet(request.asked) :
                   name[p] = m /\ results[m] \in request.had[p]
              /\ request.write =>
                   \E w \in request.landed : name[w[1]] = m /\ w[2] = results[m]
  <2>1. CASE m = n
    <3>1. results[m] = value /\ name[Selector] = m
      BY <1>6, <2>1
    <3>2. request.write => <<Selector, value>>[1] = Selector /\ <<Selector, value>>[2] = value
      OBVIOUS
    <3>3. QED
      BY <1>3, <3>1, <3>2
  <2>2. CASE m # n
    <3>1. m \in DOMAIN old /\ results[m] = old[m]
      BY <1>5, <1>6, <2>2
    <3>2. QED
      BY <1>1, <3>1 DEF Handled, Truthful
  <2>3. QED
    BY <2>1, <2>2
<1>13. Truthful(k)
  BY <1>10, <1>12 DEF Truthful
<1>14. Bears(k, request.at, n)
  <2>1. k.asked[request.at] = Selector
    BY <1>10 DEF Selector
  <2>2. QED
    BY <1>2, <1>6, <1>10, <2>1 DEF Bears
<1>15. ASSUME NEW i \in DOMAIN k.asked, i <= k.at
       PROVE  Covers(k, i)
  <2>1. CASE name[k.asked[i]] = n
    BY <1>2, <1>6, <1>10, <1>14, <1>15, <2>1 DEF Covers
  <2>2. CASE name[k.asked[i]] # n
    <3>1. i # request.at
      BY <1>10, <2>2 DEF Selector
    <3>2. i < request.at
      BY <1>1, <1>10, <1>15, <3>1, RequestParts
    <3>3. Covers(request, i)
      BY <1>1, <1>10, <3>2 DEF Handled, Dealt
    <3>4. CASE request.asked[i] \in request.errors
      BY <1>10, <3>4 DEF Covers
    <3>5. CASE /\ name[request.asked[i]] \in DOMAIN old
               /\ \E j \in DOMAIN request.asked :
                    i <= j /\ Bears(request, j, name[request.asked[i]])
      <4>1. results[name[k.asked[i]]] = old[name[k.asked[i]]]
            /\ name[k.asked[i]] \in DOMAIN results
        BY <1>5, <1>6, <1>10, <2>2, <3>5
      <4>2. PICK j \in DOMAIN request.asked :
              i <= j /\ Bears(request, j, name[request.asked[i]])
        BY <3>5
      <4>3. Bears(k, j, name[k.asked[i]])
        BY <1>10, <4>1, <4>2 DEF Bears
      <4>4. QED
        BY <1>10, <4>1, <4>2, <4>3 DEF Covers
    <3>6. QED
      BY <3>3, <3>4, <3>5 DEF Covers
  <2>3. QED
    BY <2>1, <2>2
<1>16. QED
  BY <1>7, <1>8, <1>9, <1>11, <1>13, <1>15, OneDoneOK

LEMMA GoOK == ParamIInv /\ Go => ParamIInv'
<1> SUFFICES ASSUME ParamIInv, Go
             PROVE  ParamIInv'
  OBVIOUS
<1>1. request.pc = "turn" /\ UNCHANGED <<access, name, stored>>
  BY DEF Go
<1>2. request \in Requests /\ Handled(request) /\ Selector \in Selectors
      /\ stored \in [Params -> Values]
  BY <1>1, Turned
<1>3. CASE Refused
  BY <1>1, <1>3, FailedOK DEF Go
<1>4. CASE ~Refused
  <2>1. request' = [request EXCEPT !.pc = "asking"] /\ UNCHANGED told
    BY <1>4 DEF Go
  <2>2. request' \in Requests
    BY <1>2, <2>1 DEF Requests
  <2>3. /\ request'.pc = "asking" /\ request'.at = request.at
        /\ request'.landed = request.landed /\ request'.results = request.results
        /\ request'.had = request.had /\ request'.asked = request.asked
        /\ request'.errors = request.errors /\ request'.write = request.write
        /\ request'.payload = request.payload
    BY <1>2, <2>1 DEF Requests
  <2>4. Selector \in Params
    BY <1>2, <1>4 DEF Refused, Selectors
  <2>5. request.write => request.payload[Selector] \in Values
    <3>1. ASSUME request.write
          PROVE  Selector \in DOMAIN request.payload /\ request.payload[Selector] # Bad
      BY <1>4, <3>1 DEF Refused
    <3>2. PICK S \in SUBSET Params : request.payload \in [S -> Values \cup {Bad}]
      BY <1>2 DEF Requests, Payloads
    <3>3. QED
      BY <3>1, <3>2
  <2>6. Cleared(request)'
    BY <1>1, <1>2, <2>3, <2>4, <2>5 DEF Handled, Cleared, Selector
  <2>7. Truthful(request)'
    BY <1>1, <1>2, <2>3 DEF Handled, Truthful
  <2>8. Dealt(request)'
    BY <1>1, <1>2, <2>3 DEF Handled, Dealt, Covers, Bears
  <2>9. QED
    BY <1>1, <1>2, <2>1, <2>2, <2>3, <2>6, <2>7, <2>8, Onwards DEF Handled
<1>5. QED
  BY <1>3, <1>4

LEMMA ReadIsduOK == ParamIInv /\ ReadIsdu => ParamIInv'
<1> SUFFICES ASSUME ParamIInv, ReadIsdu
             PROVE  ParamIInv'
  OBVIOUS
<1>1. request.pc = "asking" /\ ~request.write /\ Result(stored[Selector])
      /\ UNCHANGED <<access, name, stored>>
  BY DEF ReadIsdu
<1>2. request \in Requests /\ Handled(request) /\ stored \in [Params -> Values]
  BY <1>1, Turned
<1>3. Selector \in Params
  BY <1>1, <1>2 DEF Handled, Cleared, Selector
<1>4. stored[Selector] \in Values /\ stored[Selector] \in request.had[Selector]
  BY <1>2, <1>3 DEF Handled
<1>5. QED
  BY <1>1, <1>4, ResultOK

LEMMA WriteIsduOK == ParamIInv /\ WriteIsdu => ParamIInv'
<1> SUFFICES ASSUME ParamIInv, WriteIsdu
             PROVE  ParamIInv'
  OBVIOUS
<1>1. request.pc = "landed" /\ Result(request.payload[Selector])
      /\ UNCHANGED <<access, name, stored>>
  BY DEF WriteIsdu
<1>2. request \in Requests /\ Handled(request)
  BY <1>1, Turned
<1>3. /\ request.payload[Selector] \in Values
      /\ request.payload[Selector] \in request.had[Selector]
      /\ <<Selector, request.payload[Selector]>> \in request.landed
  BY <1>1, <1>2 DEF Handled, Cleared, Selector
<1>4. QED
  BY <1>1, <1>3, ResultOK

\* A value that comes to a parameter is one it has had from then on.
LEMMA Had ==
  ASSUME stored \in [Params -> Values], NEW had \in [Params -> SUBSET Values],
         NEW p \in Params, NEW value \in Values, \A q \in Params : stored[q] \in had[q],
         stored' = [stored EXCEPT ![p] = value]
  PROVE  LET more == [had EXCEPT ![p] = had[p] \cup {value}] IN
         /\ stored' \in [Params -> Values] /\ more \in [Params -> SUBSET Values]
         /\ \A q \in Params : had[q] \subseteq more[q] /\ stored'[q] \in more[q]
         /\ value \in more[p]
OBVIOUS

LEMMA LandOK == ParamIInv /\ Land => ParamIInv'
<1> SUFFICES ASSUME ParamIInv, Land
             PROVE  ParamIInv'
  OBVIOUS
<1> DEFINE value == request.payload[Selector]
           had == [request.had EXCEPT ![Selector] = request.had[Selector] \cup {value}]
           landed == request.landed \cup {<<Selector, value>>}
<1>1. /\ request.pc = "asking" /\ request.write
      /\ stored' = [stored EXCEPT ![Selector] = value]
      /\ request' = [request EXCEPT !.pc = "landed", !.landed = landed, !.had = had]
      /\ UNCHANGED <<access, name, told>>
  BY DEF Land
<1>2. request \in Requests /\ Handled(request) /\ stored \in [Params -> Values]
  BY <1>1, Turned
<1>3. Selector \in Params /\ value \in Values
  BY <1>1, <1>2 DEF Handled, Cleared, Selector
<1>4. request.had \in [Params -> SUBSET Values]
      /\ request.landed \in SUBSET (Params \X Values)
  BY <1>2, RequestParts
<1>5. /\ stored' \in [Params -> Values] /\ had \in [Params -> SUBSET Values]
      /\ \A q \in Params : request.had[q] \subseteq had[q] /\ stored'[q] \in had[q]
      /\ value \in had[Selector]
  BY <1>1, <1>2, <1>3, <1>4, Had DEF Handled
<1>6. landed \in SUBSET (Params \X Values) /\ request.landed \subseteq landed
      /\ <<Selector, value>> \in landed
  BY <1>3, <1>4
<1>7. \A w \in landed : w \in request.landed \/ w[1] = Selector
  OBVIOUS
<1> HIDE DEF value, had, landed
<1>8. request' \in Requests
  BY <1>1, <1>2, <1>5, <1>6 DEF Requests
<1>9. /\ request'.pc = "landed" /\ request'.at = request.at /\ request'.write
      /\ request'.landed = landed /\ request'.results = request.results
      /\ request'.had = had /\ request'.asked = request.asked
      /\ request'.errors = request.errors /\ request'.payload = request.payload
  BY <1>1, <1>2 DEF Requests
<1>10. Truthful(request)'
  BY <1>1, <1>2, <1>5, <1>6, <1>9 DEF Handled, Truthful
<1>11. Dealt(request)'
  <2>1. ASSUME NEW i \in DOMAIN request.asked, Covers(request, i)
        PROVE  Covers(request, i)'
    <3>1. ASSUME NEW j \in DOMAIN request.asked, NEW n, Bears(request, j, n)
          PROVE  Bears(request, j, n)'
      BY <1>1, <1>5, <1>6, <1>9, <3>1 DEF Bears
    <3>2. CASE request.asked[i] \in request.errors
      BY <1>9, <3>2 DEF Covers
    <3>3. CASE /\ name[request.asked[i]] \in DOMAIN request.results
               /\ \E j \in DOMAIN request.asked :
                    i <= j /\ Bears(request, j, name[request.asked[i]])
      BY <1>1, <1>9, <3>1, <3>3 DEF Covers
    <3>4. QED
      BY <2>1, <3>2, <3>3 DEF Covers
  <2>2. \A i \in DOMAIN request'.asked : i < request'.at => Covers(request, i)'
    BY <1>2, <1>9, <2>1 DEF Handled, Dealt
  <2>3. ASSUME NEW w \in landed
        PROVE  /\ w[2] = request'.payload[w[1]]
               /\ \E i \in DOMAIN request'.asked :
                    request'.asked[i] = w[1] /\ (i < request'.at \/ i = request'.at)
    <3>1. CASE w \in request.landed
      BY <1>1, <1>2, <1>9, <3>1 DEF Handled, Dealt
    <3>2. CASE w = <<Selector, value>>
      <4>1. w[1] = Selector /\ w[2] = value
        BY <3>2
      <4>2. request.at \in DOMAIN request.asked
        BY <1>1, <1>2 DEF Handled, Cleared
      <4>3. request.asked[request.at] = Selector /\ request.payload[Selector] = value
        BY DEF Selector, value
      <4>4. QED
        BY <1>9, <4>1, <4>2, <4>3
    <3>3. QED
      BY <3>1, <3>2 DEF landed
  <2>4. QED
    BY <1>9, <2>2, <2>3 DEF Dealt
<1>12. Cleared(request)'
  <2>1. request.at \in DOMAIN request.asked
    BY <1>1, <1>2 DEF Handled, Cleared
  <2>2. request.payload[Selector] = value
    BY DEF value
  <2>3. QED
    BY <1>3, <1>5, <1>6, <1>9, <2>1, <2>2 DEF Cleared, Selector
<1>13. QED
  BY <1>1, <1>5, <1>8, <1>9, <1>10, <1>11, <1>12, Onwards DEF Handled

LEMMA ElsewhereOK == ParamIInv /\ Elsewhere => ParamIInv'
<1> SUFFICES ASSUME ParamIInv, Elsewhere
             PROVE  ParamIInv'
  OBVIOUS
<1>1. PICK p \in Params, value \in Values :
        /\ stored' = [stored EXCEPT ![p] = value]
        /\ request' = IF request = NoRequest THEN request
                      ELSE [request EXCEPT !.had =
                              [request.had EXCEPT ![p] = request.had[p] \cup {value}]]
        /\ UNCHANGED <<access, name, told>>
  BY DEF Elsewhere
<1>2. stored \in [Params -> Values]
  BY DEF ParamIInv, ParamTypeOK
<1>3. CASE request = NoRequest
  <2>1. request' = NoRequest /\ stored' \in [Params -> Values]
    BY <1>1, <1>2, <1>3
  <2>2. ParamTypeOK'
    BY <1>1, <2>1 DEF ParamIInv, ParamTypeOK, NoRequest
  <2>3. QED
    BY <1>1, <2>1, <2>2, ToldStays DEF ParamIInv
<1>4. CASE request # NoRequest
  <2> DEFINE had == [request.had EXCEPT ![p] = request.had[p] \cup {value}]
  <2>1. request' = [request EXCEPT !.had = had]
    BY <1>1, <1>4
  <2>2. request \in Requests /\ Handled(request)
    BY <1>4 DEF ParamIInv, ParamTypeOK
  <2>3. request.had \in [Params -> SUBSET Values]
    BY <2>2, RequestParts
  <2>4. /\ stored' \in [Params -> Values] /\ had \in [Params -> SUBSET Values]
        /\ \A q \in Params : request.had[q] \subseteq had[q] /\ stored'[q] \in had[q]
    BY <1>1, <1>2, <2>2, <2>3, Had DEF Handled
  <2> HIDE DEF had
  <2>5. request' \in Requests
    BY <2>1, <2>2, <2>4 DEF Requests
  <2>6. /\ request'.pc = request.pc /\ request'.at = request.at
        /\ request'.write = request.write /\ request'.landed = request.landed
        /\ request'.results = request.results /\ request'.had = had
        /\ request'.asked = request.asked /\ request'.errors = request.errors
        /\ request'.payload = request.payload
    BY <2>1, <2>2 DEF Requests
  <2>7. Truthful(request)'
    BY <1>1, <2>2, <2>4, <2>6 DEF Handled, Truthful
  <2>8. Dealt(request)'
    <3>1. ASSUME NEW i \in DOMAIN request.asked, Covers(request, i)
          PROVE  Covers(request, i)'
      <4>1. ASSUME NEW j \in DOMAIN request.asked, NEW n, Bears(request, j, n)
            PROVE  Bears(request, j, n)'
        BY <1>1, <2>4, <2>6, <4>1 DEF Bears
      <4>2. CASE request.asked[i] \in request.errors
        BY <2>6, <4>2 DEF Covers
      <4>3. CASE /\ name[request.asked[i]] \in DOMAIN request.results
                 /\ \E j \in DOMAIN request.asked :
                      i <= j /\ Bears(request, j, name[request.asked[i]])
        BY <1>1, <2>6, <4>1, <4>3 DEF Covers
      <4>4. QED
        BY <3>1, <4>2, <4>3 DEF Covers
    <3>2. QED
      BY <2>2, <2>6, <3>1 DEF Handled, Dealt
  <2>9. Cleared(request)'
    BY <2>2, <2>4, <2>6 DEF Handled, Cleared
  <2>10. QED
    BY <1>1, <2>4, <2>5, <2>6, <2>7, <2>8, <2>9, Onwards DEF Handled
<1>5. QED
  BY <1>3, <1>4

LEMMA ParamStepOK == ParamIInv /\ ParamNext => ParamIInv'
<1> SUFFICES ASSUME ParamIInv, ParamNext
             PROVE  ParamIInv'
  OBVIOUS
<1>1. CASE IsduFails
  BY <1>1, FailedOK DEF IsduFails
<1>2. QED
  BY <1>1, AskOK, TakenOK, DeviceResolvedOK, NotResolvedOK, GoOK, ReadIsduOK, LandOK,
     WriteIsduOK, ElsewhereOK
     DEF ParamNext

LEMMA ParamStutter == ParamIInv /\ UNCHANGED paramVars => ParamIInv'
<1> SUFFICES ASSUME ParamIInv, UNCHANGED paramVars
             PROVE  ParamIInv'
  OBVIOUS
<1>1. UNCHANGED <<access, name, stored, request, told>>
  BY DEF paramVars
<1>2. ParamTypeOK'
  BY <1>1 DEF ParamIInv, ParamTypeOK
<1>3. ParamTellsAll' /\ NoSilentWrite'
  BY <1>1, ToldStays DEF ParamIInv
<1>4. CASE request # NoRequest
  <2>1. Handled(request)
    BY <1>4 DEF ParamIInv
  <2>2. Truthful(request)' /\ Cleared(request)'
    BY <1>1, <2>1 DEF Handled, Truthful, Cleared
  <2>3. \A i \in DOMAIN request.asked : Covers(request, i) => Covers(request, i)'
    BY <1>1 DEF Covers, Bears
  <2>4. Dealt(request)'
    BY <1>1, <2>1, <2>3 DEF Handled, Dealt
  <2>5. Handled(request)'
    BY <1>1, <2>1, <2>2, <2>4 DEF Handled
  <2>6. QED
    BY <1>2, <1>3, <2>5 DEF ParamIInv
<1>5. CASE request = NoRequest
  BY <1>1, <1>2, <1>3, <1>5 DEF ParamIInv
<1>6. QED
  BY <1>4, <1>5

-----------------------------------------------------------------------------
(* The decode node.                                                         *)

Distinct(s) == \A i, j \in DOMAIN s : s[i].source = s[j].source => i = j

From(s, i) == {s[j].source : j \in i..Len(s)}

\* As many sources as there are entries from i on.
LEMMA Counted ==
  ASSUME NEW s \in Seq(Kept), Distinct(s), NEW i \in 1..(Len(s) + 1)
  PROVE  IsFiniteSet(From(s, i)) /\ Cardinality(From(s, i)) = Len(s) + 1 - i
<1> DEFINE n == Len(s)
           f == [j \in i..n |-> s[j].source]
<1>1. n \in Nat /\ i \in Int /\ DOMAIN s = 1..n
  OBVIOUS
<1> HIDE DEF n
<1>2. IsFiniteSet(i..n) /\ Cardinality(i..n) = n + 1 - i
  <2>1. i \in Int /\ n \in Int /\ i <= n + 1
    BY <1>1 DEF n
  <2> HIDE DEF f
  <2>2. Cardinality(i..n) = IF i > n THEN 0 ELSE n - i + 1
    BY <2>1, FS_Interval, Zenon
  <2>3. IsFiniteSet(i..n)
    BY <2>1, FS_Interval, Zenon
  <2>4. QED
    BY <2>1, <2>2, <2>3
<1>3. f \in Surjection(i..n, From(s, i))
  BY DEF Surjection, From, n
<1>4. f \in Injection(i..n, From(s, i))
  <2>1. f \in [i..n -> From(s, i)]
    BY DEF From, n
  <2>2. ASSUME NEW a \in i..n, NEW b \in i..n, f[a] = f[b]
        PROVE  a = b
    <3>1. a \in DOMAIN s /\ b \in DOMAIN s
      BY <1>1
    <3>2. s[a].source = s[b].source
      BY <2>2
    <3>3. QED
      BY <3>1, <3>2 DEF Distinct
  <2> HIDE DEF f
  <2>3. QED
    BY <2>1, <2>2 DEF Injection, IsInjective
<1> HIDE DEF f
<1>5. IsFiniteSet(From(s, i)) /\ Cardinality(From(s, i)) = Cardinality(i..n)
  BY <1>2, <1>3, <1>4, FS_Surjection
<1>6. QED
  BY <1>1, <1>2, <1>5 DEF n

\* Since the source of an entry was used, those of the entries behind it were.
InOrder(s, used) == \A i \in DOMAIN s : used[s[i].source] = From(s, i)

\* More sources than there is room for have been used since one that is gone.
Gone(kept, used) ==
    \A x \in Sources \ kept :
      \/ used[x] = {}
      \/ IsFiniteSet(used[x]) /\ Cardinality(used[x]) > MessageIoddCache

SourcesOf(s) == {s[i].source : i \in DOMAIN s}

DecodeIInv ==
    /\ DecodeTypeOK
    /\ Distinct(fromMessage) /\ InOrder(fromMessage, since) /\ Gone(KeptSources, since)

LEMMA Stored ==
  ASSUME DecodeTypeOK
  PROVE  /\ fromMessage \in Seq(Kept) /\ Len(fromMessage) \in 0..MessageIoddCache
         /\ DOMAIN fromMessage = 1..Len(fromMessage) /\ KeptSources = SourcesOf(fromMessage)
         /\ MessageIoddCache \in Nat \ {0} /\ since \in [Sources -> SUBSET Sources]
<1>1. fromMessage \in BoundedSeq(Kept, MessageIoddCache) /\ MessageIoddCache \in Nat \ {0}
  BY DecodeAssumption DEF DecodeTypeOK
<1>2. PICK m \in 0..MessageIoddCache : fromMessage \in [1..m -> Kept]
  BY <1>1 DEF BoundedSeq, SeqOf
<1>3. fromMessage \in Seq(Kept) /\ Len(fromMessage) = m
  BY <1>1, <1>2
<1>4. QED
  BY <1>1, <1>2, <1>3 DEF DecodeTypeOK, KeptSources, SourcesOf

\* A Map of the right size, and in order, is all that the rest needs.
LEMMA Restored ==
  ASSUME fromMessage' \in Seq(Kept), Len(fromMessage') <= MessageIoddCache,
         disk' \in [Paths -> Devices], configured' \in Devices, active' \in Devices,
         since' \in [Sources -> SUBSET Sources],
         Distinct(fromMessage'), InOrder(fromMessage', since'),
         Gone(SourcesOf(fromMessage'), since')
  PROVE  DecodeIInv'
<1>1. KeptSources' = SourcesOf(fromMessage')
  BY DEF KeptSources, SourcesOf
<1>2. fromMessage' \in BoundedSeq(Kept, MessageIoddCache)
  <2>1. Len(fromMessage') \in 0..MessageIoddCache
    BY DecodeAssumption
  <2>2. fromMessage' \in [1..Len(fromMessage') -> Kept]
    OBVIOUS
  <2>3. QED
    BY <2>1, <2>2 DEF BoundedSeq, SeqOf
<1>3. Cardinality(KeptSources') = Len(fromMessage')
  <2>1. 1 \in 1..(Len(fromMessage') + 1) /\ Len(fromMessage') \in Nat
    OBVIOUS
  <2>2. From(fromMessage', 1) = SourcesOf(fromMessage')
    BY DEF From, SourcesOf
  <2>3. QED
    BY <1>1, <2>1, <2>2, Counted
<1>4. QED
  BY <1>1, <1>2, <1>3 DEF DecodeIInv, DecodeTypeOK

LEMMA DecodeInitOK == DecodeInit => DecodeIInv
<1> SUFFICES ASSUME DecodeInit
             PROVE  DecodeIInv
  OBVIOUS
<1>1. fromMessage = <<>> /\ since = [s \in Sources |-> {}]
  BY DEF DecodeInit
<1>2. KeptSources = {} /\ Cardinality({}) = 0 /\ Len(fromMessage) = 0
  BY <1>1, FS_EmptySet DEF KeptSources
<1>3. fromMessage \in BoundedSeq(Kept, MessageIoddCache)
  BY <1>1, DecodeAssumption, Nowhere DEF BoundedSeq, SeqOf
<1>4. DecodeTypeOK
  BY <1>1, <1>2, <1>3 DEF DecodeInit, DecodeTypeOK, Devices
<1>5. QED
  BY <1>1, <1>4 DEF DecodeIInv, Distinct, InOrder, Gone

LEMMA UsedParts ==
  ASSUME since \in [Sources -> SUBSET Sources], NEW source \in Sources
  PROVE  /\ Used(source) \in [Sources -> SUBSET Sources]
         /\ Used(source)[source] = {source}
         /\ \A x \in Sources \ {source} :
              Used(source)[x] = IF since[x] = {} THEN {} ELSE since[x] \cup {source}
BY DEF Used

\* Once gone, a source stays so until it is used again.
LEMMA StaysGone ==
  ASSUME since \in [Sources -> SUBSET Sources], NEW source \in Sources,
         MessageIoddCache \in Nat,
         NEW kept, Gone(kept, since), NEW more, kept \subseteq more, source \in more
  PROVE  Gone(more, Used(source))
<1>1. ASSUME NEW x \in Sources \ more
      PROVE  \/ Used(source)[x] = {}
             \/ IsFiniteSet(Used(source)[x]) /\ Cardinality(Used(source)[x]) > MessageIoddCache
  <2>1. x \in Sources \ kept /\ x \in Sources \ {source}
    OBVIOUS
  <2>2. CASE since[x] = {}
    BY <2>1, <2>2, UsedParts
  <2>3. CASE since[x] # {}
    <3> DEFINE S == since[x]
    <3>1. Used(source)[x] = S \cup {source}
      BY <2>1, <2>3, UsedParts
    <3>2. IsFiniteSet(S) /\ Cardinality(S) > MessageIoddCache
      BY <2>1, <2>3 DEF Gone
    <3> HIDE DEF S
    <3>3. IsFiniteSet(S \cup {source}) /\ Cardinality(S) \in Nat
          /\ Cardinality(S \cup {source}) =
               IF source \in S THEN Cardinality(S) ELSE Cardinality(S) + 1
      BY <3>2, FS_AddElement, FS_CardinalityType
    <3>4. Cardinality(S \cup {source}) > MessageIoddCache
      BY <3>2, <3>3
    <3>5. QED
      BY <3>1, <3>3, <3>4
  <2>4. QED
    BY <2>2, <2>3
<1>2. QED
  BY <1>1 DEF Gone

\* Deleting an entry of the Map and setting it again.
LEMMA ReinsertedParts ==
  ASSUME NEW s \in Seq(Kept), NEW i \in 1..Len(s)
  PROVE  LET new == Append(RemoveAt(s, i), s[i]) IN
         /\ new \in Seq(Kept) /\ Len(new) = Len(s)
         /\ \A j \in 1..Len(s) :
              new[j] = IF j < i THEN s[j] ELSE IF j = Len(s) THEN s[i] ELSE s[j + 1]
<1> DEFINE n == Len(s)
           before == SubSeq(s, 1, i - 1)
           after == SubSeq(s, i + 1, n)
<1>1. n \in Nat /\ i \in 1..n /\ \A j \in 1..n : s[j] \in Kept
  OBVIOUS
<1>2. /\ before \in Seq(Kept) /\ Len(before) = i - 1
      /\ \A j \in 1..(i - 1) : before[j] = s[j]
  <2>1. \A j \in 1..(i - 1) : s[j] \in Kept
    BY <1>1
  <2>2. 1 \in Int /\ i - 1 \in Int
    BY <1>1
  <2>3. /\ before \in Seq(Kept) /\ Len(before) = IF 1 <= i - 1 THEN i - 1 - 1 + 1 ELSE 0
        /\ \A j \in 1..(i - 1 - 1 + 1) : before[j] = s[1 + j - 1]
    BY <2>1, <2>2, SubSeqProperties
  <2>4. QED
    BY <1>1, <2>3
<1>3. /\ after \in Seq(Kept) /\ Len(after) = n - i
      /\ \A j \in 1..(n - i) : after[j] = s[i + j]
  <2>1. \A j \in (i + 1)..n : s[j] \in Kept
    BY <1>1
  <2>2. i + 1 \in Int /\ n \in Int
    BY <1>1
  <2>3. /\ after \in Seq(Kept) /\ Len(after) = IF i + 1 <= n THEN n - (i + 1) + 1 ELSE 0
        /\ \A j \in 1..(n - (i + 1) + 1) : after[j] = s[i + 1 + j - 1]
    BY <2>1, <2>2, SubSeqProperties
  <2>4. QED
    BY <1>1, <2>3
<1> DEFINE rest == before \o after
<1>4. RemoveAt(s, i) = rest
  BY DEF RemoveAt
<1> HIDE DEF before, after
<1>5. /\ rest \in Seq(Kept) /\ Len(rest) = n - 1
      /\ \A j \in 1..(n - 1) : rest[j] = IF j < i THEN s[j] ELSE s[j + 1]
  <2>1. /\ rest \in Seq(Kept) /\ Len(rest) = Len(before) + Len(after)
        /\ \A j \in 1..(Len(before) + Len(after)) :
             rest[j] = IF j <= Len(before) THEN before[j] ELSE after[j - Len(before)]
    BY <1>2, <1>3, ConcatProperties
  <2> HIDE DEF rest, n
  <2>2. Len(before) + Len(after) = n - 1 /\ n - 1 \in Nat
    BY <1>1, <1>2, <1>3
  <2>3. ASSUME NEW j \in 1..(n - 1)
        PROVE  rest[j] = IF j < i THEN s[j] ELSE s[j + 1]
    <3>1. rest[j] = IF j <= i - 1 THEN before[j] ELSE after[j - (i - 1)]
      BY <1>2, <2>1, <2>2
    <3>2. CASE j < i
      BY <1>1, <1>2, <3>1, <3>2
    <3>3. CASE ~(j < i)
      <4>1. j - (i - 1) \in 1..(n - i) /\ i + (j - (i - 1)) = j + 1
        BY <1>1, <3>3
      <4>2. after[j - (i - 1)] = s[i + (j - (i - 1))]
        BY <1>3, <4>1
      <4>3. QED
        BY <1>1, <3>1, <3>3, <4>1, <4>2
    <3>4. QED
      BY <3>2, <3>3
  <2>4. QED
    BY <2>1, <2>2, <2>3
<1> HIDE DEF rest
<1> DEFINE new == Append(rest, s[i])
<1>6. /\ new \in Seq(Kept) /\ Len(new) = n
      /\ \A j \in 1..(n - 1) : new[j] = rest[j]
      /\ new[n] = s[i]
  <2>1. s[i] \in Kept
    BY <1>1
  <2>2. /\ new \in Seq(Kept) /\ Len(new) = Len(rest) + 1
        /\ \A j \in 1..Len(rest) : new[j] = rest[j]
        /\ new[Len(rest) + 1] = s[i]
    BY <1>5, <2>1, AppendProperties
  <2>3. QED
    BY <1>1, <1>5, <2>2
<1> HIDE DEF new
<1>7. \A j \in 1..n : new[j] = IF j < i THEN s[j] ELSE IF j = n THEN s[i] ELSE s[j + 1]
  BY <1>1, <1>5, <1>6
<1>8. QED
  BY <1>4, <1>6, <1>7 DEF new

\* The entry that is used becomes the last one in the order of use.
LEMMA UsedLast ==
  ASSUME since \in [Sources -> SUBSET Sources], NEW s \in Seq(Kept), Distinct(s),
         InOrder(s, since), NEW i \in 1..Len(s), NEW new \in Seq(Kept), Len(new) = Len(s),
         \A j \in 1..Len(s) :
           new[j] = IF j < i THEN s[j] ELSE IF j = Len(s) THEN s[i] ELSE s[j + 1]
  PROVE  /\ Distinct(new) /\ SourcesOf(new) = SourcesOf(s)
         /\ InOrder(new, Used(s[i].source))
<1> DEFINE n == Len(s)
           source == s[i].source
           past(j) == IF j < i THEN j ELSE j + 1
<1>1. /\ n \in Nat /\ i \in 1..n /\ DOMAIN s = 1..n /\ DOMAIN new = 1..n
      /\ \A j \in 1..n : s[j] \in Kept /\ s[j].source \in Sources
      /\ Len(new) = n
  <2>1. n \in Nat /\ i \in 1..n /\ Len(new) = n
    OBVIOUS
  <2>2. DOMAIN s = 1..n /\ DOMAIN new = 1..n
    BY LenProperties
  <2>3. \A j \in 1..n : s[j] \in Kept
    OBVIOUS
  <2>4. \A k \in Kept : k.source \in Sources
    BY DEF Kept
  <2>5. QED
    BY <2>1, <2>2, <2>3, <2>4
<1>2. \A j \in 1..n : new[j] = IF j < i THEN s[j] ELSE IF j = n THEN s[i] ELSE s[j + 1]
  OBVIOUS
<1>3. \A a, b \in 1..n : s[a].source = s[b].source => a = b
  BY <1>1 DEF Distinct
<1>4. \A j \in 1..n : since[s[j].source] = {s[k].source : k \in j..n}
  BY <1>1 DEF InOrder, From
<1> HIDE DEF n
<1>5. Distinct(new)
  <2>1. ASSUME NEW a \in 1..n, NEW b \in 1..n, new[a].source = new[b].source
        PROVE  a = b
    BY <1>1, <1>2, <1>3, <2>1
  <2>2. QED
    BY <1>1, <2>1 DEF Distinct
<1>6. SourcesOf(new) = SourcesOf(s)
  <2>1. ASSUME NEW a \in 1..n
        PROVE  \E b \in 1..n : new[a].source = s[b].source
    BY <1>1, <1>2
  <2>2. ASSUME NEW b \in 1..n
        PROVE  \E a \in 1..n : new[a].source = s[b].source
    <3>1. CASE b < i
      BY <1>1, <1>2, <3>1
    <3>2. CASE b = i
      BY <1>1, <1>2, <3>2
    <3>3. CASE b > i
      <4>1. b - 1 \in 1..n /\ ~(b - 1 < i) /\ b - 1 # n /\ b - 1 + 1 = b
        BY <1>1, <3>3
      <4>2. new[b - 1] = s[b]
        BY <1>2, <4>1
      <4>3. QED
        BY <4>1, <4>2
    <3>4. QED
      BY <1>1, <3>1, <3>2, <3>3
  <2>3. /\ SourcesOf(new) = {new[a].source : a \in 1..n}
        /\ SourcesOf(s) = {s[b].source : b \in 1..n}
    BY <1>1 DEF SourcesOf
  <2> DEFINE I == 1..n
  <2>4. /\ \A a \in I : \E b \in I : new[a].source = s[b].source
        /\ \A b \in I : \E a \in I : new[a].source = s[b].source
    BY <2>1, <2>2
  <2> HIDE DEF I
  <2>5. {new[a].source : a \in I} = {s[b].source : b \in I}
    <3>1. ASSUME NEW a \in I
          PROVE  new[a].source \in {s[b].source : b \in I}
      BY <2>4
    <3>2. ASSUME NEW b \in I
          PROVE  s[b].source \in {new[a].source : a \in I}
      BY <2>4
    <3>3. QED
      BY <3>1, <3>2
  <2>6. QED
    BY <2>3, <2>5 DEF I
<1>7. ASSUME NEW j \in 1..n
      PROVE  From(new, j) = {s[k].source : k \in past(j)..n} \cup {source}
  <2>1. ASSUME NEW k \in j..n
        PROVE  new[k].source = source \/ \E m \in past(j)..n : new[k].source = s[m].source
    BY <1>1, <1>2
  <2>2. ASSUME NEW m \in past(j)..n
        PROVE  \E k \in j..n : new[k].source = s[m].source
    <3>1. m \in 1..n
      BY <1>1
    <3>2. CASE m < i
      <4>1. m \in j..n /\ m \in 1..n
        BY <1>1, <3>1, <3>2
      <4>2. QED
        BY <1>2, <3>2, <4>1
    <3>3. CASE m = i
      BY <1>1, <1>2, <3>3
    <3>4. CASE m > i
      <4>1. m - 1 \in j..n /\ m - 1 \in 1..n /\ ~(m - 1 < i) /\ m - 1 # n /\ m - 1 + 1 = m
        BY <1>1, <3>1, <3>4
      <4>2. new[m - 1] = s[m]
        BY <1>2, <4>1
      <4>3. QED
        BY <4>1, <4>2
    <3>5. QED
      BY <1>1, <3>1, <3>2, <3>3, <3>4
  <2>3. n \in j..n /\ new[n].source = source
    BY <1>1, <1>2
  <2>4. From(new, j) = {new[k].source : k \in j..n}
    BY <1>1 DEF From
  <2> HIDE DEF past, source
  <2>5. \A x \in From(new, j) : x \in {s[k].source : k \in past(j)..n} \cup {source}
    BY <2>1, <2>4
  <2>6. \A x \in {s[k].source : k \in past(j)..n} : x \in From(new, j)
    BY <2>2, <2>4
  <2>7. source \in From(new, j)
    BY <2>3, <2>4
  <2>8. QED
    BY <2>5, <2>6, <2>7
<1>8. ASSUME NEW j \in 1..n
      PROVE  Used(source)[new[j].source] = From(new, j)
  <2>1. CASE past(j) = n + 1
    <3>1. new[j].source = source
      BY <1>1, <1>2, <2>1
    <3>2. {s[k].source : k \in past(j)..n} = {}
      BY <1>1, <2>1
    <3>3. Used(source)[source] = {source}
      BY <1>1, UsedParts
    <3>4. QED
      BY <1>7, <3>1, <3>2, <3>3
  <2>2. CASE past(j) # n + 1
    <3>1. past(j) \in 1..n /\ past(j) # i /\ new[j] = s[past(j)]
      BY <1>1, <1>2, <2>2
    <3> HIDE DEF past
    <3> DEFINE x == s[past(j)].source
               S == {s[k].source : k \in past(j)..n}
    <3>2. x # source /\ x \in Sources /\ source \in Sources
      BY <1>1, <1>3, <3>1
    <3>3. since[x] = S
      BY <1>4, <3>1
    <3>4. past(j) \in past(j)..n
      BY <1>1, <3>1
    <3>5. S # {}
      BY <3>4
    <3> HIDE DEF x, S
    <3>6. Used(source)[x] = S \cup {source}
      BY <3>2, <3>3, <3>5, UsedParts
    <3>7. QED
      BY <1>7, <3>1, <3>6 DEF x, S
  <2>3. QED
    BY <2>1, <2>2
<1>9. QED
  BY <1>1, <1>5, <1>6, <1>8 DEF InOrder

\* Setting a new one.
LEMMA Appended ==
  ASSUME since \in [Sources -> SUBSET Sources], NEW s \in Seq(Kept), Distinct(s),
         InOrder(s, since), NEW e \in Kept, e.source \notin SourcesOf(s)
  PROVE  LET new == Append(s, e) IN
         /\ new \in Seq(Kept) /\ Len(new) = Len(s) + 1
         /\ Distinct(new) /\ InOrder(new, Used(e.source))
         /\ SourcesOf(new) = SourcesOf(s) \cup {e.source}
<1> DEFINE n == Len(s)
           source == e.source
           new == Append(s, e)
<1>1. /\ n \in Nat /\ DOMAIN s = 1..n /\ source \in Sources
      /\ \A j \in 1..n : s[j].source \in Sources
  <2>1. n \in Nat /\ DOMAIN s = 1..n /\ \A j \in 1..n : s[j] \in Kept
    OBVIOUS
  <2>2. \A k \in Kept : k.source \in Sources
    BY DEF Kept
  <2>3. QED
    BY <2>1, <2>2
<1>2. /\ new \in Seq(Kept) /\ Len(new) = n + 1 /\ DOMAIN new = 1..(n + 1)
      /\ \A j \in 1..n : new[j] = s[j]
      /\ new[n + 1] = e
  <2>1. /\ new \in Seq(Kept) /\ Len(new) = Len(s) + 1
        /\ \A j \in 1..Len(s) : new[j] = s[j]
        /\ new[Len(s) + 1] = e
    BY AppendProperties
  <2> HIDE DEF new
  <2>2. DOMAIN new = 1..Len(new)
    BY <2>1, LenProperties
  <2>3. QED
    BY <2>1, <2>2
<1>3. \A a, b \in 1..n : s[a].source = s[b].source => a = b
  BY <1>1 DEF Distinct
<1>4. \A j \in 1..n : since[s[j].source] = {s[k].source : k \in j..n}
  BY <1>1 DEF InOrder, From
<1>5. \A j \in 1..n : s[j].source # source
  BY <1>1 DEF SourcesOf
<1> HIDE DEF n, new
<1>6. Distinct(new)
  <2>1. ASSUME NEW a \in 1..(n + 1), NEW b \in 1..(n + 1), new[a].source = new[b].source
        PROVE  a = b
    BY <1>1, <1>2, <1>3, <1>5, <2>1
  <2>2. QED
    BY <1>2, <2>1 DEF Distinct
<1> HIDE DEF source
<1>7. \A j \in 1..(n + 1) :
        {new[k].source : k \in j..(n + 1)} = {s[k].source : k \in j..n} \cup {source}
  <2>1. ASSUME NEW j \in 1..(n + 1)
        PROVE  {new[k].source : k \in j..(n + 1)} = {s[k].source : k \in j..n} \cup {source}
    <3>1. \A k \in j..(n + 1) : k = n + 1 \/ (k \in j..n /\ k \in 1..n)
      BY <1>1
    <3>2. \A k \in j..n : k \in j..(n + 1) /\ k \in 1..n
      BY <1>1
    <3>3. n + 1 \in j..(n + 1) /\ new[n + 1].source = source
      BY <1>1, <1>2 DEF source
    <3>4. QED
      BY <1>2, <3>1, <3>2, <3>3
  <2>2. QED
    BY <2>1
<1>8. SourcesOf(new) = SourcesOf(s) \cup {source}
  <2>1. 1 \in 1..(n + 1)
    BY <1>1
  <2>2. QED
    BY <1>1, <1>2, <1>7, <2>1 DEF SourcesOf
<1>9. ASSUME NEW j \in 1..(n + 1)
      PROVE  Used(source)[new[j].source] = From(new, j)
  <2>1. From(new, j) = {s[k].source : k \in j..n} \cup {source}
    BY <1>2, <1>7 DEF From
  <2>2. CASE j = n + 1
    <3>1. j..n = {} /\ new[j].source = source
      BY <1>1, <1>2, <2>2 DEF source
    <3>2. Used(source)[source] = {source}
      BY <1>1, UsedParts
    <3>3. QED
      BY <2>1, <3>1, <3>2
  <2>3. CASE j # n + 1
    <3>1. j \in 1..n /\ j \in j..n /\ new[j] = s[j]
      BY <1>1, <1>2, <2>3
    <3> DEFINE x == s[j].source
               S == {s[k].source : k \in j..n}
    <3>2. x # source /\ x \in Sources /\ since[x] = S /\ S # {}
      BY <1>1, <1>4, <1>5, <3>1
    <3> HIDE DEF x, S
    <3>3. Used(source)[x] = S \cup {source}
      BY <1>1, <3>2, UsedParts
    <3>4. QED
      BY <2>1, <3>1, <3>3 DEF x, S
  <2>4. QED
    BY <2>2, <2>3
<1>10. InOrder(new, Used(source))
  BY <1>2, <1>9 DEF InOrder
<1>11. QED
  BY <1>2, <1>6, <1>8, <1>10 DEF new, n, source

\* Deleting the oldest.
LEMMA WithoutOldest ==
  ASSUME NEW s \in Seq(Kept), s # <<>>, NEW used, Distinct(s), InOrder(s, used)
  PROVE  LET new == Tail(s) IN
         /\ new \in Seq(Kept) /\ Len(new) = Len(s) - 1
         /\ Distinct(new) /\ InOrder(new, used)
         /\ SourcesOf(s) = SourcesOf(new) \cup {s[1].source}
         /\ used[s[1].source] = From(s, 1)
<1> DEFINE n == Len(s)
           new == Tail(s)
<1>1. /\ n \in Nat \ {0} /\ DOMAIN s = 1..n
  <2>1. n \in Nat /\ DOMAIN s = 1..n
    OBVIOUS
  <2>2. n # 0
    BY EmptySeq
  <2>3. QED
    BY <2>1, <2>2
<1>2. /\ new \in Seq(Kept) /\ Len(new) = n - 1 /\ DOMAIN new = 1..(n - 1)
      /\ \A j \in 1..(n - 1) : new[j] = s[j + 1]
  <2>1. new \in Seq(Kept) /\ Len(new) = Len(s) - 1
        /\ \A j \in 1..Len(new) : new[j] = s[j + 1]
    BY HeadTailProperties
  <2> HIDE DEF new
  <2>2. DOMAIN new = 1..Len(new)
    BY <2>1, LenProperties
  <2>3. QED
    BY <2>1, <2>2
<1>3. \A a, b \in 1..n : s[a].source = s[b].source => a = b
  BY <1>1 DEF Distinct
<1>4. \A j \in 1..n : used[s[j].source] = {s[k].source : k \in j..n}
  BY <1>1 DEF InOrder, From
<1>5. used[s[1].source] = From(s, 1)
  BY <1>1 DEF InOrder
<1> HIDE DEF n, new
<1>6. Distinct(new)
  <2>1. ASSUME NEW a \in 1..(n - 1), NEW b \in 1..(n - 1), new[a].source = new[b].source
        PROVE  a = b
    <3>1. a + 1 \in 1..n /\ b + 1 \in 1..n /\ s[a + 1].source = s[b + 1].source
      BY <1>1, <1>2, <2>1
    <3>2. a + 1 = b + 1
      BY <1>3, <3>1
    <3>3. QED
      BY <3>2
  <2>2. QED
    BY <1>2, <2>1 DEF Distinct
<1>7. ASSUME NEW j \in 1..(n - 1)
      PROVE  used[new[j].source] = From(new, j)
  <2>1. j + 1 \in 1..n /\ new[j] = s[j + 1]
    BY <1>1, <1>2
  <2>2. used[new[j].source] = {s[k].source : k \in (j + 1)..n}
    BY <1>4, <2>1
  <2>3. \A k \in (j + 1)..n : k - 1 \in j..(n - 1) /\ k - 1 \in 1..(n - 1) /\ k - 1 + 1 = k
    BY <1>1
  <2>4. \A k \in (j + 1)..n : k - 1 \in j..(n - 1) /\ s[k] = new[k - 1]
    BY <1>2, <2>3
  <2>5. \A k \in j..(n - 1) : k + 1 \in (j + 1)..n /\ new[k] = s[k + 1]
    BY <1>1, <1>2
  <2>6. From(new, j) = {new[k].source : k \in j..(n - 1)}
    BY <1>2 DEF From
  <2> DEFINE I == (j + 1)..n
             J == j..(n - 1)
  <2>7. /\ \A k \in I : \E m \in J : s[k].source = new[m].source
        /\ \A m \in J : \E k \in I : s[k].source = new[m].source
    BY <2>4, <2>5
  <2> HIDE DEF I, J
  <2>8. {s[k].source : k \in I} = {new[m].source : m \in J}
    <3>1. ASSUME NEW k \in I
          PROVE  s[k].source \in {new[m].source : m \in J}
      BY <2>7
    <3>2. ASSUME NEW m \in J
          PROVE  new[m].source \in {s[k].source : k \in I}
      BY <2>7
    <3>3. QED
      BY <3>1, <3>2
  <2>9. QED
    BY <2>2, <2>6, <2>8 DEF I, J
<1>8. SourcesOf(s) = SourcesOf(new) \cup {s[1].source}
  <2>1. \A k \in 1..n : k = 1 \/ (k - 1 \in 1..(n - 1) /\ s[k] = new[k - 1])
    <3>1. ASSUME NEW k \in 1..n, k # 1
          PROVE  k - 1 \in 1..(n - 1) /\ s[k] = new[k - 1]
      <4>1. k - 1 \in 1..(n - 1) /\ k - 1 + 1 = k
        BY <1>1, <3>1
      <4>2. QED
        BY <1>2, <4>1
    <3>2. QED
      BY <3>1
  <2>2. \A k \in 1..(n - 1) : k + 1 \in 1..n /\ new[k] = s[k + 1]
    BY <1>1, <1>2
  <2>3. 1 \in 1..n
    BY <1>1
  <2>4. SourcesOf(s) = {s[k].source : k \in 1..n}
        /\ SourcesOf(new) = {new[k].source : k \in 1..(n - 1)}
    BY <1>1, <1>2 DEF SourcesOf
  <2> DEFINE I == 1..n
             J == 1..(n - 1)
  <2>5. /\ \A k \in I : k = 1 \/ (\E m \in J : s[k].source = new[m].source)
        /\ \A m \in J : \E k \in I : s[k].source = new[m].source
        /\ 1 \in I
    BY <2>1, <2>2, <2>3
  <2> HIDE DEF I, J
  <2>6. {s[k].source : k \in I} = {new[m].source : m \in J} \cup {s[1].source}
    <3>1. ASSUME NEW k \in I
          PROVE  s[k].source \in {new[m].source : m \in J} \cup {s[1].source}
      BY <2>5
    <3>2. ASSUME NEW m \in J
          PROVE  new[m].source \in {s[k].source : k \in I}
      BY <2>5
    <3>3. s[1].source \in {s[k].source : k \in I}
      BY <2>5
    <3>4. QED
      BY <3>1, <3>2, <3>3
  <2>7. QED
    BY <2>4, <2>6 DEF I, J
<1>9. QED
  BY <1>2, <1>5, <1>6, <1>7, <1>8 DEF InOrder, new, n

\* The Map is as it was.
LEMMA Untouched ==
  ASSUME DecodeIInv, fromMessage' = fromMessage, since' = since,
         disk' \in [Paths -> Devices], configured' \in Devices, active' \in Devices
  PROVE  DecodeIInv'
<1>1. /\ fromMessage \in Seq(Kept) /\ Len(fromMessage) <= MessageIoddCache
      /\ since \in [Sources -> SUBSET Sources] /\ KeptSources = SourcesOf(fromMessage)
  BY Stored, DecodeAssumption DEF DecodeIInv
<1>2. Distinct(fromMessage) /\ InOrder(fromMessage, since) /\ Gone(KeptSources, since)
  BY DEF DecodeIInv
<1> DEFINE s == fromMessage'
           used == since'
<1>3. s = fromMessage /\ used = since
  OBVIOUS
<1> HIDE DEF s, used
<1>4. /\ s \in Seq(Kept) /\ Len(s) <= MessageIoddCache /\ used \in [Sources -> SUBSET Sources]
      /\ Distinct(s) /\ InOrder(s, used) /\ Gone(SourcesOf(s), used)
  BY <1>1, <1>2, <1>3
<1>5. QED
  BY <1>4, Restored DEF s, used

LEMMA HitOK ==
  ASSUME DecodeIInv, NEW source \in Sources, Hit(source), UNCHANGED <<disk, configured>>
  PROVE  DecodeIInv'
<1>1. PICK i \in DOMAIN fromMessage :
        /\ fromMessage[i].source = source /\ active' = fromMessage[i].device
        /\ fromMessage' = Append(RemoveAt(fromMessage, i), fromMessage[i])
        /\ since' = Used(source)
  BY DEF Hit, Reinserted
<1> DEFINE s == fromMessage
           new == fromMessage'
<1>2. /\ s \in Seq(Kept) /\ Len(s) \in 0..MessageIoddCache /\ DOMAIN s = 1..Len(s)
      /\ KeptSources = SourcesOf(s) /\ MessageIoddCache \in Nat \ {0}
      /\ since \in [Sources -> SUBSET Sources] /\ i \in 1..Len(s)
  BY <1>1, Stored DEF DecodeIInv
<1>3. Distinct(s) /\ InOrder(s, since) /\ Gone(KeptSources, since)
  BY DEF DecodeIInv
<1>4. /\ new \in Seq(Kept) /\ Len(new) = Len(s)
      /\ \A j \in 1..Len(s) :
           new[j] = IF j < i THEN s[j] ELSE IF j = Len(s) THEN s[i] ELSE s[j + 1]
  BY <1>1, <1>2, ReinsertedParts
<1>5. active' \in Devices
  <2>1. s[i] \in Kept
    BY <1>2
  <2>2. QED
    BY <1>1, <2>1 DEF Kept, Devices
<1>6. disk' \in [Paths -> Devices] /\ configured' \in Devices
  BY DEF DecodeIInv, DecodeTypeOK
<1>7. since' = Used(source) /\ since' \in [Sources -> SUBSET Sources]
  BY <1>1, <1>2, UsedParts
<1> HIDE DEF s, new
<1>8. Distinct(new) /\ SourcesOf(new) = SourcesOf(s) /\ InOrder(new, Used(s[i].source))
  BY <1>2, <1>3, <1>4, UsedLast
<1>9. source \in SourcesOf(s) /\ s[i].source = source
  BY <1>1, <1>2 DEF SourcesOf, s
<1>10. Gone(SourcesOf(new), Used(source))
  BY <1>2, <1>3, <1>8, <1>9, StaysGone
<1>11. Len(new) <= MessageIoddCache
  <2>1. Len(new) \in 0..MessageIoddCache
    BY <1>2, <1>4
  <2>2. QED
    BY <1>2, <2>1
<1>12. InOrder(new, since') /\ Gone(SourcesOf(new), since')
  BY <1>7, <1>8, <1>9, <1>10
<1>13. QED
  BY <1>4, <1>5, <1>6, <1>7, <1>8, <1>11, <1>12, Restored DEF new

LEMMA MissOK ==
  ASSUME DecodeIInv, NEW source \in Sources, Miss(source), UNCHANGED <<disk, configured>>
  PROVE  DecodeIInv'
<1> DEFINE s == fromMessage
           e == [source |-> source, device |-> Parse(source)]
           longer == Append(s, e)
           M == MessageIoddCache
<1>1. source \notin KeptSources /\ active' = Parse(source)
  BY DEF Miss
<1>2. Parse(source) \in Devices
  BY DEF Parse, DecodeIInv, DecodeTypeOK, Sources, Devices
<1>3. /\ s \in Seq(Kept) /\ Len(s) \in 0..M /\ KeptSources = SourcesOf(s)
      /\ M \in Nat \ {0} /\ since \in [Sources -> SUBSET Sources]
  BY Stored DEF DecodeIInv
<1>4. Distinct(s) /\ InOrder(s, since) /\ Gone(KeptSources, since)
  BY DEF DecodeIInv
<1>5. disk' \in [Paths -> Devices] /\ configured' \in Devices /\ active' \in Devices
  BY <1>1, <1>2 DEF DecodeIInv, DecodeTypeOK
<1>6. CASE Parse(source) = Broken
  <2>1. UNCHANGED <<fromMessage, since>>
    BY <1>6 DEF Miss
  <2>2. QED
    BY <1>5, <2>1, Untouched
<1>7. CASE Parse(source) # Broken
  <2>1. fromMessage' = Evict(longer) /\ since' = Used(source)
    BY <1>7 DEF Miss
  <2>2. e \in Kept /\ e.source = source
    BY <1>2, <1>7 DEF Devices, Kept
  <2>3. since' \in [Sources -> SUBSET Sources]
    BY <1>3, <2>1, UsedParts
  <2> HIDE DEF s, e, M
  <2>4. /\ longer \in Seq(Kept) /\ Len(longer) = Len(s) + 1
        /\ Distinct(longer) /\ InOrder(longer, Used(e.source))
        /\ SourcesOf(longer) = SourcesOf(s) \cup {e.source}
    BY <1>1, <1>3, <1>4, <2>2, Appended
  <2> HIDE DEF longer
  <2>5. Gone(SourcesOf(longer), Used(source))
    BY <1>3, <1>4, <2>2, <2>4, StaysGone DEF M
  <2>6. CASE Len(longer) > M
    <3>1. fromMessage' = Tail(longer)
      BY <2>1, <2>6 DEF Evict, M
    <3>2. Len(longer) = M + 1
      BY <1>3, <2>4, <2>6
    <3>3. longer # <<>>
      BY <1>3, <2>4, EmptySeq
    <3> DEFINE new == Tail(longer)
               used == Used(source)
    <3>4. InOrder(longer, used)
      BY <2>2, <2>4
    <3> HIDE DEF used
    <3>5. /\ new \in Seq(Kept) /\ Len(new) = Len(longer) - 1
          /\ Distinct(new) /\ InOrder(new, used)
          /\ SourcesOf(longer) = SourcesOf(new) \cup {longer[1].source}
          /\ used[longer[1].source] = From(longer, 1)
      BY <2>4, <3>3, <3>4, WithoutOldest
    <3> HIDE DEF new
    <3>6. 1 \in 1..(Len(longer) + 1) /\ Len(longer) + 1 - 1 = M + 1
      BY <1>3, <3>2
    <3>7. IsFiniteSet(From(longer, 1)) /\ Cardinality(From(longer, 1)) = Len(longer) + 1 - 1
      BY <2>4, <3>6, Counted
    <3>8. Cardinality(From(longer, 1)) > M
      BY <1>3, <3>6, <3>7
    <3>9. Gone(SourcesOf(new), used)
      BY <2>5, <3>5, <3>7, <3>8 DEF Gone, used, M
    <3>10. Len(new) <= M
      BY <1>3, <3>2, <3>5
    <3>11. new = fromMessage' /\ used = since'
      BY <2>1, <3>1 DEF new, used
    <3>12. QED
      BY <1>5, <2>3, <3>5, <3>9, <3>10, <3>11, Restored DEF M
  <2>7. CASE ~(Len(longer) > M)
    <3>1. fromMessage' = longer
      BY <2>1, <2>7 DEF Evict, M
    <3>2. Len(longer) <= M
      BY <1>3, <2>4, <2>7
    <3>3. QED
      BY <1>5, <2>1, <2>2, <2>3, <2>4, <2>5, <3>1, <3>2, Restored DEF M
  <2>8. QED
    BY <2>6, <2>7
<1>8. QED
  BY <1>6, <1>7

LEMMA DecodeStepOK == DecodeIInv /\ DecodeNext => DecodeIInv'
<1> SUFFICES ASSUME DecodeIInv, DecodeNext
             PROVE  DecodeIInv'
  OBVIOUS
<1>1. CASE Decode
  <2>1. PICK source \in Sources : Hit(source) \/ Miss(source)
    BY <1>1 DEF Decode
  <2>2. UNCHANGED <<disk, configured>>
    BY <1>1 DEF Decode
  <2>3. QED
    <3>1. CASE Hit(source)
      BY <2>1, <2>2, <3>1, HitOK
    <3>2. CASE Miss(source)
      BY <2>1, <2>2, <3>2, MissOK
    <3>3. QED
      BY <2>1, <3>1, <3>2
<1>2. CASE DecodeConfigured
  BY <1>2, Untouched DEF DecodeConfigured, DecodeIInv, DecodeTypeOK
<1>3. CASE Restart
  <2>1. /\ fromMessage' = <<>> /\ since' = [x \in Sources |-> {}] /\ disk' = disk
        /\ configured' \in Devices /\ active' = Broken
    BY <1>3 DEF Restart
  <2>2. fromMessage' \in Seq(Kept) /\ Len(fromMessage') = 0 /\ DOMAIN fromMessage' = {}
    BY <2>1
  <2>3. Len(fromMessage') <= MessageIoddCache
    BY <2>2, DecodeAssumption
  <2>4. Distinct(fromMessage') /\ InOrder(fromMessage', since')
        /\ Gone(SourcesOf(fromMessage'), since')
    BY <2>1, <2>2 DEF Distinct, InOrder, Gone
  <2>5. disk' \in [Paths -> Devices] /\ active' \in Devices
    BY <2>1 DEF DecodeIInv, DecodeTypeOK, Devices
  <2>6. since' \in [Sources -> SUBSET Sources]
    BY <2>1
  <2>7. QED
    BY <2>1, <2>2, <2>3, <2>4, <2>5, <2>6, Restored
<1>4. CASE Exchange
  <2>1. PICK path \in Paths, device \in Devices : disk' = [disk EXCEPT ![path] = device]
    BY <1>4 DEF Exchange
  <2>2. UNCHANGED <<configured, fromMessage, active, since>>
    BY <1>4 DEF Exchange
  <2>3. disk' \in [Paths -> Devices]
    BY <2>1 DEF DecodeIInv, DecodeTypeOK
  <2>4. QED
    BY <2>2, <2>3, Untouched DEF DecodeIInv, DecodeTypeOK
<1>5. QED
  BY <1>1, <1>2, <1>3, <1>4 DEF DecodeNext

LEMMA DecodeStutter == DecodeIInv /\ UNCHANGED decodeVars => DecodeIInv'
<1> SUFFICES ASSUME DecodeIInv, UNCHANGED decodeVars
             PROVE  DecodeIInv'
  OBVIOUS
<1>1. UNCHANGED <<disk, configured, fromMessage, active, since>>
  BY DEF decodeVars
<1>2. QED
  BY <1>1, Untouched DEF DecodeIInv, DecodeTypeOK

\* Those kept are the ones used last.
LEMMA DecodeKeepsLast == DecodeIInv => LeastRecentlyUsed
<1> SUFFICES ASSUME DecodeIInv
             PROVE  LeastRecentlyUsed
  OBVIOUS
<1> DEFINE s == fromMessage
           n == Len(s)
           M == MessageIoddCache
<1>1. /\ s \in Seq(Kept) /\ n \in 0..M /\ DOMAIN s = 1..n
      /\ KeptSources = SourcesOf(s) /\ M \in Nat \ {0}
  BY Stored DEF DecodeIInv
<1>2. Distinct(s) /\ InOrder(s, since) /\ Gone(KeptSources, since)
  BY DEF DecodeIInv
<1> HIDE DEF s, M
<1>3. ASSUME NEW i \in 1..n
      PROVE  s[i].source \in Sources /\ Cardinality(since[s[i].source]) \in 1..M
  <2>1. s[i] \in Kept
    BY <1>1
  <2>2. i \in 1..(Len(s) + 1) /\ i \in DOMAIN s
    BY <1>1
  <2>3. Cardinality(From(s, i)) = n + 1 - i
    BY <1>1, <1>2, <2>2, Counted
  <2>4. n + 1 - i \in 1..M
    BY <1>1
  <2>5. QED
    BY <1>2, <2>1, <2>2, <2>3, <2>4 DEF InOrder, Kept
<1>4. ASSUME NEW x \in Sources \ KeptSources
      PROVE  Cardinality(since[x]) \notin 1..M
  <2>1. CASE since[x] = {}
    <3>1. Cardinality({}) = 0
      BY FS_EmptySet
    <3>2. QED
      BY <2>1, <3>1
  <2>2. CASE since[x] # {}
    <3> DEFINE c == Cardinality(since[x])
    <3>1. c > M
      BY <1>2, <2>2 DEF Gone, M
    <3> HIDE DEF c
    <3>2. c \notin 1..M
      BY <1>1, <3>1
    <3>3. QED
      BY <3>2 DEF c
  <2>3. QED
    BY <2>1, <2>2
<1> DEFINE last == {x \in Sources : Cardinality(since[x]) \in 1..M}
<1>5. KeptSources \subseteq last
  <2>1. KeptSources = {s[i].source : i \in 1..n}
    BY <1>1 DEF SourcesOf
  <2>2. QED
    BY <1>3, <2>1
<1>6. last \subseteq KeptSources
  BY <1>4
<1>7. QED
  BY <1>5, <1>6 DEF LeastRecentlyUsed, M

-----------------------------------------------------------------------------
(* The folder of IODDs.                                                     *)

\* An entry of the index with the time of its file describes what is in it, unless
\* a time came twice; for that, no entry has a time the file never had.
IndexTrue ==
    \A f \in FolderFiles : worn[f] # {} =>
      /\ folder[f].stamp \in worn[f]
      /\ localIndex[f] # NotIndexed =>
           /\ localIndex[f].stamp \in worn[f]
           /\ localIndex[f].stamp = folder[f].stamp =>
                localIndex[f].device = folder[f].content

\* A search has the time of the file it is at from when it statted it.
AtFile(k) ==
    k.pc \in {"read", "texts"} =>
      /\ k.at \in FolderFiles /\ k.stamp \in Stamps
      /\ worn[k.at] # {} => k.stamp \in worn[k.at]

\* A file that has described the device all along is still to come.
Ahead(k) ==
    \A f \in k.steady :
      /\ folder[f].content = k.want /\ worn[f] # {}
      /\ k.pc # "ended" => f \in k.left \/ (k.pc \in {"read", "texts"} /\ f = k.at)

Told(k) == (k.pc = "ended" /\ ~k.found) => k.steady = {}

FolderIInv ==
    /\ FolderTypeOK /\ IndexTrue
    /\ \A s \in Searches : search[s] # NoSearch =>
         AtFile(search[s]) /\ Ahead(search[s]) /\ Told(search[s])

LEMMA FolderInitOK == FolderInit => FolderIInv
<1> SUFFICES ASSUME FolderInit
             PROVE  FolderIInv
  OBVIOUS
<1>1. /\ folder \in [FolderFiles -> [content : FileContents, stamp : Stamps]]
      /\ localIndex = [f \in FolderFiles |-> NotIndexed]
      /\ search = [s \in Searches |-> NoSearch]
      /\ worn = [f \in FolderFiles |-> {folder[f].stamp}]
  BY DEF FolderInit
<1>2. FolderTypeOK
  BY <1>1 DEF FolderTypeOK
<1>3. IndexTrue
  BY <1>1 DEF IndexTrue
<1>4. QED
  BY <1>1, <1>2, <1>3 DEF FolderIInv

LEMMA Underway ==
  ASSUME FolderIInv, NEW s \in Searches, search[s].pc # "idle"
  PROVE  /\ search[s] \in Searching
         /\ AtFile(search[s]) /\ Ahead(search[s]) /\ Told(search[s])
<1>1. search[s] # NoSearch
  BY DEF NoSearch
<1>2. QED
  BY <1>1 DEF FolderIInv, FolderTypeOK

\* A search that goes on, and may add to the index.
LEMMA GoesOnWith ==
  ASSUME FolderIInv, NEW s \in Searches, NEW k \in Searching,
         search' = [search EXCEPT ![s] = k], UNCHANGED <<folder, worn>>,
         localIndex' \in [FolderFiles -> Indexed \cup {NotIndexed}], IndexTrue',
         AtFile(k), Ahead(k), Told(k)
  PROVE  FolderIInv'
<1>1. /\ search \in [Searches -> {NoSearch} \cup Searching]
      /\ folder \in [FolderFiles -> [content : FileContents, stamp : Stamps]]
      /\ worn \in [FolderFiles -> SUBSET Stamps]
  BY DEF FolderIInv, FolderTypeOK
<1>2. FolderTypeOK'
  BY <1>1 DEF FolderTypeOK
<1>3. ASSUME NEW o \in Searches, search'[o] # NoSearch
      PROVE  (AtFile(search[o]) /\ Ahead(search[o]) /\ Told(search[o]))'
  <2> DEFINE j == search'[o]
  <2>1. AtFile(j) /\ Ahead(j) /\ Told(j)
    <3>1. CASE o = s
      <4>1. j = k
        BY <1>1, <3>1
      <4> HIDE DEF j
      <4>2. QED
        BY <4>1
    <3>2. CASE o # s
      <4>1. j = search[o] /\ search[o] # NoSearch
        BY <1>1, <1>3, <3>2
      <4> HIDE DEF j
      <4>2. QED
        BY <4>1 DEF FolderIInv
    <3>3. QED
      BY <3>1, <3>2
  <2> HIDE DEF j
  <2>2. QED
    BY <2>1 DEF j, AtFile, Ahead, Told
<1>4. QED
  BY <1>2, <1>3 DEF FolderIInv

LEMMA SameIndex ==
  ASSUME FolderIInv, UNCHANGED <<folder, localIndex, worn>>
  PROVE  IndexTrue' /\ localIndex' \in [FolderFiles -> Indexed \cup {NotIndexed}]
BY DEF FolderIInv, FolderTypeOK, IndexTrue

LEMMA FindLocalOK ==
  ASSUME FolderIInv, NEW s \in Searches, NEW d \in Wanted, FindLocal(s, d)
  PROVE  FolderIInv'
<1>1. PICK absent \in SUBSET {f \in FolderFiles : folder[f].content = Stray} :
        search' = [search EXCEPT ![s] =
                     Begun(d, "stat", FolderFiles \ absent, FolderFiles)]
  BY DEF FindLocal
<1>2. UNCHANGED <<folder, localIndex, worn>>
  BY DEF FindLocal
<1> DEFINE k == Begun(d, "stat", FolderFiles \ absent, FolderFiles)
<1>3. k \in Searching
  BY <1>1 DEF Begun, Searching
<1>4. AtFile(k) /\ Told(k)
  BY DEF Begun, AtFile, Told
<1>5. Ahead(k)
  <2>1. d # Stray
    BY FolderAssumption
  <2>2. QED
    BY <1>1, <2>1 DEF Begun, Ahead
<1> HIDE DEF k
<1>6. search' = [search EXCEPT ![s] = k]
  BY <1>1 DEF k
<1>7. QED
  BY <1>2, <1>3, <1>4, <1>5, <1>6, SameIndex, GoesOnWith

LEMMA NoFolderOK ==
  ASSUME FolderIInv, NEW s \in Searches, NEW d \in Wanted, NoFolder(s, d)
  PROVE  FolderIInv'
<1>1. /\ search' = [search EXCEPT ![s] = Begun(d, "ended", {}, {})]
      /\ UNCHANGED <<folder, localIndex, worn>>
  BY DEF NoFolder
<1> DEFINE k == Begun(d, "ended", {}, {})
<1>2. k \in Searching
  BY DEF Begun, Searching
<1>3. AtFile(k) /\ Told(k) /\ Ahead(k)
  BY DEF Begun, AtFile, Told, Ahead
<1> HIDE DEF k
<1>4. search' = [search EXCEPT ![s] = k]
  BY <1>1 DEF k
<1>5. QED
  BY <1>1, <1>2, <1>3, <1>4, SameIndex, GoesOnWith

LEMMA StatOK ==
  ASSUME FolderIInv, NEW s \in Searches, Stat(s)
  PROVE  FolderIInv'
<1>1. PICK f \in search[s].left :
        search' = [search EXCEPT ![s] =
           IF KnownOther(f, search[s].want)
           THEN [search[s] EXCEPT !.left = search[s].left \ {f}]
           ELSE [search[s] EXCEPT !.left = search[s].left \ {f}, !.pc = "read",
                                  !.at = f, !.stamp = folder[f].stamp]]
  BY DEF Stat
<1>2. search[s].pc = "stat" /\ UNCHANGED <<folder, localIndex, worn>>
  BY DEF Stat
<1>3. search[s] \in Searching /\ Ahead(search[s])
  BY <1>2, Underway
<1>4. f \in FolderFiles /\ folder[f].stamp \in Stamps
      /\ (worn[f] # {} => folder[f].stamp \in worn[f])
  <2>1. f \in FolderFiles
    BY <1>1, <1>3 DEF Searching
  <2>2. QED
    BY <2>1 DEF FolderIInv, FolderTypeOK, IndexTrue
<1>5. CASE KnownOther(f, search[s].want)
  <2> DEFINE k == [search[s] EXCEPT !.left = search[s].left \ {f}]
  <2>1. /\ k \in Searching /\ k.pc = "stat" /\ k.left = search[s].left \ {f}
        /\ k.steady = search[s].steady /\ k.want = search[s].want
    BY <1>2, <1>3 DEF Searching
  <2>2. search' = [search EXCEPT ![s] = k]
    BY <1>1, <1>5
  <2> HIDE DEF k
  <2>3. AtFile(k) /\ Told(k)
    BY <2>1 DEF AtFile, Told
  <2>4. f \notin search[s].steady
    <3>1. SUFFICES ASSUME f \in search[s].steady
                   PROVE  FALSE
      OBVIOUS
    <3>2. folder[f].content = search[s].want /\ worn[f] # {}
      BY <1>3, <3>1 DEF Ahead
    <3>3. /\ localIndex[f] # NotIndexed /\ localIndex[f].stamp = folder[f].stamp
          /\ localIndex[f].device # search[s].want
      BY <1>5 DEF KnownOther
    <3>4. QED
      BY <1>4, <3>2, <3>3 DEF FolderIInv, IndexTrue
  <2>5. Ahead(k)
    BY <1>2, <1>3, <2>1, <2>4 DEF Ahead
  <2>6. QED
    BY <1>2, <2>1, <2>2, <2>3, <2>5, SameIndex, GoesOnWith
<1>6. CASE ~KnownOther(f, search[s].want)
  <2> DEFINE k == [search[s] EXCEPT !.left = search[s].left \ {f}, !.pc = "read",
                                    !.at = f, !.stamp = folder[f].stamp]
  <2>1. /\ k \in Searching /\ k.pc = "read" /\ k.left = search[s].left \ {f}
        /\ k.at = f /\ k.stamp = folder[f].stamp
        /\ k.steady = search[s].steady /\ k.want = search[s].want
    BY <1>2, <1>3, <1>4 DEF Searching
  <2>2. search' = [search EXCEPT ![s] = k]
    BY <1>1, <1>6
  <2> HIDE DEF k
  <2>3. AtFile(k) /\ Told(k)
    BY <1>4, <2>1 DEF AtFile, Told
  <2>4. Ahead(k)
    BY <1>2, <1>3, <2>1 DEF Ahead
  <2>5. QED
    BY <1>2, <2>1, <2>2, <2>3, <2>4, SameIndex, GoesOnWith
<1>7. QED
  BY <1>5, <1>6

LEMMA NoneLeftOK ==
  ASSUME FolderIInv, NEW s \in Searches, NoneLeft(s)
  PROVE  FolderIInv'
<1>1. /\ search[s].pc = "stat" /\ search[s].left = {}
      /\ search' = [search EXCEPT ![s].pc = "ended"]
      /\ UNCHANGED <<folder, localIndex, worn>>
  BY DEF NoneLeft
<1>2. search[s] \in Searching /\ Ahead(search[s])
  BY <1>1, Underway
<1>3. search[s].steady = {}
  BY <1>1, <1>2 DEF Ahead
<1> DEFINE k == [search[s] EXCEPT !.pc = "ended"]
<1>4. k \in Searching /\ k.pc = "ended" /\ k.steady = {}
  BY <1>2, <1>3 DEF Searching
<1>5. search' = [search EXCEPT ![s] = k]
  BY <1>1
<1> HIDE DEF k
<1>6. AtFile(k) /\ Told(k) /\ Ahead(k)
  BY <1>4 DEF AtFile, Told, Ahead
<1>7. QED
  BY <1>1, <1>4, <1>5, <1>6, SameIndex, GoesOnWith

\* Leaving the file it was at.
LEMMA LeavesParts ==
  ASSUME FolderIInv, NEW s \in Searches, search[s].pc # "idle",
         NEW stage \in {"stat", "ended"}
  PROVE  LET k == [search[s] EXCEPT !.pc = stage, !.at = NoFile, !.stamp = NoFile] IN
         /\ Leaves(s, stage) = [search EXCEPT ![s] = k]
         /\ k \in Searching /\ k.pc = stage
         /\ k.want = search[s].want /\ k.left = search[s].left
         /\ k.steady = search[s].steady
<1>1. search[s] \in Searching /\ search \in [Searches -> {NoSearch} \cup Searching]
  BY Underway DEF FolderIInv, FolderTypeOK
<1> DEFINE k == [search[s] EXCEPT !.pc = stage, !.at = NoFile, !.stamp = NoFile]
<1>2. /\ k \in Searching /\ k.pc = stage
      /\ k.want = search[s].want /\ k.left = search[s].left
      /\ k.steady = search[s].steady
  BY <1>1 DEF Searching
<1>3. Leaves(s, stage) = [search EXCEPT ![s] = k]
  BY <1>1 DEF Leaves
<1>4. QED
  BY <1>2, <1>3

LEMMA ReadFileOK ==
  ASSUME FolderIInv, NEW s \in Searches, ReadFile(s)
  PROVE  FolderIInv'
<1> DEFINE f == search[s].at
           described == folder[f].content
           entry == [stamp |-> search[s].stamp, device |-> described]
<1>1. search[s].pc = "read" /\ UNCHANGED <<folder, worn>>
  BY DEF ReadFile
<1>2. /\ search[s] \in Searching /\ f \in FolderFiles /\ search[s].stamp \in Stamps
      /\ worn[f] # {} => search[s].stamp \in worn[f]
      /\ Ahead(search[s])
  BY <1>1, Underway DEF AtFile
<1>3. /\ localIndex \in [FolderFiles -> Indexed \cup {NotIndexed}] /\ IndexTrue
      /\ described \in FileContents /\ search \in [Searches -> {NoSearch} \cup Searching]
  BY <1>2 DEF FolderIInv, FolderTypeOK
<1>4. localIndex' = IF described = Stray THEN localIndex
                    ELSE [localIndex EXCEPT ![f] = entry]
  BY DEF ReadFile
<1>5. search' = IF described = search[s].want
                THEN [search EXCEPT ![s].pc = "texts"]
                ELSE Leaves(s, "stat")
  BY DEF ReadFile
<1> HIDE DEF f
<1>6. localIndex' \in [FolderFiles -> Indexed \cup {NotIndexed}]
  BY <1>2, <1>3, <1>4 DEF FileContents, Indexed
<1>7. IndexTrue'
  <2>1. CASE described = Stray
    BY <1>1, <1>3, <1>4, <2>1 DEF IndexTrue
  <2>2. CASE described # Stray
    <3>1. localIndex' = [localIndex EXCEPT ![f] = entry]
      BY <1>4, <2>2
    <3>2. entry.stamp = search[s].stamp /\ entry.device = folder[f].content
      OBVIOUS
    <3> HIDE DEF entry, described
    <3>3. QED
      BY <1>1, <1>2, <1>3, <3>1, <3>2 DEF IndexTrue
  <2>3. QED
    BY <2>1, <2>2
<1>8. CASE described = search[s].want
  <2> DEFINE k == [search[s] EXCEPT !.pc = "texts"]
  <2>1. /\ k \in Searching /\ k.pc = "texts" /\ k.at = f /\ k.stamp = search[s].stamp
        /\ k.want = search[s].want /\ k.left = search[s].left
        /\ k.steady = search[s].steady
    BY <1>2 DEF Searching, f
  <2>2. search' = [search EXCEPT ![s] = k]
    BY <1>3, <1>5, <1>8
  <2> HIDE DEF k
  <2>3. AtFile(k) /\ Told(k)
    BY <1>2, <2>1 DEF AtFile, Told
  <2>4. Ahead(k)
    BY <1>1, <1>2, <2>1 DEF Ahead, f
  <2>5. QED
    BY <1>1, <1>6, <1>7, <2>1, <2>2, <2>3, <2>4, GoesOnWith
<1>9. CASE described # search[s].want
  <2> DEFINE k == [search[s] EXCEPT !.pc = "stat", !.at = NoFile, !.stamp = NoFile]
  <2>1. /\ Leaves(s, "stat") = [search EXCEPT ![s] = k]
        /\ k \in Searching /\ k.pc = "stat"
        /\ k.want = search[s].want /\ k.left = search[s].left
        /\ k.steady = search[s].steady
    BY <1>1, LeavesParts
  <2>2. search' = [search EXCEPT ![s] = k]
    BY <1>5, <1>9, <2>1
  <2> HIDE DEF k
  <2>3. AtFile(k) /\ Told(k)
    BY <2>1 DEF AtFile, Told
  <2>4. f \notin search[s].steady
    BY <1>2, <1>9 DEF Ahead
  <2>5. Ahead(k)
    BY <1>1, <1>2, <2>1, <2>4 DEF Ahead, f
  <2>6. QED
    BY <1>1, <1>6, <1>7, <2>1, <2>2, <2>3, <2>5, GoesOnWith
<1>10. QED
  BY <1>8, <1>9

LEMMA TranslatedOK ==
  ASSUME FolderIInv, NEW s \in Searches, Translated(s)
  PROVE  FolderIInv'
<1>1. /\ search[s].pc = "texts" /\ UNCHANGED <<folder, localIndex, worn>>
      /\ search' = [Leaves(s, "ended") EXCEPT ![s].found = TRUE]
  BY DEF Translated
<1> DEFINE j == [search[s] EXCEPT !.pc = "ended", !.at = NoFile, !.stamp = NoFile]
           k == [j EXCEPT !.found = TRUE]
<1>2. /\ Leaves(s, "ended") = [search EXCEPT ![s] = j]
      /\ j \in Searching /\ j.pc = "ended"
      /\ j.want = search[s].want /\ j.steady = search[s].steady
  BY <1>1, LeavesParts
<1> HIDE DEF j
<1>3. /\ k \in Searching /\ k.pc = "ended" /\ k.want = search[s].want
      /\ k.steady = search[s].steady
  BY <1>2 DEF Searching
<1>4. k.found
  BY <1>2 DEF Searching
<1>5. search \in [Searches -> {NoSearch} \cup Searching]
  BY DEF FolderIInv, FolderTypeOK
<1>6. search' = [search EXCEPT ![s] = k]
  BY <1>1, <1>2, <1>5
<1> HIDE DEF k
<1>7. Ahead(search[s])
  BY <1>1, Underway
<1>8. AtFile(k) /\ Ahead(k)
  BY <1>3, <1>7 DEF AtFile, Ahead
<1>9. Told(k)
  BY <1>4 DEF Told
<1>10. QED
  BY <1>1, <1>3, <1>6, <1>8, <1>9, SameIndex, GoesOnWith

LEMMA UnusableOK ==
  ASSUME FolderIInv, NEW s \in Searches, Unusable(s)
  PROVE  FolderIInv'
<1>1. /\ search[s].pc \in {"read", "texts"} /\ UNCHANGED <<folder, localIndex, worn>>
      /\ search' = [Leaves(s, "stat") EXCEPT
                      ![s].steady = search[s].steady \ {search[s].at}]
  BY DEF Unusable
<1> DEFINE j == [search[s] EXCEPT !.pc = "stat", !.at = NoFile, !.stamp = NoFile]
           k == [j EXCEPT !.steady = search[s].steady \ {search[s].at}]
<1>2. search[s].pc # "idle"
  BY <1>1
<1>3. /\ Leaves(s, "stat") = [search EXCEPT ![s] = j]
      /\ j \in Searching /\ j.pc = "stat" /\ j.left = search[s].left
      /\ j.want = search[s].want /\ j.steady = search[s].steady
  BY <1>2, LeavesParts
<1> HIDE DEF j
<1>4. /\ k \in Searching /\ k.pc = "stat" /\ k.want = search[s].want
      /\ k.left = search[s].left /\ k.steady = search[s].steady \ {search[s].at}
  BY <1>3 DEF Searching
<1>5. search \in [Searches -> {NoSearch} \cup Searching]
  BY DEF FolderIInv, FolderTypeOK
<1>6. search' = [search EXCEPT ![s] = k]
  BY <1>1, <1>3, <1>5
<1> HIDE DEF k
<1>7. Ahead(search[s])
  BY <1>2, Underway
<1>8. AtFile(k) /\ Told(k) /\ Ahead(k)
  BY <1>1, <1>4, <1>7 DEF AtFile, Told, Ahead
<1>9. QED
  BY <1>1, <1>4, <1>6, <1>8, SameIndex, GoesOnWith

LEMMA ReplaceOK ==
  ASSUME FolderIInv, NEW f \in FolderFiles, Replace(f)
  PROVE  FolderIInv'
<1>1. PICK content \in FileContents, m \in Stamps :
        /\ folder' = [folder EXCEPT ![f] = [content |-> content, stamp |-> m]]
        /\ worn' = [worn EXCEPT ![f] =
              IF m \in worn[f] \/ worn[f] = {} THEN {} ELSE worn[f] \cup {m}]
        /\ search' = [s \in Searches |->
              IF search[s] # NoSearch /\ (search[s].want # content \/ worn'[f] = {})
              THEN [search[s] EXCEPT !.steady = search[s].steady \ {f}]
              ELSE search[s]]
  BY DEF Replace
<1>2. localIndex' = localIndex
  BY DEF Replace
<1>3. /\ folder \in [FolderFiles -> [content : FileContents, stamp : Stamps]]
      /\ localIndex \in [FolderFiles -> Indexed \cup {NotIndexed}]
      /\ search \in [Searches -> {NoSearch} \cup Searching]
      /\ worn \in [FolderFiles -> SUBSET Stamps] /\ IndexTrue
  BY DEF FolderIInv, FolderTypeOK
<1>4. /\ worn' \in [FolderFiles -> SUBSET Stamps]
      /\ worn'[f] # {} => worn[f] # {} /\ m \notin worn[f] /\ worn'[f] = worn[f] \cup {m}
      /\ \A g \in FolderFiles \ {f} : worn'[g] = worn[g]
  BY <1>1, <1>3
<1>5. /\ folder' \in [FolderFiles -> [content : FileContents, stamp : Stamps]]
      /\ folder'[f].content = content /\ folder'[f].stamp = m
      /\ \A g \in FolderFiles \ {f} : folder'[g] = folder[g]
  BY <1>1, <1>3
<1>6. IndexTrue'
  BY <1>2, <1>3, <1>4, <1>5 DEF IndexTrue
<1>7. ASSUME NEW s \in Searches
      PROVE  /\ search'[s] \in {NoSearch} \cup Searching
             /\ search'[s] # NoSearch =>
                  (AtFile(search[s]) /\ Ahead(search[s]) /\ Told(search[s]))'
  <2> DEFINE k == search[s]
             j == search'[s]
  <2>1. CASE k = NoSearch
    <3>1. j = NoSearch
      BY <1>1, <2>1
    <3>2. QED
      BY <3>1
  <2>2. CASE k # NoSearch
    <3>1. k \in Searching /\ AtFile(k) /\ Ahead(k) /\ Told(k)
      BY <1>3, <2>2 DEF FolderIInv
    <3>2. /\ j \in Searching /\ j.pc = k.pc /\ j.want = k.want /\ j.left = k.left
          /\ j.at = k.at /\ j.stamp = k.stamp
          /\ j.steady \subseteq k.steady
          /\ f \in j.steady => k.want = content /\ worn'[f] # {}
      <4>1. CASE k.want # content \/ worn'[f] = {}
        <5>1. j = [k EXCEPT !.steady = k.steady \ {f}]
          BY <1>1, <2>2, <4>1
        <5>2. QED
          BY <3>1, <5>1 DEF Searching
      <4>2. CASE ~(k.want # content \/ worn'[f] = {})
        <5>1. j = k
          BY <1>1, <4>2
        <5>2. QED
          BY <3>1, <4>2, <5>1
      <4>3. QED
        BY <4>1, <4>2
    <3>3. j.found = k.found
      <4>1. CASE k.want # content \/ worn'[f] = {}
        <5>1. j = [k EXCEPT !.steady = k.steady \ {f}]
          BY <1>1, <2>2, <4>1
        <5>2. QED
          BY <3>1, <5>1 DEF Searching
      <4>2. CASE ~(k.want # content \/ worn'[f] = {})
        <5>1. j = k
          BY <1>1, <4>2
        <5>2. QED
          BY <5>1
      <4>3. QED
        BY <4>1, <4>2
    <3> HIDE DEF j, k
    <3>4. AtFile(k) => (j.pc \in {"read", "texts"} =>
            /\ j.at \in FolderFiles /\ j.stamp \in Stamps
            /\ worn'[j.at] # {} => j.stamp \in worn'[j.at])
      BY <1>4, <3>2 DEF AtFile
    <3>5. \A g \in j.steady :
            /\ folder'[g].content = j.want /\ worn'[g] # {}
            /\ j.pc # "ended" => g \in j.left \/ (j.pc \in {"read", "texts"} /\ g = j.at)
      <4>1. j.steady \subseteq FolderFiles
        BY <3>2 DEF Searching
      <4>2. QED
        BY <1>4, <1>5, <3>1, <3>2, <4>1 DEF Ahead
    <3>6. (j.pc = "ended" /\ ~j.found) => j.steady = {}
      BY <3>1, <3>2, <3>3 DEF Told
    <3>7. QED
      BY <3>1, <3>2, <3>4, <3>5, <3>6 DEF AtFile, Ahead, Told, j
  <2>3. QED
    BY <2>1, <2>2
<1>8. search' \in [Searches -> {NoSearch} \cup Searching]
  <2>1. search' = [s \in Searches |-> search'[s]]
    BY <1>1
  <2>2. QED
    BY <1>7, <2>1
<1>9. QED
  BY <1>2, <1>3, <1>4, <1>5, <1>6, <1>7, <1>8 DEF FolderIInv, FolderTypeOK

LEMMA FolderSame ==
  ASSUME FolderIInv, UNCHANGED <<folder, search, worn>>,
         localIndex' \in [FolderFiles -> Indexed \cup {NotIndexed}], IndexTrue'
  PROVE  FolderIInv'
<1>1. FolderTypeOK'
  BY DEF FolderIInv, FolderTypeOK
<1>2. ASSUME NEW s \in Searches, search'[s] # NoSearch
      PROVE  (AtFile(search[s]) /\ Ahead(search[s]) /\ Told(search[s]))'
  BY <1>2 DEF FolderIInv, AtFile, Ahead, Told
<1>3. QED
  BY <1>1, <1>2 DEF FolderIInv

LEMMA FolderStepOK == FolderIInv /\ FolderNext => FolderIInv'
<1> SUFFICES ASSUME FolderIInv, FolderNext
             PROVE  FolderIInv'
  OBVIOUS
<1>1. CASE ClearIndex
  <2>1. localIndex' = [f \in FolderFiles |-> NotIndexed] /\ UNCHANGED <<folder, search, worn>>
    BY <1>1 DEF ClearIndex
  <2>2. IndexTrue'
    BY <2>1 DEF FolderIInv, IndexTrue
  <2>3. QED
    BY <2>1, <2>2, FolderSame
<1>2. CASE \E f \in FolderFiles : Replace(f)
  BY <1>2, ReplaceOK
<1>3. ASSUME NEW s \in Searches,
             \/ \E d \in Wanted : FindLocal(s, d) \/ NoFolder(s, d)
             \/ Stat(s) \/ NoneLeft(s) \/ ReadFile(s) \/ Translated(s) \/ Unusable(s)
      PROVE  FolderIInv'
  BY <1>3, FindLocalOK, NoFolderOK, StatOK, NoneLeftOK, ReadFileOK, TranslatedOK, UnusableOK
<1>4. QED
  BY <1>1, <1>2, <1>3 DEF FolderNext

LEMMA FolderStutter == FolderIInv /\ UNCHANGED folderVars => FolderIInv'
<1> SUFFICES ASSUME FolderIInv, UNCHANGED folderVars
             PROVE  FolderIInv'
  OBVIOUS
<1>1. UNCHANGED <<folder, localIndex, search, worn>>
  BY DEF folderVars
<1>2. QED
  BY <1>1, SameIndex, FolderSame

LEMMA FolderTells == FolderIInv => FolderTellsAll
<1> SUFFICES ASSUME FolderIInv, NEW s \in Searches, search[s].pc = "ended", ~search[s].found
             PROVE  search[s].steady = {}
  BY DEF FolderTellsAll
<1>1. Told(search[s])
  BY Underway
<1>2. QED
  BY <1>1 DEF Told

-----------------------------------------------------------------------------
(* The read node.                                                           *)

Readers == Messages \cup Ticks

OnceEach(ports) == \A i, j \in DOMAIN ports : ports[i] = ports[j] => i = j

\* One turn of the fold that is PortsIn, and the fold as a function on sets of indices.
Add(ports, e) == IF e = Junk \/ Contains(ports, e) THEN ports ELSE Append(ports, e)

Turns(entries, g) ==
    [s \in SUBSET DOMAIN entries |->
       IF s = {} THEN <<>> ELSE Add(g[s \ {Max(s)}], entries[Max(s)])]

LEMMA Unfolded ==
  ASSUME NEW entries
  PROVE  PortsIn(entries) = (CHOOSE g : g = Turns(entries, g))[DOMAIN entries]
BY Zenon DEF PortsIn, FoldLeft, MapThenFoldSet, Add, Turns

LEMMA AddOK ==
  ASSUME NEW ports \in Seq(Ports), OnceEach(ports), NEW e \in Ports \cup {Junk}
  PROVE  /\ Add(ports, e) \in Seq(Ports) /\ OnceEach(Add(ports, e))
         /\ Len(Add(ports, e)) <= Len(ports) + 1
<1>1. CASE e = Junk \/ Contains(ports, e)
  BY <1>1 DEF Add
<1>2. CASE ~(e = Junk \/ Contains(ports, e))
  <2> DEFINE n == Len(ports)
             new == Append(ports, e)
  <2>1. n \in Nat /\ DOMAIN ports = 1..n /\ e \in Ports
    BY <1>2
  <2>2. /\ new \in Seq(Ports) /\ Len(new) = n + 1 /\ DOMAIN new = 1..(n + 1)
        /\ \A i \in 1..n : new[i] = ports[i]
        /\ new[n + 1] = e
    BY <2>1
  <2>3. \A i \in 1..n : ports[i] # e
    BY <1>2 DEF Contains
  <2>4. Add(ports, e) = new
    BY <1>2 DEF Add
  <2>5. \A i, j \in 1..n : ports[i] = ports[j] => i = j
    BY <2>1 DEF OnceEach
  <2> HIDE DEF n, new
  <2>6. OnceEach(new)
    <3>1. ASSUME NEW i \in 1..(n + 1), NEW j \in 1..(n + 1), new[i] = new[j]
          PROVE  i = j
      BY <2>1, <2>2, <2>3, <2>5, <3>1
    <3>2. QED
      BY <2>2, <3>1 DEF OnceEach
  <2>7. QED
    BY <2>1, <2>2, <2>4, <2>6 DEF n
<1>3. QED
  BY <1>1, <1>2

LEMMA MaxOfFew == Max({1}) = 1 /\ Max({2}) = 2 /\ Max({1, 2}) = 2
<1>1. Max({1}) = 1
  <2>1. \E x \in {1} : \A y \in {1} : x >= y
    OBVIOUS
  <2>2. QED
    BY <2>1 DEF Max
<1>2. Max({2}) = 2
  <2>1. \E x \in {2} : \A y \in {2} : x >= y
    OBVIOUS
  <2>2. QED
    BY <2>1 DEF Max
<1>3. Max({1, 2}) = 2
  <2>1. 2 \in {1, 2} /\ \A y \in {1, 2} : 2 >= y
    OBVIOUS
  <2>2. \A x \in {1, 2} : (\A y \in {1, 2} : x >= y) => x = 2
    OBVIOUS
  <2>3. QED
    BY <2>1, <2>2 DEF Max
<1>4. QED
  BY <1>1, <1>2, <1>3

LEMMA ListsParts ==
  ASSUME NEW entries \in Lists
  PROVE  /\ DOMAIN entries = {1} \/ DOMAIN entries = {1, 2}
         /\ entries \in Seq(Ports \cup {Junk}) /\ Len(entries) \in 1..2
         /\ \A i \in DOMAIN entries : entries[i] \in Ports \cup {Junk}
<1>1. PICK n \in 0..2 : entries \in [1..n -> Ports \cup {Junk}]
  BY DEF Lists, BoundedSeq, SeqOf
<1>2. entries # <<>>
  BY DEF Lists
<1>3. entries \in Seq(Ports \cup {Junk}) /\ Len(entries) = n
  BY <1>1
<1>4. n # 0
  BY <1>2, <1>3
<1>5. n = 1 \/ n = 2
  BY <1>1, <1>4
<1>6. 1..1 = {1} /\ 1..2 = {1, 2}
  OBVIOUS
<1>7. QED
  BY <1>1, <1>3, <1>5, <1>6

\* What the fold makes of a list of one entry or two.
LEMMA FoldOfFew ==
  ASSUME NEW entries \in Lists
  PROVE  \/ PortsIn(entries) = Add(<<>>, entries[1])
         \/ /\ DOMAIN entries = {1, 2}
            /\ PortsIn(entries) = Add(Add(<<>>, entries[1]), entries[2])
<1> DEFINE D == DOMAIN entries
           one == Add(<<>>, entries[1])
           two == Add(<<>>, entries[2])
           both == Add(one, entries[2])
           h == [s \in SUBSET D |-> IF s = {} THEN <<>> ELSE IF s = {1} THEN one
                                    ELSE IF s = {2} THEN two ELSE both]
           g == CHOOSE x : x = Turns(entries, x)
<1>1. D = {1} \/ D = {1, 2}
  BY ListsParts
<1>2. \A s \in SUBSET D : s = {} \/ s = {1} \/ s = {2} \/ s = {1, 2}
  BY <1>1
<1>3. /\ {1} \ {1} = {} /\ {2} \ {2} = {} /\ {1, 2} \ {2} = {1}
      /\ {1} # {2} /\ {1, 2} # {1} /\ {1, 2} # {2} /\ {1} # {} /\ {2} # {} /\ {1, 2} # {}
  OBVIOUS
<1>4. ASSUME NEW s \in SUBSET D
      PROVE  h[s] = Turns(entries, h)[s]
  <2> DEFINE H == h
  <2>1. /\ H[{}] = <<>>
        /\ {1} \in SUBSET D => H[{1}] = one
        /\ {2} \in SUBSET D => H[{2}] = two
        /\ {1, 2} \in SUBSET D => H[{1, 2}] = both
    BY <1>3
  <2> HIDE DEF H
  <2>2. Turns(entries, H)[s] = IF s = {} THEN <<>>
                               ELSE Add(H[s \ {Max(s)}], entries[Max(s)])
    BY DEF Turns
  <2>3. CASE s = {}
    BY <2>1, <2>2, <2>3 DEF H
  <2>4. CASE s = {1}
    BY <1>3, <2>1, <2>2, <2>4, MaxOfFew DEF H
  <2>5. CASE s = {2}
    BY <1>3, <2>1, <2>2, <2>5, MaxOfFew DEF H
  <2>6. CASE s = {1, 2}
    <3>1. {1} \in SUBSET D
      BY <2>6
    <3>2. QED
      BY <1>3, <2>1, <2>2, <2>6, <3>1, MaxOfFew DEF H
  <2>7. QED
    BY <1>2, <2>3, <2>4, <2>5, <2>6
<1>5. h = Turns(entries, h)
  <2>1. Turns(entries, h) = [s \in SUBSET D |-> Turns(entries, h)[s]]
    BY DEF Turns
  <2>2. h = [s \in SUBSET D |-> h[s]]
    OBVIOUS
  <2> HIDE DEF h
  <2>3. QED
    BY <1>4, <2>1, <2>2
<1> HIDE DEF h
<1>6. g = Turns(entries, g)
  BY <1>5
<1>7. PortsIn(entries) = g[D]
  BY Unfolded
<1> HIDE DEF g
<1>8. \A s \in SUBSET D : g[s] = IF s = {} THEN <<>>
                                 ELSE Add(g[s \ {Max(s)}], entries[Max(s)])
  <2> DEFINE T == Turns(entries, g)
  <2>1. \A s \in SUBSET D : T[s] = IF s = {} THEN <<>>
                                   ELSE Add(g[s \ {Max(s)}], entries[Max(s)])
    BY DEF Turns
  <2> HIDE DEF T
  <2>2. g = T
    BY <1>6 DEF T
  <2>3. QED
    BY <2>1, <2>2
<1> HIDE DEF D
<1>9. {} \in SUBSET D /\ {1} \in SUBSET D
  BY <1>1
<1>10. g[{}] = <<>> /\ g[{1}] = one
  <2>1. g[{}] = <<>>
    BY <1>8, <1>9
  <2>2. g[{1}] = Add(g[{1} \ {1}], entries[1])
    BY <1>3, <1>8, <1>9, MaxOfFew
  <2>3. QED
    BY <1>3, <2>1, <2>2
<1>11. CASE D = {1}
  BY <1>7, <1>10, <1>11
<1>12. CASE D = {1, 2}
  <2>1. g[{1, 2}] = Add(g[{1, 2} \ {2}], entries[2])
    BY <1>3, <1>8, <1>12, MaxOfFew
  <2>2. g[{1, 2}] = both
    BY <1>3, <1>10, <2>1
  <2>3. QED
    BY <1>7, <1>12, <2>2 DEF D
<1>13. QED
  BY <1>1, <1>11, <1>12

\* A read asks for each port once, and for no more than the list named.
LEMMA PortsInOK ==
  ASSUME NEW entries \in Lists
  PROVE  /\ PortsIn(entries) \in Seq(Ports) /\ OnceEach(PortsIn(entries))
         /\ Len(PortsIn(entries)) <= 2
         /\ PortsIn(entries) # <<>> => PortsIn(entries) \in Lists
<1> DEFINE none == <<>>
           one == Add(none, entries[1])
           both == Add(one, entries[2])
           ports == PortsIn(entries)
<1>1. none \in Seq(Ports) /\ OnceEach(none) /\ Len(none) = 0
  BY DEF OnceEach
<1>2. entries[1] \in Ports \cup {Junk} /\ (DOMAIN entries = {1, 2} => entries[2] \in Ports \cup {Junk})
  BY ListsParts
<1> HIDE DEF none
<1>3. one \in Seq(Ports) /\ OnceEach(one) /\ Len(one) <= 1
  <2>1. one \in Seq(Ports) /\ OnceEach(one) /\ Len(one) <= Len(none) + 1
    BY <1>1, <1>2, AddOK
  <2>2. QED
    BY <1>1, <2>1
<1> HIDE DEF one
<1>4. DOMAIN entries = {1, 2} =>
        both \in Seq(Ports) /\ OnceEach(both) /\ Len(both) <= Len(one) + 1 /\ Len(one) \in Nat
  BY <1>2, <1>3, AddOK
<1> HIDE DEF both
<1>5. ports = one \/ (DOMAIN entries = {1, 2} /\ ports = both)
  BY FoldOfFew DEF one, both, none
<1> HIDE DEF ports
<1>6. ports \in Seq(Ports) /\ OnceEach(ports) /\ Len(ports) <= 2 /\ Len(ports) \in Nat
  BY <1>3, <1>4, <1>5
<1>7. ports # <<>> => ports \in Lists
  <2>1. ports \in [1..Len(ports) -> Ports]
    BY <1>6
  <2>2. ports \in [1..Len(ports) -> Ports \cup {Junk}]
    BY <2>1
  <2> DEFINE n == Len(ports)
  <2>3. n \in Nat /\ n <= 2
    BY <1>6
  <2> HIDE DEF n
  <2>4. n \in 0..2
    BY <2>3
  <2>5. QED
    BY <2>2, <2>4 DEF n, Lists, BoundedSeq, SeqOf
<1>8. QED
  BY <1>6, <1>7 DEF ports

\* A read under way has read or failed each port it has been at, once; what it has
\* read is no newer than what there is.
Accounts(k) ==
    /\ k \in Reads /\ k.at \in DOMAIN k.ports
    /\ k.ports \in Seq(Ports) /\ OnceEach(k.ports)
    /\ DOMAIN k.read \cup k.errors = {k.ports[i] : i \in 1..(k.at - 1)}
    /\ DOMAIN k.read \cap k.errors = {}
    /\ \A p \in DOMAIN k.read : k.read[p] <= measured[p]
    /\ \A v \in k.carried : v[1] \in DOMAIN k.read

\* No other read of the timer is under way.
Alone(r) == \A t \in Ticks : reading[t] # Resting => t = r

\* The timer reads alone, and what it has read is no older than what it sent last.
OfTimer ==
    \A t \in Ticks : reading[t] # Resting =>
      /\ inFlight /\ Alone(t)
      /\ \A p \in DOMAIN reading[t].read : latest[p] <= reading[t].read[p]

Configured == ~reader.fromMessage => reader.ports \in Lists

ReadIInv ==
    /\ ReadTypeOK /\ ReadTellsAll /\ Configured /\ OfTimer
    /\ reading \in [Readers -> {Resting} \cup Reads]
    /\ \A r \in Readers : reading[r] # Resting => Accounts(reading[r])
    /\ \A p \in Ports : latest[p] <= measured[p]

\* What TimerGoesForward says of a step.
Forward ==
    \/ stopped /\ ~stopped'
    \/ /\ \A p \in Ports : latest'[p] >= latest[p]
       /\ stopped => (sent' = Silence \/ sent'.by \in Messages)

\* What is sent of the ports that were asked for and the values that were read.
Tells(ports, read, carried, parts, errors) ==
    /\ read \cup errors = ports /\ read \cap errors = {}
    /\ UNION {part.carried : part \in parts} = carried
    /\ \A part, other \in parts :
         /\ part.errors = errors
         /\ (part.topic = other.topic \/ part.carried \cap other.carried # {}) => part = other
    /\ \A p \in read :
         \/ \E part \in parts : p \in DOMAIN part.values
         \/ reader.split /\ \A v \in carried : v[1] # p

\* Saying nothing is an account of nothing.
LEMMA SilenceOK ==
  /\ Silence.by \in Readers /\ Silence.ports = {} /\ Silence.read = {}
  /\ Silence.carried = {} /\ Silence.parts = {} /\ Silence.errors = {}
BY ReadAssumption DEF Silence, Readers

LEMMA QuietOK ==
  ASSUME Quiet
  PROVE  /\ sent'.by \in Readers /\ sent'.ports \in SUBSET Ports /\ sent'.read \in SUBSET Ports
         /\ sent'.errors \in SUBSET Ports /\ sent'.carried \in SUBSET Carried
         /\ \A part \in sent'.parts : part \in Parts
         /\ ReadTellsAll' /\ UNCHANGED latest /\ sent' = Silence
<1>1. sent' = Silence /\ UNCHANGED latest
  BY DEF Quiet
<1>2. ReadTellsAll'
  <2>1. /\ sent'.ports = {} /\ sent'.read = {} /\ sent'.carried = {} /\ sent'.parts = {}
        /\ sent'.errors = {}
    BY <1>1, SilenceOK
  <2>2. UNION {part.carried : part \in sent'.parts} = {}
    BY <2>1
  <2>3. QED
    BY <2>1, <2>2 DEF ReadTellsAll
<1>3. QED
  BY <1>1, <1>2, SilenceOK

LEMMA ReadInitOK == ReadInit => ReadIInv
<1> SUFFICES ASSUME ReadInit
             PROVE  ReadIInv
  OBVIOUS
<1>1. /\ reader \in Configurations /\ (reader.fromMessage <=> reader.ports = <<>>)
      /\ measured = [p \in Ports |-> 0] /\ reading = [r \in Readers |-> Resting]
      /\ inFlight = FALSE /\ stopped = FALSE /\ sent = Silence
      /\ latest = [p \in Ports |-> 0]
  BY DEF ReadInit, Readers
<1>2. 0 \in 0..MaxMeasured
  BY ReadAssumption
<1>3. /\ sent.by \in Readers /\ sent.ports = {} /\ sent.read = {} /\ sent.carried = {}
      /\ sent.parts = {} /\ sent.errors = {}
  BY <1>1, SilenceOK
<1>4. ReadTypeOK
  BY <1>1, <1>2, <1>3 DEF ReadTypeOK, Readers
<1>5. ReadTellsAll
  <2>1. UNION {part.carried : part \in sent.parts} = {}
    BY <1>3
  <2>2. QED
    BY <1>3, <2>1 DEF ReadTellsAll
<1>6. Configured
  BY <1>1 DEF Configured, Configurations
<1>7. OfTimer
  BY <1>1 DEF OfTimer, Readers
<1>8. QED
  BY <1>1, <1>4, <1>5, <1>6, <1>7 DEF ReadIInv

LEMMA ReadParts ==
  ASSUME ReadIInv
  PROVE  /\ measured \in [Ports -> 0..MaxMeasured] /\ latest \in [Ports -> 0..MaxMeasured]
         /\ reading \in [Readers -> {Resting} \cup Reads]
         /\ \A r \in Readers : reading[r] # Resting => Accounts(reading[r])
         /\ \A r \in Readers : reading[r].pc # "idle" => reading[r] # Resting
         /\ \A p \in Ports : latest[p] <= measured[p]
         /\ MaxMeasured \in Nat
BY ReadAssumption DEF ReadIInv, ReadTypeOK, Resting

\* A read that begins or goes on: nothing is sent.
LEMMA ReadingOn ==
  ASSUME ReadIInv, NEW r \in Readers, NEW k, Accounts(k),
         reading' = [reading EXCEPT ![r] = k],
         UNCHANGED <<reader, measured, stopped>>, Quiet,
         inFlight' \in BOOLEAN, inFlight => inFlight',
         r \in Ticks => /\ inFlight' /\ Alone(r)
                        /\ \A p \in DOMAIN k.read : latest[p] <= k.read[p]
  PROVE  ReadIInv' /\ Forward
<1>1. k \in Reads /\ k.at \in DOMAIN k.ports /\ UNCHANGED latest
  BY QuietOK DEF Accounts
<1>2. /\ reading' \in [Readers -> {Resting} \cup Reads] /\ reading'[r] = k
      /\ \A o \in Readers \ {r} : reading'[o] = reading[o]
  BY <1>1, ReadParts
<1>3. ReadTypeOK'
  <2>1. \A o \in Readers : reading'[o] # Resting =>
          reading'[o] \in Reads /\ reading'[o].at \in DOMAIN reading'[o].ports
    BY <1>1, <1>2 DEF ReadIInv, ReadTypeOK, Readers
  <2>2. QED
    BY <1>1, <2>1, QuietOK DEF ReadIInv, ReadTypeOK, Readers
<1>4. ReadTellsAll' /\ Configured'
  BY QuietOK DEF ReadIInv, Configured
<1>5. OfTimer'
  <2>1. ASSUME NEW t \in Ticks, reading'[t] # Resting
        PROVE  /\ inFlight'
               /\ \A u \in Ticks : reading'[u] # Resting => u = t
               /\ \A p \in DOMAIN reading'[t].read : latest'[p] <= reading'[t].read[p]
    <3>1. CASE t = r
      BY <1>1, <1>2, <3>1 DEF Alone, Readers
    <3>2. CASE t # r
      <4>1. reading[t] # Resting
        BY <1>2, <2>1, <3>2 DEF Readers
      <4>2. /\ inFlight /\ Alone(t)
            /\ \A p \in DOMAIN reading[t].read : latest[p] <= reading[t].read[p]
        BY <4>1 DEF ReadIInv, OfTimer
      <4>3. r \notin Ticks
        BY <3>2, <4>1 DEF Alone
      <4>4. QED
        BY <1>1, <1>2, <3>2, <4>2, <4>3 DEF Alone, Readers
    <3>3. QED
      BY <3>1, <3>2
  <2>2. QED
    BY <2>1 DEF OfTimer, Alone
<1>6. ASSUME NEW o \in Readers, reading'[o] # Resting
      PROVE  Accounts(reading[o])'
  <2> DEFINE j == reading'[o]
  <2>1. Accounts(j)
    <3>1. CASE o = r
      BY <1>2, <3>1
    <3>2. CASE o # r
      BY <1>2, <1>6, <3>2 DEF ReadIInv
    <3>3. QED
      BY <3>1, <3>2
  <2> HIDE DEF j
  <2>2. QED
    BY <2>1 DEF j, Accounts
<1>7. \A p \in Ports : latest'[p] <= measured'[p]
  BY <1>1, ReadParts
<1>8. Forward
  <2>1. \A p \in Ports : latest'[p] >= latest[p]
    BY <1>1, ReadParts
  <2>2. QED
    BY <2>1, QuietOK DEF Forward
<1>9. QED
  BY <1>2, <1>3, <1>4, <1>5, <1>6, <1>7, <1>8 DEF ReadIInv

\* A read that ends, and what it sends.
LEMMA EndOK ==
  ASSUME ReadIInv, NEW r \in Readers, NEW ports \in SUBSET Ports, NEW parts \in SUBSET Parts,
         NEW errors \in SUBSET Ports, NEW read, DOMAIN read \in SUBSET Ports,
         NEW carried \in SUBSET Carried, Tells(ports, DOMAIN read, carried, parts, errors),
         \A part \in parts : \A p \in DOMAIN part.values :
           part.values[p] <= measured[p] /\ (r \in Ticks => latest[p] <= part.values[p]),
         r \in Ticks => Alone(r),
         End(r, ports, read, carried, parts, errors), UNCHANGED <<reader, measured, stopped>>
  PROVE  ReadIInv' /\ Forward
<1>1. /\ reading' = [reading EXCEPT ![r] = Resting]
      /\ inFlight' = (inFlight /\ r \notin Ticks)
  BY DEF End
<1>2. /\ reading' \in [Readers -> {Resting} \cup Reads] /\ reading'[r] = Resting
      /\ \A o \in Readers \ {r} : reading'[o] = reading[o]
  BY <1>1, ReadParts
<1>3. \A part \in parts : part.values \in Readings
  BY DEF Parts
<1>4. \A part \in parts : \A p \in DOMAIN part.values :
        p \in Ports /\ part.values[p] \in 0..MaxMeasured
  BY <1>3 DEF Readings
<1>5. /\ Freshest(parts) \in [Ports -> 0..MaxMeasured]
      /\ \A p \in Ports : Freshest(parts)[p] <= measured[p]
      /\ r \in Ticks => \A p \in Ports : latest[p] <= Freshest(parts)[p]
  <2>1. ASSUME NEW p \in Ports
        PROVE  /\ Freshest(parts)[p] \in 0..MaxMeasured /\ Freshest(parts)[p] <= measured[p]
               /\ r \in Ticks => latest[p] <= Freshest(parts)[p]
    <3>1. CASE \E part \in parts : p \in DOMAIN part.values
      <4> DEFINE q == CHOOSE part \in parts : p \in DOMAIN part.values
      <4>1. q \in parts /\ p \in DOMAIN q.values
        BY <3>1
      <4>2. Freshest(parts)[p] = q.values[p]
        BY <3>1 DEF Freshest
      <4> HIDE DEF q
      <4>3. QED
        BY <1>4, <4>1, <4>2
    <3>2. CASE ~(\E part \in parts : p \in DOMAIN part.values)
      <4>1. Freshest(parts)[p] = latest[p]
        BY <3>2 DEF Freshest
      <4>2. latest[p] \in 0..MaxMeasured /\ latest[p] <= measured[p]
        BY ReadParts
      <4>3. QED
        BY <4>1, <4>2
    <3>3. QED
      BY <3>1, <3>2
  <2>2. Freshest(parts) = [p \in Ports |-> Freshest(parts)[p]]
    BY DEF Freshest
  <2>3. QED
    BY <2>1, <2>2
<1>6. \/ /\ Speaks(r)
         /\ sent' = [by |-> r, ports |-> ports, read |-> DOMAIN read, carried |-> carried,
                     parts |-> parts, errors |-> errors]
         /\ latest' = IF r \in Ticks THEN Freshest(parts) ELSE latest
      \/ ~Speaks(r) /\ Quiet
  BY DEF End
<1> HIDE DEF End
<1>7. /\ latest' \in [Ports -> 0..MaxMeasured]
      /\ \A p \in Ports : latest'[p] <= measured[p] /\ latest'[p] >= latest[p]
      /\ r \notin Ticks => latest' = latest
  BY <1>5, <1>6, ReadParts, QuietOK
<1>8. /\ sent'.by \in Readers /\ sent'.ports \in SUBSET Ports /\ sent'.errors \in SUBSET Ports
      /\ sent'.read \in SUBSET Ports /\ sent'.carried \in SUBSET Carried
      /\ \A part \in sent'.parts : part \in Parts
  BY <1>6, QuietOK
<1>9. ReadTellsAll'
  <2>1. CASE Quiet
    BY <2>1, QuietOK
  <2>2. CASE sent' = [by |-> r, ports |-> ports, read |-> DOMAIN read, carried |-> carried,
                      parts |-> parts, errors |-> errors]
    <3>1. /\ sent'.ports = ports /\ sent'.parts = parts /\ sent'.errors = errors
          /\ sent'.read = DOMAIN read /\ sent'.carried = carried
      BY <2>2
    <3>2. QED
      BY <3>1 DEF Tells, ReadTellsAll
  <2>3. QED
    BY <1>6, <2>1, <2>2
<1>10. ReadTypeOK'
  <2>1. \A o \in Readers : reading'[o] # Resting =>
          reading'[o] \in Reads /\ reading'[o].at \in DOMAIN reading'[o].ports
    BY <1>2 DEF ReadIInv, ReadTypeOK, Readers
  <2>2. inFlight' \in BOOLEAN
    BY <1>1
  <2>3. QED
    BY <1>7, <1>8, <2>1, <2>2 DEF ReadIInv, ReadTypeOK, Readers
<1>11. OfTimer'
  <2>1. ASSUME NEW t \in Ticks, reading'[t] # Resting
        PROVE  /\ inFlight'
               /\ \A u \in Ticks : reading'[u] # Resting => u = t
               /\ \A p \in DOMAIN reading'[t].read : latest'[p] <= reading'[t].read[p]
    <3>1. t # r /\ reading'[t] = reading[t]
      BY <1>2, <2>1 DEF Readers
    <3>2. r \notin Ticks
      BY <2>1, <3>1 DEF Alone
    <3>3. /\ inFlight /\ Alone(t)
          /\ \A p \in DOMAIN reading[t].read : latest[p] <= reading[t].read[p]
      BY <2>1, <3>1 DEF ReadIInv, OfTimer
    <3>4. \A u \in Ticks : reading'[u] # Resting => reading[u] # Resting
      BY <1>2 DEF Readers
    <3>5. QED
      BY <1>1, <1>7, <3>1, <3>2, <3>3, <3>4 DEF Alone
  <2>2. QED
    BY <2>1 DEF OfTimer, Alone
<1>12. ASSUME NEW o \in Readers, reading'[o] # Resting
       PROVE  Accounts(reading[o])'
  <2>1. o # r /\ reading'[o] = reading[o]
    BY <1>2, <1>12
  <2>2. Accounts(reading[o])
    BY <1>12, <2>1 DEF ReadIInv
  <2>3. QED
    BY <2>1, <2>2 DEF Accounts
<1>13. Configured'
  BY DEF ReadIInv, Configured
<1>14. Forward
  <2>1. stopped => (sent' = Silence \/ sent'.by \in Messages)
    BY <1>6, QuietOK DEF Speaks
  <2>2. QED
    BY <1>7, <2>1 DEF Forward
<1>15. QED
  BY <1>2, <1>7, <1>9, <1>10, <1>11, <1>12, <1>13, <1>14 DEF ReadIInv

LEMMA InFlightOK == ReadIInv => inFlight \in BOOLEAN
BY DEF ReadIInv, ReadTypeOK

\* With nothing in it a message says nothing of anything.
LEMMA NothingToTell == Tells({}, {}, {}, {}, {})
BY DEF Tells

\* The parts say what was read, each under a topic of its own.
LEMMA BodyOK ==
  ASSUME NEW ports \in Seq(Ports), NEW read \in Readings, NEW carried \in SUBSET Carried,
         NEW errors \in SUBSET Ports, \A v \in carried : v[1] \in DOMAIN read,
         DOMAIN read \cup errors = ToSet(ports), DOMAIN read \cap errors = {}
  PROVE  LET parts == IF DOMAIN read = {} THEN {} ELSE Body(ports, read, carried, errors) IN
         /\ parts \in SUBSET Parts
         /\ Tells(ToSet(ports), DOMAIN read, carried, parts, errors)
         /\ \A part \in parts : \A p \in DOMAIN part.values :
              p \in DOMAIN read /\ part.values[p] = read[p]
<1> DEFINE parts == IF DOMAIN read = {} THEN {} ELSE Body(ports, read, carried, errors)
<1>1. /\ DOMAIN read \in SUBSET Ports
      /\ \A p \in DOMAIN read : read[p] \in 0..MaxMeasured
  BY DEF Readings
<1>2. \A v \in carried : v = <<v[1], v[2]>> /\ v[1] \in Ports /\ v[2] \in Keys
  BY DEF Carried
<1>3. CASE DOMAIN read = {}
  <2>1. parts = {} /\ carried = {}
    BY <1>3
  <2>2. UNION {part.carried : part \in {}} = {}
    OBVIOUS
  <2>3. Tells(ToSet(ports), DOMAIN read, carried, {}, errors)
    BY <1>3, <2>1, <2>2 DEF Tells
  <2>4. QED
    BY <2>1, <2>3
<1>4. CASE DOMAIN read # {} /\ ~reader.split
  <2> DEFINE part == [topic |-> <<"msg">>, values |-> read, carried |-> carried,
                      errors |-> errors]
  <2>1. parts = {part}
    BY <1>4 DEF Body
  <2>2. part \in Parts
    BY DEF Parts
  <2>3. part.values = read /\ part.errors = errors /\ part.carried = carried
    OBVIOUS
  <2> HIDE DEF part
  <2>4. UNION {q.carried : q \in {part}} = carried
    BY <2>3
  <2>5. Tells(ToSet(ports), DOMAIN read, carried, {part}, errors)
    BY <2>3, <2>4 DEF Tells
  <2> HIDE DEF parts
  <2>6. \A q \in parts : \A p \in DOMAIN q.values : p \in DOMAIN read /\ q.values[p] = read[p]
    BY <2>1, <2>3
  <2>7. QED
    BY <2>1, <2>2, <2>5, <2>6 DEF parts
<1>5. CASE DOMAIN read # {} /\ reader.split
  <2> DEFINE part(v) == [topic |-> <<TopicFor(v[1], Len(ports)), v[2]>>,
                         values |-> [q \in {v[1]} |-> read[v[1]]], carried |-> {v},
                         errors |-> errors]
  <2>1. parts = {part(v) : v \in carried}
    BY <1>5 DEF Body
  <2>2. ASSUME NEW v \in carried
        PROVE  /\ part(v) \in Parts
               /\ part(v).topic = <<TopicFor(v[1], Len(ports)), v[2]>>
               /\ part(v).errors = errors /\ part(v).carried = {v}
               /\ DOMAIN part(v).values = {v[1]} /\ part(v).values[v[1]] = read[v[1]]
    <3>1. TopicFor(v[1], Len(ports)) \in TopicHeads
      BY <1>2 DEF TopicFor, TopicHeads
    <3>2. <<TopicFor(v[1], Len(ports)), v[2]>> \in TopicHeads \X Keys
      BY <1>2, <3>1
    <3>3. [q \in {v[1]} |-> read[v[1]]] \in Readings
      <4>1. {v[1]} \in SUBSET Ports
            /\ [q \in {v[1]} |-> read[v[1]]] \in [{v[1]} -> 0..MaxMeasured]
        BY <1>1, <1>2
      <4>2. QED
        BY <4>1 DEF Readings
    <3>4. {v} \in SUBSET Carried
      OBVIOUS
    <3>5. QED
      BY <3>2, <3>3, <3>4 DEF Parts
  <2>3. ASSUME NEW v \in carried, NEW w \in carried,
               <<TopicFor(v[1], Len(ports)), v[2]>> = <<TopicFor(w[1], Len(ports)), w[2]>>
        PROVE  v = w
    <3>1. TopicFor(v[1], Len(ports)) = TopicFor(w[1], Len(ports)) /\ v[2] = w[2]
      BY <2>3
    <3>2. v[1] = w[1]
      <4>1. CASE ~reader.prefix
        BY <3>1, <4>1 DEF TopicFor
      <4>2. CASE reader.prefix /\ Len(ports) # 1
        BY <3>1, <4>2 DEF TopicFor
      <4>3. CASE reader.prefix /\ Len(ports) = 1
        <5>1. DOMAIN ports = {1}
          BY <4>3
        <5>2. v[1] \in ToSet(ports) /\ w[1] \in ToSet(ports)
          OBVIOUS
        <5>3. QED
          BY <5>1, <5>2 DEF ToSet
      <4>4. QED
        BY <4>1, <4>2, <4>3
    <3>3. QED
      BY <1>2, <3>1, <3>2
  <2> HIDE DEF part
  <2>4. UNION {q.carried : q \in {part(v) : v \in carried}} = carried
    <3>1. ASSUME NEW v \in carried
          PROVE  v \in UNION {q.carried : q \in {part(w) : w \in carried}}
      <4>1. part(v) \in {part(w) : w \in carried} /\ v \in part(v).carried
        BY <2>2
      <4>2. QED
        BY <4>1
    <3>2. ASSUME NEW x \in UNION {q.carried : q \in {part(w) : w \in carried}}
          PROVE  x \in carried
      <4>1. PICK w \in carried : x \in part(w).carried
        OBVIOUS
      <4>2. QED
        BY <2>2, <4>1
    <3>3. QED
      BY <3>1, <3>2
  <2>5. Tells(ToSet(ports), DOMAIN read, carried, parts, errors)
    <3> HIDE DEF parts
    <3>1. ASSUME NEW one \in parts, NEW other \in parts
          PROVE  /\ one.errors = errors
                 /\ (one.topic = other.topic \/ one.carried \cap other.carried # {}) => one = other
      <4>1. PICK v \in carried : one = part(v)
        BY <2>1
      <4>2. PICK w \in carried : other = part(w)
        BY <2>1
      <4>3. one.errors = errors /\ (one.topic = other.topic => v = w)
        BY <2>2, <2>3, <4>1, <4>2
      <4>4. one.carried \cap other.carried # {} => v = w
        BY <2>2, <4>1, <4>2
      <4>5. QED
        BY <4>1, <4>2, <4>3, <4>4
    <3>2. UNION {q.carried : q \in parts} = carried
      BY <2>1, <2>4
    <3>3. ASSUME NEW p \in DOMAIN read
          PROVE  \/ \E q \in parts : p \in DOMAIN q.values
                 \/ reader.split /\ \A v \in carried : v[1] # p
      <4>1. CASE \E v \in carried : v[1] = p
        <5>1. PICK v \in carried : v[1] = p
          BY <4>1
        <5>2. part(v) \in parts /\ p \in DOMAIN part(v).values
          BY <2>1, <2>2, <5>1
        <5>3. QED
          BY <5>2
      <4>2. CASE \A v \in carried : v[1] # p
        BY <1>5, <4>2
      <4>3. QED
        BY <4>1, <4>2
    <3>4. QED
      BY <3>1, <3>2, <3>3 DEF Tells
  <2> HIDE DEF parts
  <2>6. ASSUME NEW one \in parts
        PROVE  /\ one \in Parts
               /\ \A p \in DOMAIN one.values : p \in DOMAIN read /\ one.values[p] = read[p]
    <3>1. PICK v \in carried : one = part(v)
      BY <2>1
    <3>2. QED
      BY <2>2, <3>1
  <2>7. QED
    BY <2>5, <2>6 DEF parts
<1>6. QED
  BY <1>3, <1>4, <1>5

LEMMA TurnOK ==
  ASSUME ReadIInv, NEW r \in Readers, reading[r] # Resting,
         NEW read \in Readings, NEW carried \in SUBSET Carried, NEW errors \in SUBSET Ports,
         DOMAIN read \cup errors = {reading[r].ports[i] : i \in 1..reading[r].at},
         DOMAIN read \cap errors = {},
         \A p \in DOMAIN read :
           read[p] <= measured[p] /\ (r \in Ticks => latest[p] <= read[p]),
         \A v \in carried : v[1] \in DOMAIN read,
         Turn(r, read, carried, errors), UNCHANGED <<reader, measured, stopped>>
  PROVE  ReadIInv' /\ Forward
<1> DEFINE j == reading[r]
           ports == j.ports
           at == j.at
           n == Len(ports)
<1>1. Accounts(j)
  BY ReadParts
<1>2. /\ j \in Reads /\ ports \in Lists /\ ports \in Seq(Ports) /\ OnceEach(ports)
      /\ at \in DOMAIN ports /\ j.pc \in {"resolving", "data"}
  BY <1>1 DEF Accounts, Reads
<1>3. n \in 1..2 /\ DOMAIN ports = 1..n /\ at \in 1..n
  BY <1>2, ListsParts
<1>4. r \in Ticks => inFlight /\ Alone(r)
  BY DEF ReadIInv, OfTimer
<1>5. CASE at < n
  <2> DEFINE k == [j EXCEPT !.pc = "resolving", !.at = j.at + 1,
                            !.read = read, !.carried = carried, !.errors = errors]
  <2>1. reading' = [reading EXCEPT ![r] = k] /\ Quiet /\ UNCHANGED inFlight
    BY <1>5 DEF Turn
  <2>2. at + 1 \in 1..2 /\ at + 1 \in DOMAIN ports /\ at + 1 - 1 = at
    <3> HIDE DEF n, at
    <3>1. QED
      BY <1>3, <1>5
  <2>3. /\ k \in Reads /\ k.ports = ports /\ k.at = at + 1 /\ k.read = read
        /\ k.errors = errors /\ k.carried = carried
    BY <1>2, <2>2 DEF Reads
  <2> HIDE DEF k, n, at, ports, j
  <2>4. DOMAIN read \cup errors = {ports[i] : i \in 1..at}
    BY DEF ports, at, j
  <2>5. Accounts(k)
    BY <1>2, <2>2, <2>3, <2>4 DEF Accounts
  <2>6. inFlight' \in BOOLEAN /\ (inFlight => inFlight')
    BY <2>1, InFlightOK
  <2>7. r \in Ticks => /\ inFlight' /\ Alone(r)
                       /\ \A p \in DOMAIN k.read : latest[p] <= k.read[p]
    BY <1>4, <2>1, <2>3
  <2>8. QED
    BY <2>1, <2>5, <2>6, <2>7, ReadingOn
<1>6. CASE ~(at < n)
  <2> DEFINE parts == IF DOMAIN read = {} THEN {} ELSE Body(ports, read, carried, errors)
  <2>1. End(r, ToSet(ports), read, carried, parts, errors)
    BY <1>6 DEF Turn
  <2>2. at = n
    BY <1>3, <1>6
  <2>3. ToSet(ports) = {ports[i] : i \in 1..at} /\ ToSet(ports) \in SUBSET Ports
    BY <1>2, <1>3, <2>2 DEF ToSet
  <2>4. DOMAIN read \cup errors = ToSet(ports)
    BY <2>3
  <2> HIDE DEF ports, at, j, n
  <2>5. /\ parts \in SUBSET Parts /\ Tells(ToSet(ports), DOMAIN read, carried, parts, errors)
        /\ \A part \in parts : \A p \in DOMAIN part.values :
             p \in DOMAIN read /\ part.values[p] = read[p]
    BY <1>2, <2>4, BodyOK
  <2> HIDE DEF parts
  <2>6. \A part \in parts : \A p \in DOMAIN part.values :
          part.values[p] <= measured[p] /\ (r \in Ticks => latest[p] <= part.values[p])
    BY <2>5
  <2>7. DOMAIN read \in SUBSET Ports
    BY DEF Readings
  <2>8. QED
    BY <1>4, <2>1, <2>3, <2>5, <2>6, <2>7, EndOK
<1>7. QED
  BY <1>5, <1>6

\* Before its turn ends, a port is one that was neither read nor failed.
LEMMA AtPort ==
  ASSUME ReadIInv, NEW r \in Readers, reading[r] # Resting
  PROVE  LET k == reading[r] IN
         /\ Port(r) \in Ports /\ Port(r) \notin DOMAIN k.read \cup k.errors
         /\ {k.ports[i] : i \in 1..k.at} = DOMAIN k.read \cup k.errors \cup {Port(r)}
         /\ k.read \in Readings /\ k.errors \in SUBSET Ports
         /\ DOMAIN k.read \cap k.errors = {}
         /\ k.carried \in SUBSET Carried /\ (\A v \in k.carried : v[1] \in DOMAIN k.read)
         /\ \A p \in DOMAIN k.read :
              k.read[p] <= measured[p] /\ (r \in Ticks => latest[p] <= k.read[p])
<1> DEFINE k == reading[r]
           ports == k.ports
           at == k.at
           n == Len(ports)
<1>1. Accounts(k)
  BY ReadParts
<1>2. /\ k \in Reads /\ ports \in Seq(Ports) /\ OnceEach(ports) /\ at \in DOMAIN ports
      /\ DOMAIN k.read \cup k.errors = {ports[i] : i \in 1..(at - 1)}
      /\ DOMAIN k.read \cap k.errors = {}
      /\ \A p \in DOMAIN k.read : k.read[p] <= measured[p]
      /\ \A v \in k.carried : v[1] \in DOMAIN k.read
  BY <1>1 DEF Accounts
<1>3. k.read \in Readings /\ k.errors \in SUBSET Ports /\ k.carried \in SUBSET Carried
  BY <1>2 DEF Reads
<1>4. n \in Nat /\ DOMAIN ports = 1..n /\ at \in 1..n
  BY <1>2
<1>5. r \in Ticks => \A p \in DOMAIN k.read : latest[p] <= k.read[p]
  BY DEF ReadIInv, OfTimer
<1>6. Port(r) = ports[at] /\ ports[at] \in Ports
  BY <1>2, <1>4 DEF Port
<1>7. \A i \in 1..(at - 1) : ports[i] # ports[at]
  <2>1. ASSUME NEW i \in 1..(at - 1)
        PROVE  i \in DOMAIN ports /\ i # at
    BY <1>4
  <2>2. QED
    BY <1>2, <2>1 DEF OnceEach
<1> HIDE DEF n, at, ports
<1>8. {ports[i] : i \in 1..at} = {ports[i] : i \in 1..(at - 1)} \cup {ports[at]}
  <2>1. \A i \in 1..at : i = at \/ i \in 1..(at - 1)
    BY <1>4
  <2>2. \A i \in 1..(at - 1) : i \in 1..at
    BY <1>4
  <2>3. at \in 1..at
    BY <1>4
  <2>4. QED
    BY <2>1, <2>2, <2>3
<1>9. /\ Port(r) \notin DOMAIN k.read \cup k.errors
      /\ {ports[i] : i \in 1..at} = DOMAIN k.read \cup k.errors \cup {Port(r)}
  BY <1>2, <1>6, <1>7, <1>8
<1>10. QED
  BY <1>2, <1>3, <1>5, <1>6, <1>9 DEF ports, at

LEMMA ResolvedOK ==
  ASSUME ReadIInv, NEW r \in Readers, Resolved(r)
  PROVE  ReadIInv' /\ Forward
<1>1. /\ reading[r].pc = "resolving" /\ reading' = [reading EXCEPT ![r].pc = "data"]
      /\ Quiet /\ UNCHANGED <<reader, measured, inFlight, stopped>>
  BY DEF Resolved
<1>2. reading[r] # Resting
  BY <1>1, ReadParts
<1> DEFINE j == reading[r]
           k == [j EXCEPT !.pc = "data"]
<1>3. Accounts(j)
  BY <1>2, ReadParts
<1>4. reading' = [reading EXCEPT ![r] = k]
  BY <1>1
<1>5. /\ k \in Reads /\ k.ports = j.ports /\ k.at = j.at /\ k.read = j.read
      /\ k.errors = j.errors /\ k.carried = j.carried
  BY <1>3 DEF Accounts, Reads
<1>6. r \in Ticks => inFlight /\ Alone(r) /\ \A p \in DOMAIN j.read : latest[p] <= j.read[p]
  BY <1>2 DEF ReadIInv, OfTimer
<1> HIDE DEF k, j
<1>7. Accounts(k)
  BY <1>3, <1>5 DEF Accounts
<1>8. inFlight' \in BOOLEAN /\ (inFlight => inFlight')
  BY <1>1, InFlightOK
<1>9. r \in Ticks => /\ inFlight' /\ Alone(r)
                     /\ \A p \in DOMAIN k.read : latest[p] <= k.read[p]
  BY <1>1, <1>5, <1>6
<1>10. QED
  BY <1>1, <1>4, <1>7, <1>8, <1>9, ReadingOn

LEMMA DataArriveOK ==
  ASSUME ReadIInv, NEW r \in Readers, DataArrive(r)
  PROVE  ReadIInv' /\ Forward
<1> DEFINE k == reading[r]
           p == Port(r)
           read == Put(k.read, p, measured[p])
<1>0. PICK keys \in SUBSET Keys :
        Turn(r, read, k.carried \cup ({p} \X keys), k.errors)
  BY DEF DataArrive
<1> DEFINE carried == k.carried \cup ({p} \X keys)
<1>1. /\ k.pc = "data" /\ Turn(r, read, carried, k.errors)
      /\ UNCHANGED <<reader, measured, stopped>>
  BY <1>0 DEF DataArrive
<1>2. k # Resting
  BY <1>1, ReadParts
<1>3. /\ p \in Ports /\ p \notin DOMAIN k.read \cup k.errors
      /\ {k.ports[i] : i \in 1..k.at} = DOMAIN k.read \cup k.errors \cup {p}
      /\ k.read \in Readings /\ k.errors \in SUBSET Ports
      /\ DOMAIN k.read \cap k.errors = {}
      /\ k.carried \in SUBSET Carried /\ (\A v \in k.carried : v[1] \in DOMAIN k.read)
      /\ \A q \in DOMAIN k.read :
           k.read[q] <= measured[q] /\ (r \in Ticks => latest[q] <= k.read[q])
  BY <1>2, AtPort
<1>4. measured[p] \in 0..MaxMeasured /\ latest[p] <= measured[p]
  BY <1>3, ReadParts
<1> HIDE DEF p
<1>5. /\ DOMAIN read = DOMAIN k.read \cup {p} /\ read[p] = measured[p]
      /\ \A q \in DOMAIN k.read : read[q] = k.read[q]
  BY <1>3 DEF Put
<1>6. read \in Readings
  <2>1. PICK S \in SUBSET Ports : k.read \in [S -> 0..MaxMeasured]
    BY <1>3 DEF Readings
  <2>2. read \in [S \cup {p} -> 0..MaxMeasured] /\ S \cup {p} \in SUBSET Ports
    BY <1>3, <1>4, <2>1, Joined
  <2>3. QED
    BY <2>2 DEF Readings
<1> HIDE DEF read
<1>7. /\ DOMAIN read \cup k.errors = {k.ports[i] : i \in 1..k.at}
      /\ DOMAIN read \cap k.errors = {}
  BY <1>3, <1>5
<1>8. measured[p] <= measured[p]
  BY <1>4
<1>9. \A q \in DOMAIN read :
        read[q] <= measured[q] /\ (r \in Ticks => latest[q] <= read[q])
  BY <1>3, <1>4, <1>5, <1>8
<1>10. carried \in SUBSET Carried /\ \A v \in carried : v[1] \in DOMAIN read
  <2>1. ASSUME NEW v \in {p} \X keys
        PROVE  v \in Carried /\ v[1] = p
    BY <1>3 DEF Carried
  <2>2. QED
    BY <1>3, <1>5, <2>1
<1> HIDE DEF carried
<1>11. QED
  BY <1>1, <1>2, <1>3, <1>6, <1>7, <1>9, <1>10, TurnOK

LEMMA PortFailsOK ==
  ASSUME ReadIInv, NEW r \in Readers, PortFails(r)
  PROVE  ReadIInv' /\ Forward
<1> DEFINE k == reading[r]
           errors == k.errors \cup {Port(r)}
<1>1. /\ k.pc \in {"resolving", "data"} /\ Turn(r, k.read, k.carried, errors)
      /\ UNCHANGED <<reader, measured, stopped>>
  BY DEF PortFails
<1>2. k # Resting
  BY <1>1, ReadParts
<1>3. /\ Port(r) \in Ports /\ Port(r) \notin DOMAIN k.read \cup k.errors
      /\ {k.ports[i] : i \in 1..k.at} = DOMAIN k.read \cup k.errors \cup {Port(r)}
      /\ k.read \in Readings /\ k.errors \in SUBSET Ports
      /\ DOMAIN k.read \cap k.errors = {}
      /\ k.carried \in SUBSET Carried /\ (\A v \in k.carried : v[1] \in DOMAIN k.read)
      /\ \A p \in DOMAIN k.read :
           k.read[p] <= measured[p] /\ (r \in Ticks => latest[p] <= k.read[p])
  BY <1>2, AtPort
<1>4. /\ errors \in SUBSET Ports /\ DOMAIN k.read \cap errors = {}
      /\ DOMAIN k.read \cup errors = {k.ports[i] : i \in 1..k.at}
  BY <1>3
<1> HIDE DEF errors
<1>5. QED
  BY <1>1, <1>2, <1>3, <1>4, TurnOK

LEMMA BeginOK ==
  ASSUME ReadIInv, NEW r \in Readers, NEW entries \in Lists, Begin(r, entries),
         r \in Ticks => Alone(r)
  PROVE  ReadIInv' /\ Forward
<1> DEFINE ports == PortsIn(entries)
<1>1. /\ ports \in Seq(Ports) /\ OnceEach(ports)
      /\ ports # <<>> => ports \in Lists
  BY PortsInOK
<1>2. reading[r] = Resting /\ UNCHANGED <<reader, measured, stopped>>
  BY DEF Begin
<1>3. CASE ports = <<>>
  <2>1. End(r, {}, <<>>, {}, {}, {})
    BY <1>3 DEF Begin
  <2>2. DOMAIN <<>> = {} /\ <<>> \in Readings
    BY Nowhere DEF Readings
  <2>3. Tells({}, DOMAIN <<>>, {}, {}, {})
    BY <2>2, NothingToTell
  <2>4. QED
    BY <1>2, <2>1, <2>2, <2>3, EndOK
<1>4. CASE ports # <<>>
  <2> DEFINE k == [pc |-> "resolving", ports |-> ports, at |-> 1,
                   read |-> <<>>, carried |-> {}, errors |-> {}]
  <2>1. /\ reading' = [reading EXCEPT ![r] = k]
        /\ inFlight' = (inFlight \/ r \in Ticks)
        /\ Quiet
    BY <1>4 DEF Begin
  <2> HIDE DEF ports
  <2>2. ports \in Lists
    BY <1>1, <1>4
  <2>3. 1 \in DOMAIN ports
    BY <2>2, ListsParts
  <2>4. <<>> \in Readings /\ DOMAIN <<>> = {}
    BY Nowhere DEF Readings
  <2>5. k \in Reads /\ k.ports = ports /\ k.at = 1 /\ k.read = <<>> /\ k.errors = {}
        /\ k.carried = {}
    BY <2>2, <2>4 DEF Reads
  <2> HIDE DEF k
  <2>6. {ports[i] : i \in 1..(1 - 1)} = {}
    OBVIOUS
  <2>7. Accounts(k)
    BY <1>1, <2>3, <2>4, <2>5, <2>6 DEF Accounts
  <2>8. inFlight' \in BOOLEAN /\ (inFlight => inFlight')
    BY <2>1
  <2>9. r \in Ticks => /\ inFlight' /\ Alone(r)
                       /\ \A p \in DOMAIN k.read : latest[p] <= k.read[p]
    BY <2>1, <2>4, <2>5
  <2>10. QED
    BY <1>2, <2>1, <2>7, <2>8, <2>9, ReadingOn
<1>5. QED
  BY <1>3, <1>4

LEMMA InputOK ==
  ASSUME ReadIInv, NEW m \in Messages, Input(m)
  PROVE  ReadIInv' /\ Forward
<1>1. PICK entries \in IF reader.fromMessage THEN Lists ELSE {reader.ports} : Begin(m, entries)
  BY DEF Input
<1>2. entries \in Lists
  BY <1>1 DEF ReadIInv, Configured
<1>3. m \in Readers /\ m \notin Ticks
  BY ReadAssumption DEF Readers
<1>4. QED
  BY <1>1, <1>2, <1>3, BeginOK

LEMMA TickOK ==
  ASSUME ReadIInv, NEW t \in Ticks, Tick(t)
  PROVE  ReadIInv' /\ Forward
<1>1. ~inFlight /\ ~reader.fromMessage /\ Begin(t, reader.ports)
  BY DEF Tick, Fires
<1>2. reader.ports \in Lists
  BY <1>1 DEF ReadIInv, Configured
<1>3. t \in Readers /\ Alone(t)
  BY <1>1 DEF ReadIInv, OfTimer, Alone, Readers
<1>4. QED
  BY <1>1, <1>2, <1>3, BeginOK

LEMMA CloseOK == ReadIInv /\ Close => ReadIInv' /\ Forward
<1> SUFFICES ASSUME ReadIInv, Close
             PROVE  ReadIInv' /\ Forward
  OBVIOUS
<1>1. stopped' = TRUE /\ Quiet /\ UNCHANGED <<reader, measured, reading, inFlight>>
  BY DEF Close
<1>2. ReadTypeOK' /\ ReadTellsAll' /\ Configured' /\ OfTimer'
  <2>1. latest' = latest
    BY <1>1 DEF Quiet
  <2>2. ReadTypeOK' /\ ReadTellsAll'
    BY <1>1, <2>1, QuietOK DEF ReadIInv, ReadTypeOK, Readers
  <2>3. Configured' /\ OfTimer'
    BY <1>1, <2>1 DEF ReadIInv, Configured, OfTimer, Alone
  <2>4. QED
    BY <2>2, <2>3
<1>3. \A r \in Readers : reading'[r] # Resting => Accounts(reading[r])'
  BY <1>1 DEF ReadIInv, Accounts
<1>4. \A p \in Ports : latest'[p] <= measured'[p] /\ latest'[p] >= latest[p]
  BY <1>1, ReadParts DEF Quiet
<1>5. QED
  BY <1>1, <1>2, <1>3, <1>4 DEF ReadIInv, Forward, Quiet

LEMMA RedeployOK == ReadIInv /\ Redeploy => ReadIInv' /\ Forward
<1> SUFFICES ASSUME ReadIInv, Redeploy
             PROVE  ReadIInv' /\ Forward
  OBVIOUS
<1>1. /\ stopped /\ stopped' = FALSE /\ inFlight' = FALSE /\ sent' = Silence
      /\ latest' = [p \in Ports |-> 0]
      /\ UNCHANGED <<reader, measured, reading>>
  BY DEF Redeploy
<1>2. \A r \in Readers : reading[r] = Resting
  BY DEF Redeploy, Readers
<1>3. /\ sent'.by \in Readers /\ sent'.ports = {} /\ sent'.read = {} /\ sent'.carried = {}
      /\ sent'.parts = {} /\ sent'.errors = {}
  BY <1>1, SilenceOK
<1>4. 0 \in 0..MaxMeasured
  BY ReadAssumption
<1>5. ReadTypeOK'
  BY <1>1, <1>2, <1>3, <1>4 DEF ReadIInv, ReadTypeOK, Readers
<1>6. ReadTellsAll' /\ Configured'
  <2>1. UNION {part.carried : part \in sent'.parts} = {}
    BY <1>3
  <2>2. ReadTellsAll'
    BY <1>3, <2>1 DEF ReadTellsAll
  <2>3. Configured'
    BY <1>1 DEF ReadIInv, Configured
  <2>4. QED
    BY <2>2, <2>3
<1>7. OfTimer' /\ \A r \in Readers : reading'[r] = Resting
  BY <1>1, <1>2 DEF OfTimer, Readers
<1>8. \A p \in Ports : latest'[p] <= measured'[p]
  BY <1>1, ReadParts
<1>9. QED
  BY <1>1, <1>5, <1>6, <1>7, <1>8 DEF ReadIInv, Forward

LEMMA MeasureOK ==
  ASSUME ReadIInv, NEW p \in Ports, Measure(p)
  PROVE  ReadIInv' /\ Forward
<1>1. /\ measured[p] < MaxMeasured /\ measured' = [measured EXCEPT ![p] = measured[p] + 1]
      /\ Quiet /\ UNCHANGED <<reader, reading, inFlight, stopped, latest>>
  BY DEF Measure, Quiet
<1>2. /\ measured' \in [Ports -> 0..MaxMeasured]
      /\ \A q \in Ports : measured[q] <= measured'[q] /\ measured[q] \in Nat
                          /\ measured'[q] \in Nat
  BY <1>1, ReadParts
<1>3. ReadTypeOK' /\ ReadTellsAll' /\ Configured' /\ OfTimer'
  <2>1. ReadTypeOK' /\ ReadTellsAll'
    BY <1>1, <1>2, QuietOK DEF ReadIInv, ReadTypeOK, Readers
  <2>2. Configured' /\ OfTimer'
    BY <1>1 DEF ReadIInv, Configured, OfTimer, Alone
  <2>3. QED
    BY <2>1, <2>2
<1>4. ASSUME NEW r \in Readers, reading'[r] # Resting
      PROVE  Accounts(reading[r])'
  <2> DEFINE k == reading[r]
  <2>1. Accounts(k)
    BY <1>1, <1>4 DEF ReadIInv
  <2>2. k.read \in Readings
    BY <2>1 DEF Accounts, Reads
  <2>3. \A q \in DOMAIN k.read : q \in Ports /\ k.read[q] \in Nat
    BY <2>2, ReadAssumption DEF Readings
  <2> HIDE DEF k
  <2>4. \A q \in DOMAIN k.read : k.read[q] <= measured[q]
    BY <2>1 DEF Accounts
  <2>5. \A q \in DOMAIN k.read : k.read[q] <= measured'[q]
    BY <1>2, <2>3, <2>4
  <2>6. QED
    BY <1>1, <2>1, <2>5 DEF Accounts, k
<1>5. \A q \in Ports : latest'[q] <= measured'[q] /\ latest'[q] >= latest[q]
  BY <1>1, <1>2, ReadParts
<1>6. QED
  BY <1>1, <1>3, <1>4, <1>5, ReadParts DEF ReadIInv, Forward, Quiet

LEMMA ReadStepOK == ReadIInv /\ ReadNext => ReadIInv' /\ Forward
<1> SUFFICES ASSUME ReadIInv, ReadNext
             PROVE  ReadIInv' /\ Forward
  OBVIOUS
<1>1. CASE \E m \in Messages : Input(m)
  BY <1>1, InputOK
<1>2. CASE \E t \in Ticks : Tick(t)
  BY <1>2, TickOK
<1>3. CASE \E r \in Messages \cup Ticks : Resolved(r) \/ DataArrive(r) \/ PortFails(r)
  BY <1>3, ResolvedOK, DataArriveOK, PortFailsOK DEF Readers
<1>4. CASE \E p \in Ports : Measure(p)
  BY <1>4, MeasureOK
<1>5. QED
  BY <1>1, <1>2, <1>3, <1>4, CloseOK, RedeployOK DEF ReadNext

LEMMA ReadStutter == ReadIInv /\ UNCHANGED readVars => ReadIInv'
<1> SUFFICES ASSUME ReadIInv, UNCHANGED readVars
             PROVE  ReadIInv'
  OBVIOUS
<1>1. UNCHANGED <<reader, measured, reading, inFlight, stopped, sent, latest>>
  BY DEF readVars
<1>2. ReadTypeOK' /\ ReadTellsAll' /\ Configured' /\ OfTimer'
  BY <1>1 DEF ReadIInv, ReadTypeOK, ReadTellsAll, Configured, OfTimer, Alone
<1>3. \A r \in Readers : reading'[r] # Resting => Accounts(reading[r])'
  BY <1>1 DEF ReadIInv, Accounts
<1>4. QED
  BY <1>1, <1>2, <1>3 DEF ReadIInv

-----------------------------------------------------------------------------
(* The nodes together.                                                      *)

IInv ==
    /\ type \in Types
    /\ ReadIInv /\ ParamIInv /\ ScanNodeIInv /\ DecodeIInv /\ FolderIInv

LEMMA InitOK == Init => IInv
BY ReadInitOK, ParamInitOK, ScanNodeInitOK, DecodeInitOK, FolderInitOK DEF Init, IInv

\* A step of one node leaves what the others keep alone.
LEMMA StepOK == IInv /\ [Next]_vars => IInv'
<1> SUFFICES ASSUME IInv, [Next]_vars
             PROVE  IInv'
  OBVIOUS
<1>1. ReadIInv /\ ParamIInv /\ ScanNodeIInv /\ DecodeIInv /\ FolderIInv /\ type \in Types
  BY DEF IInv
<1>2. CASE Next
  <2>1. type' \in Types
    BY <1>1, <1>2 DEF Next
  <2>2. CASE ReadStep
    BY <1>1, <2>1, <2>2, ReadStepOK, ParamStutter, ScanNodeStutter, DecodeStutter, FolderStutter
       DEF ReadStep, IInv
  <2>3. CASE ParamStep
    BY <1>1, <2>1, <2>3, ReadStutter, ParamStepOK, ScanNodeStutter, DecodeStutter, FolderStutter
       DEF ParamStep, IInv
  <2>4. CASE ScanStep
    BY <1>1, <2>1, <2>4, ReadStutter, ParamStutter, ScanNodeStep, DecodeStutter, FolderStutter
       DEF ScanStep, IInv
  <2>5. CASE DecodeStep
    BY <1>1, <2>1, <2>5, ReadStutter, ParamStutter, ScanNodeStutter, DecodeStepOK, FolderStutter
       DEF DecodeStep, IInv
  <2>6. CASE FolderStep
    BY <1>1, <2>1, <2>6, ReadStutter, ParamStutter, ScanNodeStutter, DecodeStutter, FolderStepOK
       DEF FolderStep, IInv
  <2>7. QED
    BY <1>2, <2>2, <2>3, <2>4, <2>5, <2>6 DEF Next
<1>3. CASE UNCHANGED vars
  <2>1. /\ UNCHANGED readVars /\ UNCHANGED paramVars /\ UNCHANGED scanNodeVars
        /\ UNCHANGED decodeVars /\ UNCHANGED folderVars /\ type' = type
    BY <1>3 DEF vars
  <2>2. QED
    BY <1>1, <2>1, ReadStutter, ParamStutter, ScanNodeStutter, DecodeStutter, FolderStutter
       DEF IInv
<1>4. QED
  BY <1>2, <1>3

\* Nothing leads out of the states the five nodes' invariants describe: the node
\* handlers of nodes/ and the search of lib/iodd-store.js.
THEOREM Invariant == Spec => []IInv
<1>1. QED
  BY InitOK, StepOK, PTL DEF Spec

\* What each node keeps between two awaits has the shape its handlers count on.
THEOREM TypeCorrect == Spec => []TypeOK
<1>1. IInv => TypeOK
  BY DEF IInv, TypeOK, ReadIInv, ParamIInv, ScanNodeIInv, DecodeIInv, FolderIInv
<1>2. QED
  BY <1>1, Invariant, PTL

\* However many ports, parameters or sockets a request names and whichever of them
\* fail: a read tells every value it read in one part and names the ports that
\* failed on every part, a port without a value in a split answer excepted; a
\* parameter is an error, or told with its value or that of a later one of the same
\* name; each socket is told as it was seen; and a file that has described the
\* device all along is found: iolink-read.js, iolink-param.js, iolink-scan.js,
\* _fromLocalDir.
THEOREM TellsAll == Spec => []NothingLost
<1>1. IInv => NothingLost
  BY FolderTells DEF IInv, NothingLost, ReadIInv, ParamIInv, ScanNodeIInv
<1>2. QED
  BY <1>1, Invariant, PTL

\* The parameter node tells of every write it made, as an error or with its value,
\* unless that of a later parameter of the same name took its place under byName.
THEOREM WritesAreTold == Spec => []NoSilentWrite
<1>1. IInv => NoSilentWrite
  BY DEF IInv, ParamIInv
<1>2. QED
  BY <1>1, Invariant, PTL

\* The decode node's Map is a least-recently-used cache, whatever its size.
THEOREM KeepsTheLastUsed == Spec => []LeastRecentlyUsed
<1>1. IInv => LeastRecentlyUsed
  BY DecodeKeepsLast DEF IInv
<1>2. QED
  BY <1>1, Invariant, PTL

\* The timer of a read node never goes back to an older reading of a port, and says
\* nothing once the node is closed, with any number of reads under way.
THEOREM GoesForward == Spec => TimerGoesForward
<1>1. IInv /\ [Next]_vars => [Forward]_readVars
  <2> SUFFICES ASSUME IInv, [Next]_vars
               PROVE  Forward \/ UNCHANGED readVars
    OBVIOUS
  <2>1. CASE ReadStep
    BY <2>1, ReadStepOK DEF ReadStep, IInv
  <2>2. CASE ~ReadStep
    BY <2>2 DEF Next, vars, ParamStep, ScanStep, DecodeStep, FolderStep
  <2>3. QED
    BY <2>1, <2>2
<1>2. QED
  BY <1>1, Invariant, PTL DEF Spec, TimerGoesForward, Forward
=============================================================================
