------------------------------ MODULE ParamNode ------------------------------
(***************************************************************************)
(* The parameter node: nodes/iolink-param.js.                              *)
(*                                                                         *)
(* A message asks for one parameter or a list of them, to be read or       *)
(* written one after another.  The node keeps nothing between messages, so *)
(* one message in a world that changes as it likes (Elsewhere) stands for  *)
(* any number of messages of any number of nodes.  What a value is encoded *)
(* as is a matter of the codec; here a value fits its parameter or is Bad. *)
(***************************************************************************)
EXTENDS Naturals, SequencesExt, Objects

CONSTANTS
    Params,        \* parameters of the device, asked for by index
    Unknown,       \* a selector the IODD does not know, or does not support
    Names,         \* names the IODD gives: two parameters may share one
    Values,
    Bad            \* a value that is out of range or cannot be encoded

ASSUME ParamAssumption == Unknown \notin Params /\ Bad \notin Values

VARIABLES
    access, name,  \* what the IODD says of each parameter
    stored,        \* the values in the device
    request,       \* the message being handled
    told           \* how the last message ended

paramVars == <<access, name, stored, request, told>>

-----------------------------------------------------------------------------

Selectors == Params \cup {Unknown}
SelectorLists(S) == BoundedSeq(S, 2)

\* The payload of a write, by parameter.  One that is not an object has no value
\* for anyone; a single parameter takes the payload as it is.
Payloads == UNION {[S -> Values \cup {Bad}] : S \in SUBSET Params}

\* `landed` and `had` are history: the writes the device has taken from this
\* message, and the values each parameter has had since it came.
NoRequest == [pc |-> "idle"]
Requests ==
    [pc : {"resolving", "turn", "asking", "landed"}, write : BOOLEAN,
     asked : SelectorLists(Selectors), payload : Payloads, at : 1..2,
     results : UNION {[S -> Values] : S \in SUBSET Names},
     errors : SUBSET Selectors, landed : SUBSET (Params \X Values),
     had : [Params -> SUBSET Values]]

ParamTypeOK ==
    /\ access \in [Params -> {"rw", "ro", "wo"}]
    /\ name \in [Params -> Names]
    /\ stored \in [Params -> Values]
    /\ request # NoRequest => request \in Requests
    /\ request.pc \in {"turn", "asking", "landed"} => request.at \in DOMAIN request.asked
    /\ told = NoRequest \/ told \in [pc : {"sent", "failed"}, of : Requests]

-----------------------------------------------------------------------------

ParamInit ==
    /\ access \in [Params -> {"rw", "ro", "wo"}]
    /\ name \in [Params -> Names]
    /\ stored \in [Params -> Values]
    /\ request = NoRequest /\ told = NoRequest

Conclude(outcome, k) ==
    /\ request' = NoRequest
    /\ told' = [pc |-> outcome, of |-> k]

Ask ==
    /\ request = NoRequest /\ told = NoRequest
    /\ \E write \in BOOLEAN, asked \in SelectorLists(Selectors), payload \in Payloads :
         /\ ~write => DOMAIN payload = {}
         /\ Len(asked) = 1 => DOMAIN payload = ToSet(asked) \cap Params \/ ~write
         /\ request' = [pc |-> "resolving", write |-> write, asked |-> asked,
                        payload |-> payload, at |-> 1, results |-> <<>>, errors |-> {},
                        landed |-> {}, had |-> [p \in Params |-> {stored[p]}]]
    /\ UNCHANGED <<access, name, stored, told>>

\* The flow has taken what the message ended with.
Taken ==
    /\ told # NoRequest /\ told' = NoRequest
    /\ UNCHANGED <<access, name, stored, request>>

\* resolvePort, resolveSubindex and resolveDevice come before everything else.
DeviceResolved ==
    /\ request.pc = "resolving" /\ request.asked # <<>>
    /\ request' = [request EXCEPT !.pc = "turn"]
    /\ UNCHANGED <<access, name, stored, told>>

\* No parameter, a bad port or subindex, no device, no IODD.
NotResolved ==
    /\ request.pc = "resolving"
    /\ Conclude("failed", request)
    /\ UNCHANGED <<access, name, stored>>

Selector == request.asked[request.at]

\* Mutant: a parameter that fails in a list is skipped silently.
Skips(results, errors) ==
    IF request.at < Len(request.asked)
    THEN request' = [request EXCEPT !.pc = "turn", !.at = request.at + 1,
                       !.results = results, !.errors = request.errors] /\ UNCHANGED told
    ELSE Conclude(IF DOMAIN results = {} THEN "failed" ELSE "sent",
             [request EXCEPT !.results = results, !.errors = request.errors])

\* The rest of a turn of the loop: "one parameter a device will not give up must
\* not cost the others".  Nothing to tell, of one asked for or of several, is a
\* failure of the message.
OneDone(results, errors) ==
    IF request.at < Len(request.asked)
    THEN /\ request' = [request EXCEPT !.pc = "turn", !.at = request.at + 1,
                                       !.results = results, !.errors = errors]
         /\ UNCHANGED told
    ELSE Conclude(IF DOMAIN results = {} THEN "failed" ELSE "sent",
             [request EXCEPT !.results = results, !.errors = errors])

Failed == OneDone(request.results, request.errors \cup {Selector})

\* byName: the results are keyed by the name in the IODD.
Result(value) == OneDone(Put(request.results, name[Selector], value), request.errors)

\* findVariable, the access rights, valueToWrite and encodeParameter.
Refused ==
    \/ Selector = Unknown
    \/ ~request.write /\ access[Selector] = "wo"
    \/ request.write /\ \/ access[Selector] = "ro"
                        \/ Selector \notin DOMAIN request.payload
                        \/ request.payload[Selector] = Bad

\* The node asks the master only what it has not refused itself.
Go ==
    /\ request.pc = "turn"
    /\ IF Refused THEN Failed
       ELSE /\ request' = [request EXCEPT !.pc = "asking"]
            /\ UNCHANGED told
    /\ UNCHANGED <<access, name, stored>>

\* A read's answer arrives.
ReadIsdu ==
    /\ request.pc = "asking" /\ ~request.write
    /\ Result(stored[Selector])
    /\ UNCHANGED <<access, name, stored>>

\* The device takes the value over.
Land ==
    /\ request.pc = "asking" /\ request.write
    /\ LET value == request.payload[Selector] IN
         /\ stored' = [stored EXCEPT ![Selector] = value]
         /\ request' = [request EXCEPT !.pc = "landed",
              !.landed = request.landed \cup {<<Selector, value>>},
              !.had = [request.had EXCEPT ![Selector] = request.had[Selector] \cup {value}]]
    /\ UNCHANGED <<access, name, told>>

WriteIsdu ==
    /\ request.pc = "landed"
    /\ Result(request.payload[Selector])
    /\ UNCHANGED <<access, name, stored>>

\* The device refuses, its answer is lost, or it cannot be decoded.
IsduFails ==
    /\ request.pc \in {"asking", "landed"}
    /\ Failed
    /\ UNCHANGED <<access, name, stored>>

\* Another message, another node, or the device itself.
Elsewhere ==
    \E p \in Params, value \in Values :
      /\ stored[p] # value
      /\ stored' = [stored EXCEPT ![p] = value]
      /\ request' = IF request = NoRequest THEN request
                    ELSE [request EXCEPT !.had =
                            [request.had EXCEPT ![p] = request.had[p] \cup {value}]]
      /\ UNCHANGED <<access, name, told>>

ParamNext ==
    \/ Ask \/ Taken \/ DeviceResolved \/ NotResolved \/ Go
    \/ ReadIsdu \/ Land \/ WriteIsdu \/ IsduFails \/ Elsewhere

-----------------------------------------------------------------------------
(* Properties.                                                              *)

\* Parameters that come after p in the list and share its name.
Namesakes(k, p) ==
    {q \in Params : /\ name[q] = name[p]
                    /\ \E i, j \in DOMAIN k.asked :
                         i < j /\ k.asked[i] = p /\ k.asked[j] = q}

\* A message accounts for every parameter asked for: it is named as an error, or
\* under its name stands a value that it had while the message was handled, or
\* one that a later parameter of the same name had, which took its place.  And
\* no other value is told.
ParamTellsAll ==
    LET k == told.of IN
    told.pc = "sent" =>
      /\ \A s \in ToSet(k.asked) :
           \/ s \in k.errors
           \/ /\ name[s] \in DOMAIN k.results
              /\ \E q \in {s} \cup Namesakes(k, s) : k.results[name[s]] \in k.had[q]
      /\ \A n \in DOMAIN k.results : \E p \in Params \cap ToSet(k.asked) :
           name[p] = n /\ k.results[n] \in k.had[p]

\* However a list of writes ends, what the device took over is told as an error,
\* or with its value under its name, unless the write to a later parameter of
\* the same name took its place; and what is told as written the device did
\* take over, with that value.
NoSilentWrite ==
    LET k == told.of IN
    told # NoRequest /\ k.write =>
      /\ \A w \in k.landed :
           \/ w[1] \in k.errors
           \/ /\ name[w[1]] \in DOMAIN k.results
              /\ \/ k.results[name[w[1]]] = w[2]
                 \/ \E q \in Namesakes(k, w[1]) : <<q, k.results[name[w[1]]]>> \in k.landed
      /\ \A n \in DOMAIN k.results : \E w \in k.landed :
           name[w[1]] = n /\ w[2] = k.results[n]
=============================================================================
