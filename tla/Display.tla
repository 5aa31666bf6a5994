------------------------------- MODULE Display -------------------------------
(***************************************************************************)
(* Which scaling applies to a value: lib/iodd/parse/display.js.            *)
(*                                                                         *)
(* The menus of a device show its values, each in a scaling of its own,    *)
(* and a menu may be reached only while a parameter has some value.  What  *)
(* the parameters are is known as far as the flow supplies it.             *)
(***************************************************************************)
EXTENDS Integers, Sequences, FiniteSetsExt

CONSTANT Menus

VARIABLES
    menus,      \* what the file declares: roots, refs, shown and direct
    given,      \* the parameters' values, as far as they were supplied
    todo,       \* calls of walk that have not run
    chains,     \* the conditions on every way to every menu
    walked      \* menus that nothing reaches are in chains too

displayVars == <<menus, given, todo, chains, walked>>

Raw == <<>>           \* attributes, but neither gradient nor offset nor unit
Bare == <<"bare">>    \* no attribute at all

DisplayInit(file, supplied) ==
    /\ menus = file
    /\ given = supplied
    /\ todo = {[menu |-> m, chain |-> <<>>, seen |-> {}] : m \in file.roots}
    /\ chains = {}
    /\ walked = FALSE

\* Mutant: a menu is entered once, whatever way led to it.
EnteredOnce(frame) ==
    {r \in menus.refs : /\ r.from = frame.menu
                        /\ r.to \notin frame.seen \cup {frame.menu}
                        /\ \A c \in chains \cup todo : c.menu # r.to}

\* A menu's own way is not followed round in a circle.
Onward(frame) ==
    {r \in menus.refs : r.from = frame.menu /\ r.to \notin frame.seen \cup {frame.menu}}

\* The calls of one depth do not affect one another: they are one step.
Walk ==
    /\ todo # {}
    /\ chains' = chains \cup {[menu |-> f.menu, chain |-> f.chain] : f \in todo}
    /\ todo' = UNION {{[menu |-> r.to, chain |-> f.chain \o r.when,
                        seen |-> f.seen \cup {f.menu}] : r \in Onward(f)} : f \in todo}
    /\ UNCHANGED <<menus, given, walked>>

\* Menus no role set leads to are taken as unconditional.
Unreached ==
    /\ todo = {}
    /\ ~walked
    /\ walked' = TRUE
    /\ chains' = chains \cup {[menu |-> m, chain |-> <<>>] :
                               m \in {n \in Menus : \A c \in chains : c.menu # n}}
    /\ UNCHANGED <<menus, given, todo>>

Met(condition, values) ==
    condition.variable \in DOMAIN values /\ values[condition.variable] = condition.value

Holds(chain, values) == \A i \in DOMAIN chain : Met(chain[i], values)

\* What is shown of a subindex, or else of the whole value.  A reference without
\* attributes shows nothing, but with one the subindex has a list of its own.
Own(shown, subindex) ==
    LET of(i) == {s \in shown : s.subindex = i}
        list == IF of(subindex) # {} THEN of(subindex) ELSE of(0)
    IN  {s \in list : s.scaling # Bare}

\* A reference to the process data itself hides what the menus say of its mirror.
CandidatesFor(subindex) ==
    IF Own(menus.direct, subindex) # {}
    THEN {[scaling |-> s.scaling, chain |-> <<>>] : s \in Own(menus.direct, subindex)}
    ELSE UNION {{[scaling |-> s.scaling, chain |-> c.chain] :
                 c \in {d \in chains : d.menu = s.menu}} : s \in Own(menus.shown, subindex)}

ScalingsOf(candidates) == {c.scaling : c \in candidates}
Scaled(candidates) == {c \in candidates : c.scaling # Raw}
Deepest(candidates) ==
    {c \in candidates : \A d \in candidates : Len(c.chain) >= Len(d.chain)}

Pool(candidates) ==
    LET eligible == {c \in candidates : Holds(c.chain, given)}
    IN  IF eligible # {} THEN eligible ELSE {c \in candidates : c.chain = <<>>}

Agreed(candidates) ==
    IF Cardinality(ScalingsOf(candidates)) = 1
    THEN CHOOSE s \in ScalingsOf(candidates) : TRUE ELSE Raw

\* Mutant: of several that disagree one is taken.
CoinFlip(candidates) ==
    IF candidates = {} THEN Raw
    ELSE LET scaled == Scaled(candidates)
         IN IF scaled = {} THEN Raw ELSE CHOOSE s \in ScalingsOf(scaled) : TRUE

\* Where the menus disagree about a value it stays raw.
ResolveCandidates(candidates) ==
    LET pool == Pool(candidates)
        chosen == IF Scaled(pool) # {} THEN Scaled(pool) ELSE pool
    IN  IF pool = {} THEN Agreed(Scaled(candidates))
        ELSE IF Cardinality(ScalingsOf(chosen)) = 1 THEN Agreed(chosen)
        ELSE Agreed(Deepest(chosen))
=============================================================================
