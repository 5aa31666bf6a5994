------------------------------ MODULE KeyNaming ------------------------------
(***************************************************************************)
(* Unique keys from the vendor's names: lib/iodd/parse/keys.js.            *)
(*                                                                         *)
(* A key is a word and the numbers appended to it, so that the name        *)
(* "Temp_2" is what a second "Temp" becomes.  The styles are abstracted to *)
(* their result: several names may have one word, and some have none.      *)
(***************************************************************************)
EXTENDS Integers, FiniteSets, Sequences

CONSTANT NoWord     \* what a style leaves of a name without letters or digits

VARIABLE used       \* per key handed out, the last number appended to it

KeyNamingInit == used = <<>>

Key(word, numbers) == [word |-> word, numbers |-> numbers]

Suffixed(base, n) == [base EXCEPT !.numbers = Append(@, n)]

BaseOf(name, fallback) == IF name.word = NoWord THEN fallback ELSE name

\* Mutant: the number after the last one is free.
Unprobed(base, n) == n = used[base] + 1

\* The first number above the last one that gives a key nobody has.
Free(base, n) ==
    /\ Suffixed(base, n) \notin DOMAIN used
    /\ \A m \in (used[base] + 1)..(n - 1) : Suffixed(base, m) \in DOMAIN used

\* There are fewer keys to avoid than numbers tried.
Tried(base) == (used[base] + 1)..(used[base] + Cardinality(DOMAIN used))

\* Mutant: a suffixed key is not remembered.
Unremembered(base, n) == [used EXCEPT ![base] = n]

Remembered(base, n) ==
    [k \in DOMAIN used \cup {Suffixed(base, n)} |->
        CASE k = Suffixed(base, n) -> 1 [] k = base -> n [] OTHER -> used[k]]

PossibleKeys(base) ==
    IF base \in DOMAIN used THEN {Suffixed(base, n) : n \in Tried(base)} ELSE {base}

\* key is what the keyer returns for a name that comes out as base.
KeyFor(base, key) ==
    \/ /\ base \notin DOMAIN used
       /\ key = base
       /\ used' = [k \in DOMAIN used \cup {base} |-> IF k = base THEN 1 ELSE used[k]]
    \/ /\ base \in DOMAIN used
       /\ \E n \in Tried(base) :
            /\ Free(base, n)
            /\ key = Suffixed(base, n)
            /\ used' = Remembered(base, n)
=============================================================================
