--------------------------- MODULE IoddCatalogue ---------------------------
(***************************************************************************)
(* What the IODD cache on disk promises to those who use it, apart from    *)
(* how lib/iodd/finder.js keeps the promise: one catalogue, to which       *)
(* entries are added whole and one at a time, and whose answers name what  *)
(* it holds or has held.  Only an entry added while the catalogue could    *)
(* not be read takes the place of all others.  A restart of the process    *)
(* drops the answers, never the catalogue.                                 *)
(***************************************************************************)
CONSTANTS
    Callers,
    Entries,    \* records with a device, an iodd and an approved field
    Refused, Nothing

VARIABLES
    catalogue,  \* the entries held
    held,       \* the files of these and of all that were ever held
    told        \* what each caller was last told: a file, or neither of the two

FileOf(e) == <<e.device, e.iodd>>

Replacing(entries, e) == {x \in entries : FileOf(x) # FileOf(e)} \cup {e}

Init ==
    /\ catalogue \in SUBSET Entries
    /\ held = {FileOf(e) : e \in catalogue}
    /\ told = [c \in Callers |-> Nothing]

\* A new entry joins the catalogue in the very step that tells of it.
Join(c, e, others) ==
    /\ catalogue' = Replacing(others, e)
    /\ held' = held \cup {FileOf(e)}
    /\ told' = [told EXCEPT ![c] = FileOf(e)]

Add(c, e) == Join(c, e, catalogue)

\* What could not be read is not kept.
StartOver(c, e) == Join(c, e, {})

\* An answer from the catalogue names a file that is, or was, in it.
Recall(c, e) ==
    /\ FileOf(e) \in held
    /\ told' = [told EXCEPT ![c] = FileOf(e)]
    /\ UNCHANGED <<catalogue, held>>

Clear(c, answer) ==
    /\ answer \in {Refused, Nothing}
    /\ told' = [told EXCEPT ![c] = answer]
    /\ UNCHANGED <<catalogue, held>>

Restart ==
    /\ told' = [c \in Callers |-> Nothing]
    /\ UNCHANGED <<catalogue, held>>

Next ==
    \/ \E c \in Callers, e \in Entries : Add(c, e) \/ StartOver(c, e) \/ Recall(c, e)
    \/ \E c \in Callers, answer \in {Refused, Nothing} : Clear(c, answer)
    \/ Restart

Spec == Init /\ [][Next]_<<catalogue, held, told>>
=============================================================================
