---------------------------- MODULE FinderCache ----------------------------
(***************************************************************************)
(* The IODD finder and its folder: load, importPackage and store of        *)
(* lib/iodd/finder.js, with extractIodd of lib/iodd/zip.js.                *)
(*                                                                         *)
(* A call looks in the index of the folder, and failing that asks the      *)
(* registry, downloads, writes the XML in place and then puts its entry    *)
(* into the index.  The index updates of one finder queue behind each      *)
(* other; each reads the index, writes it to a file of its own and renames *)
(* that over the index.  Every await is a step.  The process may crash     *)
(* between any two, any write may fail, and there are times at which the   *)
(* folder cannot be read: the index then counts as empty.                  *)
(*                                                                         *)
(* The queue is kept as the set of calls ahead of each call.  A file is    *)
(* the XML with its translations: "torn" from the moment it is opened for  *)
(* writing until the last of them is complete and nobody else writes them. *)
(* What an ioddId stands for does not change, so two writes of a file      *)
(* write the same.                                                         *)
(***************************************************************************)
EXTENDS Naturals, FiniteSets

CONSTANTS
    Callers,     \* calls that may be under way at once
    Finders,     \* one per master node; they share the folder
    Devices,
    MaxIodd,     \* the registry's ioddIds; 0 is a hand-imported package
    NoEntry, Refused, Nothing

ASSUME IoddAssumption == MaxIodd \in Nat \ {0}

VARIABLES
    disk,        \* file -> what reading it finds
    index,       \* the entries of index.json
    readable,    \* reading the index, or a file, succeeds at present
    call,        \* the calls under way
    told,        \* what each caller was last told
    cut,         \* history: files of which a write was cut short
    lacking,     \* history: calls during which a whole copy was not at hand
    named        \* history: the files the index has named

vars == <<disk, index, readable, call, told, cut, lacking, named>>

-----------------------------------------------------------------------------

Entries == [device : Devices, iodd : 0 .. MaxIodd, approved : BOOLEAN]
Files == Devices \X (0 .. MaxIodd)

FileOf(e) == <<e.device, e.iodd>>

Idle == [pc |-> "idle"]
InQueue == {"queued", "merging", "renaming"}
Stages == {"lookup", "read", "search", "download", "open", "writing",
           "fallback"} \cup InQueue

Active == [pc : Stages, load : BOOLEAN, device : Devices, finder : Finders,
           entry : Entries \cup {NoEntry}, snap : SUBSET Entries,
           blind : BOOLEAN, ahead : SUBSET Callers]

\* The markers for "none" are not mistaken for what they stand beside.
ASSUME FinderMarkers ==
    /\ NoEntry \notin Entries
    /\ Refused \notin Files /\ Nothing \notin Files /\ Refused # Nothing

Queued(c) == call[c].pc \in InQueue

\* What is on disk is a file per entry and a well-formed index, whatever has
\* crashed; a call under way knows what it is about.
TypeOK ==
    /\ disk \in [Files -> {"absent", "torn", "whole"}]
    /\ index \in SUBSET Entries
    /\ readable \in BOOLEAN
    /\ call \in [Callers -> {Idle} \cup Active]
    /\ told \in [Callers -> Files \cup {Refused, Nothing}]
    /\ cut \in SUBSET Files
    /\ lacking \in SUBSET Callers
    /\ named \in SUBSET Files
    /\ \A c \in Callers :
         call[c] # Idle /\ call[c].pc \notin {"lookup", "search", "fallback"} =>
            call[c].entry # NoEntry

-----------------------------------------------------------------------------
(* The index.                                                               *)

\* What _readIndex gives: an index that cannot be read or parsed has no entries.
Read == IF readable THEN index ELSE {}

Hits(entries, d) == {e \in entries : e.device = d}

\* An ioddId orders entries like the upload date that is compared before it.
Better(e, f) ==
    \/ e.approved /\ ~f.approved
    \/ e.approved = f.approved /\ e.iodd >= f.iodd

\* What pickBest may return: no two entries of a device tie.
Best(entries) == {e \in entries : \A f \in entries : Better(e, f)}

Replacing(entries, e) == {x \in entries : FileOf(x) # FileOf(e)} \cup {e}

\* The folder can answer for the device, whichever of its entries is chosen.
AtHand(d) ==
    /\ readable
    /\ Hits(index, d) # {}
    /\ \A e \in Hits(index, d) : disk[FileOf(e)] = "whole"

-----------------------------------------------------------------------------

Init ==
    /\ disk = [f \in Files |-> "absent"]
    /\ index = {}
    /\ readable \in BOOLEAN
    /\ call = [c \in Callers |-> Idle]
    /\ told = [c \in Callers |-> Nothing]
    /\ cut = {}
    /\ lacking = {}
    /\ named = {}

Start(c, stage, load, d, f, e) ==
    /\ call[c] = Idle
    /\ call' = [call EXCEPT ![c] =
         [pc |-> stage, load |-> load, device |-> d, finder |-> f,
          entry |-> e, snap |-> {}, blind |-> FALSE, ahead |-> {}]]
    /\ told' = [told EXCEPT ![c] = Nothing]
    /\ UNCHANGED <<disk, index, cut>>

Load(c, d, refresh, f) ==
    Start(c, IF refresh THEN "search" ELSE "lookup", TRUE, d, f, NoEntry)

\* A package from the user's hand has been read and parsed.
ImportPackage(c, d, f) ==
    Start(c, "open", FALSE, d, f, [device |-> d, iodd |-> 0, approved |-> FALSE])

Goto(c, stage) == call' = [call EXCEPT ![c].pc = stage]

End(c, answer) ==
    /\ call' = [call EXCEPT ![c] = Idle]
    /\ told' = [told EXCEPT ![c] = answer]

Choose(c, stage, entries) ==
    /\ \E e \in Best(entries) :
         call' = [call EXCEPT ![c].pc = stage, ![c].entry = e]
    /\ UNCHANGED told

\* findCached, before the registry is asked and again when it could not help.
Find(c, stage, none) ==
    LET hits == Hits(Read, call[c].device) IN
    /\ call[c].pc = stage
    /\ IF hits = {}
       THEN none
       ELSE Choose(c, "read", hits)
    /\ UNCHANGED <<disk, index, cut>>

Lookup(c) == Find(c, "lookup", Goto(c, "search") /\ UNCHANGED told)

FallBack(c) == Find(c, "fallback", End(c, Refused))

\* A file that is not whole may be no XML at all, or the parser may make do
\* with the part of it that is there; only the first is an error.  So is a file
\* that cannot be read at present.
ReadCached(c) ==
    LET file == FileOf(call[c].entry) IN
    /\ call[c].pc = "read"
    /\ \/ readable /\ disk[file] # "absent" /\ End(c, file)
       \/ (~readable \/ disk[file] # "whole") /\ End(c, Refused)
    /\ UNCHANGED <<disk, index, cut>>

\* Mutant: a refresh that cannot reach the registry gives up.
GivesUp(c) == End(c, Refused)

\* Mutant: it reads on without having looked for an entry.
ReadsAnyway(c) == Goto(c, "read") /\ UNCHANGED told

\* Whatever goes wrong between the search and the end of the store, a load
\* falls back to the cache; an import reports it.
Trouble(c) ==
    IF call[c].load THEN Goto(c, "fallback") /\ UNCHANGED told ELSE End(c, Refused)

\* The registry lists what it has for the device, or does not answer in time.
Search(c) ==
    /\ call[c].pc = "search"
    /\ \E found \in SUBSET {e \in Entries : e.device = call[c].device /\ e.iodd # 0} :
         IF found = {}
         THEN Trouble(c)
         ELSE Choose(c, "download", found)
    /\ UNCHANGED <<disk, index, cut>>

\* extractIodd gives the one IODD of an archive.  Without any it gives the
\* first XML it finds, which then does not parse; several it refuses.
Extracts(iodds) == iodds = 1

\* The request fails, or an archive arrives with some number of IODDs in it.
Download(c) ==
    /\ call[c].pc = "download"
    /\ \/ Trouble(c)
       \/ \E iodds \in 0 .. 2 :
            IF Extracts(iodds) THEN Goto(c, "open") /\ UNCHANGED told ELSE Trouble(c)
    /\ UNCHANGED <<disk, index, cut>>

-----------------------------------------------------------------------------
(* store                                                                    *)

\* Mutant: the write is begun and not awaited.
OpenAndGoOn(c) ==
    call' = [call EXCEPT ![c].pc = "queued",
                         ![c].ahead = {b \in Callers : Queued(b) /\ call[b].finder = call[c].finder}]

AwaitWrite(c) == Goto(c, "writing")

Writing(f) == {b \in Callers : call[b].pc = "writing" /\ FileOf(call[b].entry) = f}

\* writeFile truncates what is there, and all of it is written anew.
OpenFile(c) ==
    LET file == FileOf(call[c].entry) IN
    /\ call[c].pc = "open"
    /\ disk' = [disk EXCEPT ![file] = "torn"]
    /\ cut' = IF Writing(file) = {} THEN cut \ {file} ELSE cut
    /\ AwaitWrite(c)
    /\ UNCHANGED <<index, told>>

\* Mutant: index updates do not wait for each other.
Unqueued(c) == {}

\* The updates of the same finder that were asked for before.
Ahead(c) == {b \in Callers : Queued(b) /\ call[b].finder = call[c].finder}

\* A file just written is whole, unless another call is writing it still or was
\* cut short beside this one, perhaps after what this one wrote.
Written(c, file) ==
    {state \in {"torn", "whole"} :
       /\ state = "whole" => Writing(file) = {c}
       /\ state = "torn" => Writing(file) # {c} \/ file \in cut}

\* The XML and its translations are written; the index update takes its turn.
CloseFile(c) ==
    LET file == FileOf(call[c].entry) IN
    /\ call[c].pc = "writing"
    /\ \E state \in Written(c, file) :
         /\ disk' = [disk EXCEPT ![file] = state]
         /\ cut' = IF state = "whole" THEN cut \ {file} ELSE cut
    /\ call' = [call EXCEPT ![c].pc = "queued", ![c].ahead = Ahead(c)]
    /\ UNCHANGED <<index, told>>

\* Mutant: an update that failed is never taken off the queue.
Stuck(others, c) == others

\* Settled, well or badly: whoever waited for this update waits no longer.
Released(others, c) ==
    [b \in Callers |->
       IF b # c /\ others[b] # Idle
       THEN [others[b] EXCEPT !.ahead = others[b].ahead \ {c}]
       ELSE others[b]]

\* It is this update's turn: read the index as it is now, if it can be read.
ReadIndex(c) ==
    /\ call[c].pc = "queued"
    /\ call[c].ahead = {}
    /\ call' = [call EXCEPT ![c].pc = "merging", ![c].snap = Read,
                            ![c].blind = ~readable]
    /\ UNCHANGED <<disk, index, told, cut>>

\* Mutant: the index itself is overwritten; half-written it reads as empty.
InPlace == {}

\* Written to a file of this update's own, so the index is as before.
Untouched == index

WriteTemporary(c) ==
    /\ call[c].pc = "merging"
    /\ Goto(c, "renaming")
    /\ index' = Untouched
    /\ UNCHANGED <<disk, told, cut>>

Rename(c) ==
    /\ call[c].pc = "renaming"
    /\ index' = Replacing(call[c].snap, call[c].entry)
    /\ call' = Released([call EXCEPT ![c] = Idle], c)
    /\ told' = [told EXCEPT ![c] = FileOf(call[c].entry)]
    /\ UNCHANGED <<disk, cut>>

\* A write fails: no space, no permission.  A file that was open stays torn.
WriteFails(c) ==
    /\ call[c].pc \in {"open", "writing", "merging", "renaming"}
    /\ cut' = IF call[c].pc = "writing" THEN cut \cup {FileOf(call[c].entry)} ELSE cut
    /\ LET after == IF call[c].load
                    THEN [call[c] EXCEPT !.pc = "fallback", !.snap = {}, !.blind = FALSE]
                    ELSE Idle
       IN call' = Released([call EXCEPT ![c] = after], c)
    /\ told' = IF call[c].load THEN told ELSE [told EXCEPT ![c] = Refused]
    /\ UNCHANGED <<disk, index>>

-----------------------------------------------------------------------------

\* The process ends and starts again: what is on disk stays as it is.
Crash ==
    /\ call' = [c \in Callers |-> Idle]
    /\ told' = [c \in Callers |-> Nothing]
    /\ cut' = cut \cup {f \in Files : disk[f] = "torn"}
    /\ UNCHANGED <<disk, index>>

Advance(c) ==
    \/ Lookup(c) \/ ReadCached(c) \/ Search(c) \/ Download(c) \/ FallBack(c)
    \/ OpenFile(c) \/ CloseFile(c) \/ WriteFails(c)
    \/ ReadIndex(c) \/ WriteTemporary(c) \/ Rename(c)

Step ==
    \/ \E c \in Callers, d \in Devices, f \in Finders :
         \/ \E refresh \in BOOLEAN : Load(c, d, refresh, f)
         \/ ImportPackage(c, d, f)
    \/ \E c \in Callers : Advance(c)
    \/ Crash

\* Too many files are open, the share is gone, and later they are not.
Falter ==
    /\ readable' = ~readable
    /\ UNCHANGED <<disk, index, call, told, cut>>

\* The entry the call is about to read is in the index no more.
Dropped(c) ==
    /\ call[c].pc = "read"
    /\ \A x \in index : FileOf(x) # FileOf(call[c].entry)

Lacks(c) == call[c] # Idle /\ (~AtHand(call[c].device) \/ Dropped(c))

Next ==
    /\ \/ Step /\ UNCHANGED readable
       \/ Falter
    /\ lacking' = {c \in Callers : Lacks(c)' \/ (c \in lacking /\ call'[c] # Idle)}
    /\ named' = named \cup {FileOf(e) : e \in index'}

Spec == Init /\ [][Next]_vars

\* Every await of a call ends: files are read and written or fail, requests are
\* answered or aborted after `timeout`.
FairSpec == Spec /\ \A c \in Callers : WF_call(Advance(c))

-----------------------------------------------------------------------------
(* Properties.                                                              *)

\* The index never promises a file that is not there: what it names is whole,
\* but while the file is written once more, and after such a write was cut off.
NamedFilesWhole ==
    \A e \in index :
        \/ disk[FileOf(e)] = "whole"
        \/ FileOf(e) \in cut
        \/ \E c \in Callers : call[c].pc = "writing" /\ FileOf(call[c].entry) = FileOf(e)

\* "A stale cache entry beats no reading at all": a load fails only if at some
\* moment since it began the folder could not be read, had no whole copy to
\* offer, or lost the entry the load had chosen.
StaleBeatsNothing ==
    [][\A c \in Callers :
         (/\ call[c] # Idle /\ call[c].load
          /\ told[c] = Nothing /\ told'[c] = Refused) => c \in lacking]_vars

\* Every load and every import comes to an end, with the updates ahead of it
\* failing or not.
CallsEnd == \A c \in Callers : call[c] # Idle ~> call[c] = Idle

\* With one finder the folder is the catalogue it promises to be, but for
\* updates that could not read it.
Catalogue == INSTANCE IoddCatalogue WITH catalogue <- index, held <- named

IsCatalogue == Catalogue!Spec

\* An update whose read of the index failed is about to replace it.
Blindly == \E c \in Callers : call[c].pc = "renaming" /\ call[c].blind

\* "Several nodes resolving their IODDs on deploy would otherwise each read the
\* index, add their own entry and overwrite each other's": no update takes a
\* file out of the index that it was able to read.
NothingForgotten ==
    [][\/ \A e \in index : \E x \in index' : FileOf(x) = FileOf(e)
       \/ Blindly]_index
=============================================================================
