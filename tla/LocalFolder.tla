----------------------------- MODULE LocalFolder -----------------------------
(***************************************************************************)
(* The folder of IODDs a plant keeps on its own disk: _fromLocalDir of     *)
(* lib/iodd-store.js, with _textsFor.                                      *)
(*                                                                         *)
(* A search goes through the files one by one, and stats each before it    *)
(* reads it.  What a file described when it was read is remembered under   *)
(* the time it was statted with, for every later search to skip it by.     *)
(* Searches overlap, and files are replaced at any moment.                 *)
(*                                                                         *)
(* A file that is not there is as one that is no XML.  Time stamps come    *)
(* from a small set, so that a copy may keep one that was there before.    *)
(***************************************************************************)
EXTENDS FiniteSets

CONSTANTS
    FolderFiles, Searches, Wanted,
    Translation, Stray,  \* what describes no device, and what does not parse
    Stamps, NotIndexed, NoFile

ASSUME FolderAssumption ==
    {Translation, Stray, NotIndexed} \cap Wanted = {} /\ NoFile \notin FolderFiles

VARIABLES
    folder,      \* what is in each file, and its mtime
    localIndex,  \* what each file described, and the mtime that was for
    search,
    worn         \* history: the mtimes a file has had, {} once one came twice

folderVars == <<folder, localIndex, search, worn>>

-----------------------------------------------------------------------------

FileContents == Wanted \cup {Translation, Stray}
Indexed == [stamp : Stamps, device : Wanted \cup {Translation}]

\* `steady` is a history field: the files that could be read and have described
\* the device ever since the search began, and never had the same time twice.
NoSearch == [pc |-> "idle"]
Searching == [pc : {"stat", "read", "texts", "ended"}, want : Wanted,
              left : SUBSET FolderFiles, at : FolderFiles \cup {NoFile},
              stamp : Stamps \cup {NoFile},
              found : BOOLEAN, steady : SUBSET FolderFiles]

FolderTypeOK ==
    /\ folder \in [FolderFiles -> [content : FileContents, stamp : Stamps]]
    /\ localIndex \in [FolderFiles -> Indexed \cup {NotIndexed}]
    /\ search \in [Searches -> {NoSearch} \cup Searching]
    /\ worn \in [FolderFiles -> SUBSET Stamps]

FolderInit ==
    /\ folder \in [FolderFiles -> [content : FileContents, stamp : Stamps]]
    /\ localIndex = [f \in FolderFiles |-> NotIndexed]
    /\ search = [s \in Searches |-> NoSearch]
    /\ worn = [f \in FolderFiles |-> {folder[f].stamp}]

Begun(d, stage, names, readable) ==
    [pc |-> stage, want |-> d, left |-> names, at |-> NoFile, stamp |-> NoFile,
     found |-> FALSE,
     steady |-> {f \in readable : folder[f].content = d /\ worn[f] # {}}]

\* The names are those of now; a file that comes later is not looked at.
FindLocal(s, d) ==
    /\ search[s].pc \in {"idle", "ended"}
    /\ \E absent \in SUBSET {f \in FolderFiles : folder[f].content = Stray} :
         search' = [search EXCEPT ![s] =
                      Begun(d, "stat", FolderFiles \ absent, FolderFiles)]
    /\ UNCHANGED <<folder, localIndex, worn>>

\* No folder is configured, or it cannot be listed.
NoFolder(s, d) ==
    /\ search[s].pc \in {"idle", "ended"}
    /\ search' = [search EXCEPT ![s] = Begun(d, "ended", {}, {})]
    /\ UNCHANGED <<folder, localIndex, worn>>

\* Mutant: an entry counts, whatever the file's time is by now.
KnownForGood(f, want) ==
    localIndex[f] # NotIndexed /\ localIndex[f].device # want

\* The file is as it was when it was found to describe something else.
KnownOther(f, want) ==
    /\ localIndex[f] # NotIndexed
    /\ localIndex[f].stamp = folder[f].stamp /\ localIndex[f].device # want

Stat(s) ==
    /\ search[s].pc = "stat"
    /\ \E f \in search[s].left :
         search' = [search EXCEPT ![s] =
           IF KnownOther(f, search[s].want)
           THEN [search[s] EXCEPT !.left = search[s].left \ {f}]
           ELSE [search[s] EXCEPT !.left = search[s].left \ {f}, !.pc = "read",
                                  !.at = f, !.stamp = folder[f].stamp]]
    /\ UNCHANGED <<folder, localIndex, worn>>

\* The search is done with the file it was at.
Leaves(s, stage) ==
    [search EXCEPT ![s].pc = stage, ![s].at = NoFile, ![s].stamp = NoFile]

NoneLeft(s) ==
    /\ search[s].pc = "stat" /\ search[s].left = {}
    /\ search' = [search EXCEPT ![s].pc = "ended"]
    /\ UNCHANGED <<folder, localIndex, worn>>

\* What does not parse is not remembered, and does not stop the search.
ReadFile(s) ==
    LET f == search[s].at  described == folder[f].content IN
    /\ search[s].pc = "read"
    /\ localIndex' = IF described = Stray THEN localIndex
                     ELSE [localIndex EXCEPT ![f] =
                             [stamp |-> search[s].stamp, device |-> described]]
    /\ search' = IF described = search[s].want
                 THEN [search EXCEPT ![s].pc = "texts"]
                 ELSE Leaves(s, "stat")
    /\ UNCHANGED <<folder, worn>>

\* Its translations are read and the file is parsed once more, with them.
Translated(s) ==
    /\ search[s].pc = "texts"
    /\ search' = [Leaves(s, "ended") EXCEPT ![s].found = TRUE]
    /\ UNCHANGED <<folder, localIndex, worn>>

\* The file cannot be read, or one of its translations does not parse.
Unusable(s) ==
    /\ search[s].pc \in {"read", "texts"}
    /\ search' = [Leaves(s, "stat") EXCEPT
                    ![s].steady = search[s].steady \ {search[s].at}]
    /\ UNCHANGED <<folder, localIndex, worn>>

\* Somebody edits or replaces a file, or puts an older one back.
Replace(f) ==
    /\ \E content \in FileContents, m \in Stamps :
         /\ folder' = [folder EXCEPT ![f] = [content |-> content, stamp |-> m]]
         /\ worn' = [worn EXCEPT ![f] =
              IF m \in worn[f] \/ worn[f] = {} THEN {} ELSE worn[f] \cup {m}]
         /\ search' = [s \in Searches |->
              IF search[s] # NoSearch /\ (search[s].want # content \/ worn'[f] = {})
              THEN [search[s] EXCEPT !.steady = search[s].steady \ {f}]
              ELSE search[s]]
    /\ UNCHANGED localIndex

ClearIndex ==
    /\ localIndex' = [f \in FolderFiles |-> NotIndexed]
    /\ UNCHANGED <<folder, search, worn>>

FolderNext ==
    \/ \E s \in Searches :
         \/ \E d \in Wanted : FindLocal(s, d) \/ NoFolder(s, d)
         \/ Stat(s) \/ NoneLeft(s) \/ ReadFile(s) \/ Translated(s) \/ Unusable(s)
    \/ \E f \in FolderFiles : Replace(f)
    \/ ClearIndex

-----------------------------------------------------------------------------

\* A device that a file has described all along is found, whoever else reads or
\* replaces files meanwhile: an entry of the index never hides it, as long as a
\* file that is replaced gets a time it did not have before.
FolderTellsAll ==
    \A s \in Searches :
        (search[s].pc = "ended" /\ ~search[s].found) => search[s].steady = {}
=============================================================================
