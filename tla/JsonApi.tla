------------------------------ MODULE JsonApi ------------------------------
(***************************************************************************)
(* The JSON API adapter: lib/adapters/jsonapi.js.                          *)
(*                                                                         *)
(* The API knows a device by an alias.  The adapter keeps a table of them, *)
(* emptied before the list that refills it is asked for, and a list is put *)
(* into whatever table there is when it arrives.  A port the table does    *)
(* not name goes by its default alias; a request that finds nobody by that *)
(* name is made once more with a new list.  Calls of any number of nodes   *)
(* overlap: scans, and exchanges with the device.  Of these only writes    *)
(* are kept; a read is a write that changes nothing.                       *)
(*                                                                         *)
(* A tick is the minute a table lasts.  No call takes that long, so a call *)
(* sees at most one tick.                                                  *)
(***************************************************************************)
EXTENDS Naturals

CONSTANTS
    Callers,
    Ports,
    Aliases,     \* the ports' default ones among them
    Unlisted     \* the table does not name the port

ASSUME AliasAssumption == Ports \subseteq Aliases /\ Unlisted \notin Aliases

VARIABLES
    names,       \* the master's aliases, unique
    table,       \* _aliases
    age,         \* minutes since _aliasesAt
    call,        \* the calls under way
    sinceRename  \* history: minutes since a port was last renamed

aliasVars == <<names, table, age, call, sinceRename>>

-----------------------------------------------------------------------------

MaxAge == 1
Ages == 0 .. MaxAge + 1

\* An old alias is used for this long at most after a port was renamed: a list
\* that was on its way, the minute it is good for, and the call that uses it.
Linger == MaxAge + 2

Tables == [Ports -> Aliases \cup {Unlisted}]
Namings == {f \in [Ports -> Aliases] : \A p, q \in Ports : f[p] = f[q] => p = q}

Waiting == [pc |-> "idle"]
Kinds == {"scan", "write"}
Results == {"ok", "absent", "error"}

\* `landed` counts the writes of a call that took effect; `excused` and `late`
\* are history: the names changed during the call or the master would not list
\* its port's, and a minute ended.
AliasCalls ==
         [pc : {"status", "listing", "listed", "asking"}, kind : Kinds, port : Ports,
          again : BOOLEAN, alias : Aliases \cup {Unlisted}, list : Tables,
          landed : 0 .. 2, excused : BOOLEAN, late : BOOLEAN]
    \cup [pc : {"done"}, kind : Kinds, landed : 0 .. 2, excused : BOOLEAN,
          notFound : BOOLEAN, result : Results]

Underway(c) == call[c].pc \notin {"idle", "done"}

AliasTypeOK ==
    /\ names \in Namings
    /\ table \in Tables
    /\ age \in Ages
    /\ call \in [Callers -> {Waiting} \cup AliasCalls]
    /\ sinceRename \in 0 .. Linger + 1

-----------------------------------------------------------------------------

Empty == [p \in Ports |-> Unlisted]

AliasInit ==
    /\ names \in Namings
    /\ table = Empty
    /\ age = MaxAge + 1
    /\ call = [c \in Callers |-> Waiting]
    /\ sinceRename = Linger + 1

\* A port's default alias, master1port2, is written as the port itself.
AliasOf(t, p) == IF t[p] = Unlisted THEN p ELSE t[p]

\* Mutant: a table is good for ever.
NeverStale == FALSE

Stale == age > MaxAge

\* _alias: the request goes out under the name the table has, unless the table
\* is too old or has just proved wrong.  It is emptied before the new list is
\* awaited.
Address(c, k, refresh) ==
    IF refresh \/ Stale
    THEN /\ table' = Empty
         /\ age' = 0
         /\ call' = [call EXCEPT ![c] = [k EXCEPT !.pc = "listing", !.alias = Unlisted]]
    ELSE /\ call' = [call EXCEPT ![c] =
              [k EXCEPT !.pc = "asking", !.alias = AliasOf(table, k.port)]]
         /\ UNCHANGED <<table, age>>

Fresh(kind, p) ==
    [pc |-> "status", kind |-> kind, port |-> p, again |-> FALSE,
     alias |-> Unlisted, list |-> Empty, landed |-> 0, excused |-> FALSE,
     late |-> FALSE]

\* A scan asks for the port's status first, by its number.
Call(c, kind, p) ==
    /\ ~Underway(c)
    /\ IF kind = "scan"
       THEN /\ call' = [call EXCEPT ![c] = Fresh(kind, p)]
            /\ UNCHANGED <<table, age>>
       ELSE Address(c, Fresh(kind, p), FALSE)
    /\ UNCHANGED <<names, sinceRename>>

Finish(c, result, notFound, landed) ==
    call' = [call EXCEPT ![c] =
      [pc |-> "done", kind |-> call[c].kind, landed |-> landed,
       excused |-> notFound /\ call[c].excused, notFound |-> notFound, result |-> result]]

\* readPortStatus of a scan: a device is online, there is none, or no answer.
StatusArrives(c) ==
    /\ call[c].pc = "status"
    /\ \/ Address(c, call[c], FALSE)
       \/ /\ \E result \in {"absent", "error"} : Finish(c, result, FALSE, 0)
          /\ UNCHANGED <<table, age>>
    /\ UNCHANGED <<names, sinceRename>>

\* The master puts its list together.
Listing(c) ==
    /\ call[c].pc = "listing"
    /\ call' = [call EXCEPT ![c].pc = "listed", ![c].list = names]
    /\ UNCHANGED <<names, table, age, sinceRename>>

\* The aliases the list gives; some ports may be listed without one.
Filled(t, list, given) == [p \in Ports |-> IF p \in given THEN list[p] ELSE t[p]]

\* They go into the table as it is now, over what others put there.
ListArrives(c) ==
    /\ call[c].pc = "listed"
    /\ \E given \in SUBSET Ports :
         /\ table' = Filled(table, call[c].list, given)
         /\ call' = [call EXCEPT
              ![c].pc = "asking", ![c].list = Empty,
              ![c].alias = AliasOf(table', call[c].port),
              ![c].excused = call[c].excused \/ call[c].port \notin given]
    /\ UNCHANGED <<names, age, sinceRename>>

\* A master that refuses the list is taken to use the defaults; one that does
\* not answer fails the call.
NoList(c) ==
    /\ call[c].pc = "listing"
    /\ \/ call' = [call EXCEPT ![c].pc = "asking", ![c].excused = TRUE,
                               ![c].alias = AliasOf(table, call[c].port)]
       \/ Finish(c, "error", FALSE, call[c].landed)
    /\ UNCHANGED <<names, table, age, sinceRename>>

Found(c) == \E p \in Ports : names[p] = call[c].alias

Landed(c) == call[c].landed + IF call[c].kind = "write" THEN 1 ELSE 0

\* The device the alias stands for answers; the answer may be lost.
Reach(c) ==
    /\ call[c].pc = "asking" /\ Found(c)
    /\ Finish(c, "ok", FALSE, Landed(c))
    /\ UNCHANGED <<names, table, age, sinceRename>>

\* Mutant: a request that was not answered is made again, too.
RepeatIfLost(c, landed) ==
    IF call[c].again
    THEN Finish(c, "error", FALSE, landed) /\ UNCHANGED <<table, age>>
    ELSE Address(c, [call[c] EXCEPT !.again = TRUE, !.landed = landed], FALSE)

GiveUpIfLost(c, landed) == Finish(c, "error", FALSE, landed) /\ UNCHANGED <<table, age>>

\* The request, or the answer to it, is lost: a write may have been applied.
Lost(c) ==
    /\ call[c].pc = "asking"
    /\ \E landed \in {call[c].landed} \cup (IF Found(c) THEN {Landed(c)} ELSE {}) :
         GiveUpIfLost(c, landed)
    /\ UNCHANGED <<names, sinceRename>>

\* The device or the master refuses: for a scan that is a state of the port.
Refuse(c) ==
    /\ call[c].pc = "asking"
    /\ Finish(c, IF call[c].kind = "scan" THEN "absent" ELSE "error", FALSE, call[c].landed)
    /\ UNCHANGED <<names, table, age, sinceRename>>

\* Mutant: the second attempt trusts the table the first one used.
TryAgain(c) == Address(c, [call[c] EXCEPT !.again = TRUE], FALSE)

LookAgain(c) == Address(c, [call[c] EXCEPT !.again = TRUE], TRUE)

\* 304: nobody by that name.
NotFound(c) ==
    /\ call[c].pc = "asking" /\ ~Found(c)
    /\ IF call[c].again
       THEN /\ Finish(c, IF call[c].kind = "scan" THEN "absent" ELSE "error",
                      TRUE, call[c].landed)
            /\ UNCHANGED <<table, age>>
       ELSE LookAgain(c)
    /\ UNCHANGED <<names, sinceRename>>

\* Someone gives the ports new names.
Rename(f) ==
    /\ f # names
    /\ names' = f
    /\ sinceRename' = 0
    /\ call' = [c \in Callers |->
         IF Underway(c) THEN [call[c] EXCEPT !.excused = TRUE] ELSE call[c]]
    /\ UNCHANGED <<table, age>>

\* A call under way is over before the next minute is.
Minute ==
    /\ \A c \in Callers : Underway(c) => ~call[c].late
    /\ age' = IF age > MaxAge THEN age ELSE age + 1
    /\ sinceRename' = IF sinceRename > Linger THEN sinceRename ELSE sinceRename + 1
    /\ call' = [c \in Callers |->
         IF Underway(c) THEN [call[c] EXCEPT !.late = TRUE] ELSE call[c]]
    /\ UNCHANGED <<names, table>>

AliasNext ==
    \/ \E c \in Callers :
         \/ \E kind \in Kinds, p \in Ports : Call(c, kind, p)
         \/ StatusArrives(c) \/ Listing(c) \/ ListArrives(c) \/ NoList(c)
         \/ Reach(c) \/ Lost(c) \/ Refuse(c) \/ NotFound(c)
    \/ \E f \in Namings : Rename(f)
    \/ Minute

-----------------------------------------------------------------------------
(* Properties.                                                              *)

\* A flow node's write takes effect at most once, and exactly once if the node
\* is told so: only a request that found nobody is ever repeated.
AtMostOnce ==
    \A c \in Callers : call[c].pc = "done" =>
        /\ call[c].landed <= 1
        /\ call[c].kind = "write" /\ call[c].result = "ok" => call[c].landed = 1

\* "The default is what most masters use, but a renamed port would otherwise
\* answer 304 for ever": a request that finds nobody twice was overtaken by a
\* renaming, or the master would not list its port's name.
NotFoundIsTrue ==
    \A c \in Callers : (call[c].pc = "done" /\ call[c].notFound) =>
        call[c].excused

\* A request reaches the device of another port only within Linger minutes of a
\* renaming, or where that device goes by the default name of this port.
OldNamesDieOut ==
    \A c \in Callers : (call[c].pc = "asking" /\ Found(c)) =>
        \/ names[call[c].port] = call[c].alias
        \/ sinceRename <= Linger
        \/ call[c].alias = call[c].port
=============================================================================
