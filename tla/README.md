# A TLA+ model of node-red-contrib-iolink-suite

The suite lets Node-RED flows read, write and watch IO-Link devices behind a
master. It is JavaScript on one event loop: nothing runs in parallel, but every
handler awaits requests to the master, the disk or IODDfinder, and between two
awaits any other handler may run. What a test hardly reaches, and what these
modules are about, is what several handlers in flight do to the state they share.

Each module is translated from the source named in its header; `PROJECT.json`
(`map`) gives the lines behind every definition.

## 1. Inventory

### Components and their state

| Component | Source | State | Operations |
|---|---|---|---|
| Port identity cache | `lib/runtime.js` 10-108 | `entries`: port -> dated answer | `get`, `clear`, `resolveDevice` |
| IODD store | `lib/iodd-store.js` | `cache` of lookups, `failures`, `localIndex` | `device`, `clear`, `_fromLocalDir`, `fromFile` |
| IODD finder | `lib/iodd/finder.js`, `zip.js` | files and `index.json` on disk, queue of index updates | `load`, `store`, `importPackage`, `findCached` |
| Master node, editor API | `nodes/iolink-master.js` | owns one adapter, one store, one identity cache | close handler, HTTP routes |
| Adapters | `lib/adapters/*.js`, `lib/http.js` | ifm: request id; JSON API: alias table; generic: unsupported paths | `scanPorts`, `readProcessData*`, `writeProcessDataOut`, `readIsdu`, `writeIsdu` |
| Event node | `nodes/iolink-event.js` | `previous`, `started`, serialiser, polling timer | poll, close |
| Read node | `nodes/iolink-read.js` | polling timer, `warnedMissing` | read, close |
| Write node | `nodes/iolink-write.js` | none of its own: read-modify-write of the port's output | message handler |
| Parameter node | `nodes/iolink-param.js` | none of its own | read and write of one or several parameters |
| Scan node | `nodes/iolink-scan.js` | none | message handler |
| Decode node | `nodes/iodd-decode.js` | the last 4 IODDs received in messages | decode, encode |
| Polling helpers | `lib/runtime.js` 350-410 | `inFlight`, `stopped`, a promise chain | `startPolling`, `serialiser`, `asTick` |
| Codec | `lib/iodd/codec/*.js` | none (pure) | bits, decode, encode, scale |
| Parser, device, keys | `lib/iodd/parse/*.js`, `device.js` | while parsing: the keyer's used keys, the walk's chains | `parseIodd`, `selectVariant`, layouts, `encodeOut` |
| Tables, ZIP and XML readers | `lib/iodd/standard.js`, `units.js`, `zip.js`, `xml.js` | none | |

### How they interact

A read, write or parameter node calls `resolveDevice`: the identity cache
answers or asks the adapter to scan the port; the IODD store then answers,
joins a running lookup or starts one (local folder first, finder after). With
the device in hand the node exchanges raw bytes with the adapter. Every node on
a master shares the master's cache, store and adapter. The master's close
handler clears cache and store; a redeploy builds new ones, so only handlers
that were already running meet a cleared one.

### What is hard

* answers of the master delivered in another order than they were asked for,
  and stored under the time they were asked at (identity cache);
* many nodes deploying at once, a clear with lookups in flight, a lookup from
  before the clear ending after one from behind it (store);
* the timer and messages polling one node, an await in the middle of the walk
  over the answers, outages and device swaps in any order (event node);
* read back, encode, write as three awaits with nothing to order two messages
  (write node);
* files written in place by several writers, a crash between two writes, and an
  index that cannot be read and then counts as empty (finder);
* one of several requests failing on its own (adapters, parameter node);
* menus that show one value in several units, reached along several ways under
  conditions of which some are known (parser).

`PROJECT.json` (`hazards`) lists each at the line where it bites, with the
properties that would catch it, or the reason why none does yet.

### What makes each component correct

* Identity cache: no answer older than its caller accepts; an outage is never
  replayed; an empty port is re-asked soon; a swap is noticed in the end.
* Store: one lookup per device at a time; nobody waits for a lookup that is
  gone; found stays found; failed is left alone, and not for ever.
* Event node: the messages about a port form a chain from state to state, none
  lost or doubled; outages are told as outages; silence of the timer after
  close; a lasting state is eventually told.
* Write node: a field a message does not mention never gets an invented value,
  and keeps its value unless something else wrote meanwhile.
* Finder: the folder is a catalogue to which entries are added whole and from
  which none is lost that could be read; what the index names was once written
  whole; a stale copy beats no reading at all; every call ends.
* Local folder: a file that has described the device all along is found.
* Adapters: an entry says "empty" only of an empty port, but for a status that was
  refused or, with ifm, lost beside a mode that was answered; what nothing disturbed
  is complete; a write is never repeated once it may have landed; old names die.
* Read, parameter and scan nodes: a message accounts for all that was asked and
  no write happens behind the flow's back, but for ports without values in a split
  read and for parameters that share a name; the timer never goes back in time.
* Decode node: it keeps the sources used last.
* Codec, keys, parser: what was written reads back and the rest of the block
  stays; no two values of a layout share a key; no layout is guessed, and no unit
  but where no menu that shows the value is open.

## 2. Plan

In the order of the state shared, most first; all of it is done.

1. `PortIdentity`, `IoddStore`, `EventWatch`, `WriteNode`: the four places where
   handlers in flight meet, each with its proofs.
2. `FinderCache` with crashes, failing writes and any number of finders, the
   abstract `IoddCatalogue` it implements with one finder, and the proofs of both.
3. `PortScan` and `JsonApi`, composed by `MasterAdapters`.
4. `ReadNode`, `ParamNode`, `ScanNode`, `DecodeNode` and `LocalFolder`, composed by
   `FlowNodes`.
5. The library: `Bits`, `Codec`, `KeyNaming`, `Display`, composed by `Device`;
   `DeviceFiles` gives it files. Proofs about the bits of a block, about
   keys, about the walk through the menus and about the values a block says.

What would come next: an abstract register per port that `PortIdentity` implements
up to staleness; the nodes on top of `PortIdentity` and `IoddStore` instead of on
answers that may be anything; texts and variables of the parser.

Each module is written to be proved about: parameters are CONSTANTS with named
assumptions, one action per step of the code between two awaits, invariants as
named conjuncts, no RECURSIVE operator.

## 3. Modules

Every module cuts the code at its awaits: an action is what the event loop runs
between two of them, so reads and writes of shared state within one action
cannot be torn apart and those in two actions can.

### PortIdentity (`lib/runtime.js` 22-47, 65-108)

`entries` is the Map, `call` the local variables of the calls to `get` that are
under way, `reply` what a scan would answer now, `result` what the last step
returned to a caller. `Hit` is the early return of line 39; `Ask` runs up to the
await of line 40; `Reply` is the master settling its answer; `Return` is lines
41-43; `Clear` is line 46. `Outcome` is `resolveDevice`'s reading of an answer.

Time is kept as ages that saturate at `Cap`. The code only asks whether an age
is below a wish or `EmptyTtl`, both at most `Cap`, so saturation hides nothing.
`seen` (how long ago the master really gave the answer) is a history field.

An answer is one of: a device with both ids, a device with a vendor only, a
device of unknown identity, no device, an entry with `error`. The `force`
option is left out: no node passes it.

### IoddStore (`lib/iodd-store.js` 25-56, 129-171)

`cache` holds lookups, running ones named by the call that runs them; `failures`
the age of each remembered failure. `Begin` is lines 142-169 up to the first
await; `Join` and `Recall` the two ways to find an entry; `Refuse` line 151.
`LocalDone` and `FinderDone` are the two awaits of `_load`; `Succeed` and
`Fail` the two handlers of lines 155-167. The owner and all who wait resume in
one drain of the microtask queue, so they are served in one step (`Resume`).
`Fail` deletes whatever entry the key has, as line 164 does. `stale`, `leaked`
and `ended` are history: which lookups began before the last clear, which keys
such a lookup has failed for since, and when a key's lookup last failed.

### EventWatch (`nodes/iolink-event.js`, `lib/runtime.js` 358-410)

`queue` is the promise chain of `serialiser`; `poll` the polls, one for the
timer and one for each message slot. `Enqueue` is `oneAtATime(...)`, `Start` the
call of `pollOnce`, `Scan` one port of `scanPorts`, `Walk` one turn of the loop
up to the await of `readDeviceStatus`, `Probe` its rest, `Note` lines 84-117,
`Finish` lines 119-121, `Close` the close handler. While a poll is in the
synchronous part of its loop no other action is enabled (`Quiet`).

A state is the tuple of what `diff` watches, reduced to the device seen, its
health and the `unreachable` flag. The option to read the device status is on;
without it the loop has one await less. `Classify` keeps the order of the
conditions of `classify`. `told` and `lastReal` are history: what the flow was
last told of a port, and what the master last really answered.

### WriteNode (`nodes/iolink-write.js`, `lib/iodd/codec/encode.js` 120-162)

`output` is the port's output as a function from fields to values, `write` the
messages being handled. `Resolved` decides by counting keys whether a base is
needed (line 48), `ReadBack`/`ReadBackFails` are the two ends of line 54, `Land`
is the master taking the block over, `Answered` the answer to it, `Fails` any
other way to end before the write. `Typo` stands for a key the layout does not
know. `held` and `calm` are history: the values each field of the output has had
since the message arrived, and whether the output was left alone since the
read-back. Messages carry their own `merge`, because several write nodes,
configured differently, may share a port.

### FinderCache, IoddCatalogue (`lib/iodd/finder.js`)

`disk` and `index` are the folder, `call` the calls of `load` and `importPackage`
with their local variables, `told` what each was last told. Every await is a step:
`Lookup` (`findCached`), `Search`, `Download`, `OpenFile`/`CloseFile` (`writeFile`,
which truncates first), `ReadIndex`, `WriteTemporary`, `Rename` (the three awaits of
an index update), `FallBack` and `ReadCached`. The queue of `_serialised` is kept as
the set of updates `ahead` of each. `WriteFails` is any write that rejects, `Crash`
the end of the process. An archive is the number of IODDs in it. fast-xml-parser
makes do with many truncated documents, so reading a torn file may end either way.

Reads fail as well: `readable` says whether the folder can be read at present, and
`Falter` turns it. An index that cannot be read, or parsed, counts as empty (`Read`,
line 106), for a lookup as for an update; a file that cannot be read ends its call.
`blind` marks an update that read the index as empty for that reason: its rename
leaves its own entry alone. A file is the XML with its translations; `CloseFile`
makes it whole only if no other call writes it still and none was cut short beside
it (`Written`). `cut`, `lacking` and `named` are history: the files of which a write
was cut short, the calls during which there was no whole copy at hand, and the files
the index has named.

`IoddCatalogue` has no calls, files or queues: entries join a set whole, answers
name what it holds or has held, a restart drops the answers. An entry added while the
catalogue could not be read takes the place of all others (`StartOver`). `Catalogue`
in `FinderCache` is the mapping: the catalogue is the index. A step that answers is
`Recall` or `Clear`, `Rename` is `Add`, or `StartOver` if it is blind, `Crash` is
`Restart`, everything else stutters. `IsCatalogue` does not say when `StartOver` may
happen; `NothingForgotten` does: only after a read of the index that failed.

### PortScan, JsonApi, MasterAdapters (`lib/adapters/*.js`, `lib/http.js`)

`PortScan` is one port's share of `scanPorts`, request by request, for the ifm and
the generic adapter: `Settle` is the end of one request, `StatusKnown` and
`IdentityKnown` what the adapter makes of them once all have settled. The device may
be exchanged between any two. `unsupported` is the generic adapter's set with what
the configuration gives no path for; without a path for the status an entry says
"unknown".

`JsonApi` is the alias table: `Address` is `_alias`, which empties the table before
it awaits the list; `ListArrives` fills whatever table there is by then; `LookAgain`
is the second attempt after 304. A list need not have an alias for every port
(`Filled`). `Minute` is the table's life; a request is aborted
long before, so a call sees one tick at most. `MasterAdapters` picks a profile.

### ReadNode, ParamNode, ScanNode, DecodeNode, LocalFolder, FlowNodes

`ReadNode` has the timer (`Tick`, with `inFlight` and `stopped`) and messages
(`Input`); a read goes from port to port by `Resolved`, `DataArrive` and `PortFails`.
What arrives from a port are the `Keys` of its values that the node is to send, all,
some or none; `Body` makes one message of them all or one for each value, and a port
without a value is in none of these. `sent` is what the last step sent.
`ParamNode` is one message: `DeviceResolved`, then `Go` and the end of a request for
each parameter. A write whose answer is lost has landed or not (`Land`,
`IsduFails`). The node keeps nothing between messages, so that `Elsewhere` stands
for all other writers and one message for any number. `name` gives each parameter
its name in the IODD, which another may share; `ParamTellsAll` and `NoSilentWrite`
follow each parameter by itself, and what a later one of the same name displaced is
an exception of their own (`Namesakes`). `ScanNode` is the scan and its lookups;
`DecodeNode` the Map of the IODDs sent in messages. `LocalFolder` is
`_fromLocalDir` of the store: `Stat` and `ReadFile` are two awaits, `localIndex` is
dated by the first; `IoddStore` takes the whole search as its step `LocalDone`.
They share nothing but the master, so a behaviour of `FlowNodes` is that of one.
`Objects` is the assignment to a property of an object.

### Bits, Codec, KeyNaming, Display, Device (`lib/iodd/**`)

A number that is not negative is the set of its one bits, so that `ReadBits` and
`WriteBits` are the shifts and masks of `bits.js`. Engineering values count halves
(`One` is 2), which makes rounding visible. `Key` abstracts a style to the gives; `KeyFor` is the loop that looks for a free key. `Walk` is `walk` of
`display.js` by levels, `ResolveCandidates` the choice of a scaling. A reference to a
value may have attributes without a scaling (`Raw`), or none at all (`Bare`): the
latter is no candidate, but hides what a menu says of the whole value. `Device` is a
state machine over them: `Parse` walks the menus, `SelectVariant` or `NameVariant`
picks a layout, `Build` takes its items one by one in the order of the file,
`ReadBack` brings the device's block, `EncodeOut` writes values into it or into
zeros. Only the layout of the selected variant is built, since layouts share no state.
`FieldsHold` compares with reference definitions (`Asks`, `Near`), `NeverGuessed`
with all ways through the menus (`Ways`), enumerated without the walk.

## 4. Runs

| Run | Distinct states | What it shows |
|---|---|---|
| `port_identity` | 313 k | freshness, recency of "empty", no replayed outage, soundness of the cache, swaps noticed |
| `port_identity_asked_once` | violation | concurrent misses each scan the port |
| `iodd_store` | 13.6 k | one lookup at a time, waiters served, failures left alone, found stays found, resolves at last |
| `event_watch` | 138 k | no change lost, messages chain, outages are no changes, timer silent after close, eventually told |
| `event_watch_coming_back` | violation | deployed during an outage, the node reports the return as devices appearing |
| `write_node` | 223 k | no invented values, an undisturbed merge touches only what it mentions |
| `write_node_lost_update` | violation | overlapping merges undo each other |
| `finder_cache` | 96 k | implements the catalogue, stale copies serve, named files whole, calls end |
| `finder_cache_two` | violation | two finders on one folder lose each other's entries |
| `master_adapters` | 1.01 M | empty is empty, undisturbed scans complete, writes at most once, old names die |
| `flow_nodes` | 472 k | what is asked for is accounted for, and every write; least recently used, timer forward |
| `device_files` | 52 k | unique keys, values hold, no layout guessed, and no unit but for `OnlyClosed` |

Three properties have exceptions in which the code tells less than it should:
`EmptyIsEmpty`, `NothingLost` with `NoSilentWrite`, and `NeverGuessed`. Each is spelled
out in the property and listed under the findings.

`DeviceFiles` is an MC module: files are records, which a configuration cannot
write. The other configurations give constants sets of model values.

### Bounds, and why they are enough

* `port_identity`: one port, since `get` never relates two ports; two calls, the
  fewest that overlap; wishes of 1 and 2 with `EmptyTtl` 1, so that a wish
  above and a wish at the empty limit meet; `Cap` 2, the largest wish. One
  identified device is enough next to the other four answers: a swap is any
  change of answer.
* `iodd_store`: one key, since keys never meet; three callers: an owner from
  before a clear, one from after it, and one that waits or comes later.
  `RetryAfter` 2 gives an age strictly inside the window.
* `event_watch`: one port, two devices, two healths, the timer and one message
  slot, which is used again and again. Two ports are too large for a run; that
  the walk over several ports keeps them apart is what `EventWatchProofs` shows,
  for any number of ports, devices and messages.
* `write_node`: two messages, two fields, two values, one unknown key.

* `finder_cache`: two calls, the fewest that meet; one device with two ioddIds
  (one of a hand-imported package), since entries of one device compete and those
  of others only share the index. The violation needs two finders and two devices.
* `master_adapters`: two overlapping scans and two overlapping calls; two devices,
  so that an entry can be of neither; two ports and an alias that is no default.
  `Linger` is tight: one minute less and the run fails. Symmetry is used.
* `flow_nodes`: two ports, two timer slots and one message slot, since the timer's
  reads exclude each other and messages do not; two values of a port, so that a split
  read has no, one or several parts of it; readings 0 and 1; lists of at most
  two parameters; room for two IODDs instead of four, with four sources; one file
  with three contents, two searches and two times. Symmetry is used, which is sound
  here because all properties of the run are about safety.
* `device_files`: three names that may collide, in every order; three menus with
  all 16 graphs of four references and every choice of what they show; menus, and a
  reference to the process data, that hide others with or without attributes; two
  condition parameters; blocks of up to three octets; payloads of one or two values.

Deadlock is checked in every run that passes but `device_files`: a behaviour there
ends when its file has been read and its writes are made.

### Fairness

* `Tick` of the clock: time passes.
* The ends of awaits (`Reply`, `Return`, `LocalDone`, `FinderDone` and the steps
  of a poll): every request is aborted by the timer of `lib/http.js` (22) or of
  the finder, file operations end, and a settled promise resumes its handler.
* Every await of a call of the finder ends (`Advance`): files are written or fail,
  requests are aborted. A crash excuses the calls it ends.
* `Tick` of the event node: `setInterval` keeps firing while the node is open.

Nobody is obliged to call, no message has to come, the node need not close, and
the world need not change. All of it is weak fairness of single steps.

### Findings

1. `lib/runtime.js` 13 promises that three nodes reading a port ask it once. The
   cache shares answers, not questions, so calls that start before the first
   answer each scan (`AskedOnce`).
2. `nodes/iolink-event.js` 66 says the master coming back is not every device
   appearing again. That holds once the node has seen the port
   (`OutageIsNoChange`), not for a node deployed during the outage
   (`ComingBackIsNoAppearance`).
3. `nodes/iolink-write.js` 9 says setting one field leaves the others alone.
   That holds when nothing else writes between read-back and write
   (`AloneLeavesOthers`), not when two messages overlap (`LeavesOthersAlone`).

4. `lib/iodd/finder.js` 120 promises that several nodes do not overwrite each
   other's index entries. The queue belongs to a finder, and each master node has one,
   on a common folder (`NothingForgotten`; with one finder it is a theorem).

Corners met on the way that have no run of their own:

* a path in `msg.iodd` is remembered by its name, not its content;
* a translation file that does not parse takes its IODD with it
  (`iodd-store.js` 104 throws into 107), where the comment for an unreadable one
  says the IODD still works in its own languages;
* the number an enum text stands for is taken as an engineering value of a scaled
  item (`encode.js` 7), so what such a write asks for is left open (`Anything`);
* with a negative gradient minimum and maximum change places, and a ranged item
  refuses every write;
* any text or number a Boolean does not know writes false.

Disagreements without a run. In four places the code does other than the repository
says, and the property that covers the place holds of the code with an exception:

* `lib/adapters/ifm.js` 125-127 and `test/adapters-ifm.test.js` 141-149 say that a
  port whose status is not answered must not look like an empty one. With the status
  lost and the mode answered it does (128): the last disjunct of `EmptyIsEmpty`.
* README 198, CHANGELOG 231 and `test/nodes-read-write.test.js` 401 say that a split
  read names the ports that failed. If no port that answered has a value to send,
  there is no message to name them on (`iolink-read.js` 157): `ReadTellsAll` promises
  them on every part.
* `nodes/iolink-param.html` 200-205 says that a parameter left out is named under the
  errors. Results are keyed by name, and names are not unique: of two parameters that
  share one, the later result replaces the earlier (`iolink-param.js` 201), and the
  earlier is told nowhere, be it read or written: `Namesakes` in `ParamTellsAll` and
  `NoSilentWrite`.
* `lib/iodd/parse/display.js` 212-213 says that candidates with an unmatched condition
  are discarded, and IODD-PARSER.md 55-59 that such a value is returned raw. Where no
  menu that shows a value is open, the scaling they all agree on is taken (230-235),
  also when a condition that was supplied rules them out: `OnlyClosed` in
  `NeverGuessed`.

The store has one more corner, which no document denies: a lookup begun before a
clear and failing after it deletes the entry of a newer lookup
(`lib/iodd-store.js` 164). `LookupShared` and `FoundStays` except just the keys
this has happened to (`leaked`), and the proofs show there is no other case.
It takes handlers that outlive the close of their master.

## 5. Proofs

Checked by TLAPS for every value of the constants under the assumptions the
modules name: `TimesAssumption`, `AnswersAssumption`, `MarkersAssumption` of the
identity cache; `RetryAssumption`, `SourcesAssumption`, `LookupMarkers` of the store;
`PortsAssumption`, `AnswersAssumption` of the event node; `LayoutAssumption`;
`IoddAssumption`, `FinderMarkers`; `NobodyAssumption` and `AliasAssumption` of the
adapters; `ReadAssumption`, `ParamAssumption`, `WatchedAssumption`,
`DecodeAssumption`, `FolderAssumption` of the nodes; `MenusAssumption` (a file has
finitely many menus, and a reference one condition or none) and `LayoutsAssumption`
(lengths and offsets are not negative, strings and padding are octets) of the device.
They say that markers are no data, that counts are positive, that sets nest as they
should. `FieldsAssumption` says what the device needs of a valid file: fields inside the
block and apart from one another, strings on whole octets, no gradient 0, a type that
is modelled. The code checks bounds, alignment and type each time it reads or writes a
value, overlap and a gradient of 0 never: in a file that has either, values disturb one
another or are lost, and `FieldsHold` is claimed of no such file. The lemmas of
`Bits` state what they assume themselves. TLC evaluates each assumption in the runs.
Every safety property of a passing run is a theorem.

* `PortIdentityProofs`: `AnswerFresh` speaks of the moment an answer is handed
  over and is not inductive. It rests on `CacheSound`: no entry is younger than
  its date says, none holds an outage, and `empty` says what the value is; the
  same for answers still in flight; it is a theorem of its own (`CacheIsSound`). Time moves all ages alike (`OlderMonotone`),
  which is why dating an entry by the earlier clock reading is safe.
* `IoddStoreProofs`: the invariant ties the cache to the calls from both sides:
  a running entry names a call that runs it (`CacheOwned`), and a call that runs
  a lookup since the last clear is named by the cache or its key has leaked
  (`OwnersCached`). One lookup per key follows because an entry names one owner.
  `FailuresDated` makes the remembered age the real one, from which the
  retry window follows.
* `EventWatchProofs`: `NoChangeLost` is about the time between polls and says
  nothing in the middle of one. `WalkInStep` carries it through: during a walk
  the flow's picture of a port differs from the node's exactly where a message
  is waiting to be sent, and only behind the port in hand. It survives because
  only the head of the queue is ever active (`Serialised`), and it holds across
  the await in the walk because a probe keeps the state it compares with
  (`ProbeHolds`). `LastRealKept` says that the state kept of a port is the last
  real answer about it, from which `OutageIsNoChange` follows.
* `WriteNodeProofs`: every message under way has seen the output's current
  values (`HeldCurrent`), and a block of a calm message agrees with the output
  on the fields it left out (`CalmAgrees`). The interesting lemma is
  `FullPayload`: the code counts keys, and only because unknown keys are
  refused does "as many keys as items" mean "every item".

* `FinderCacheProofs`: a step is either quiet or one of the five that change the
  folder or what is known of it (`StepKinds`), so that each invariant is proved for
  these instead of for every action. `NamedWhole`, for any number of finders: a file once `Sound`
  stays so (`SoundStays`), and what a call has read of the index or is about to add
  is sound. For one finder (`OneFinder`) the queue orders updates: of two in it one
  waits for the other (`InTurn`), so the one whose turn it is holds the index as it
  still is, or none of it if it could not read it (`UpToDate`), and an entry that was
  found was in the index at the time (`OnceNamed`). From these follow the refinement (`ImplementsCatalogue`), `NothingIsForgotten`
  and `StaleCopyServes`, a load failing only if the folder could not be read, had no
  whole copy or lost the chosen entry to a blind update while the load was under way.
* `MasterAdaptersProofs`: what a scan has noted is tied to what the port has seen
  since the scan began, one conjunct per claim an entry may make (`Good`), so that a
  swap only ever widens what is allowed. `unsupported` holds
  only what was refused once. For the aliases `TableTrue` says that a name in the
  table is the present one, unless the table is past its life or the renaming is
  younger than the table; `Fair` says the same of what a call has read from it.
* `FlowNodesProofs`: the nodes share nothing but the master, so the invariant is the
  conjunction of one per node. What a message will say is never less than what was
  asked: answered, failed or still to do, in the scan (`Walking`), the list of
  parameters (`Handled`, `Dealt`, `Covers`) and the read from port to port
  (`Accounts`), each with the exception its property names. `OfTimer` gives the order in time: a timer's reading is newer than
  the one before, because the next tick is skipped while it is in flight. The decode
  node's Map is in order of use and lacks only what was used before all of it
  (`InOrder`, `Gone`). `IndexTrue` ties an index entry to what the file of that date
  says, and `Ahead` keeps a file that has described the device all along in front of
  the search until it is read.
* `DeviceProofs`, keys: they are unique for any names. The keyer remembers every key
  it gave (`Remembered`), so the invariant ties its set of used keys to the items.
* `DeviceProofs`, bits: for blocks of any length, a field written reads back, all
  other bits stay, hence disjoint fields do not disturb each other; octets likewise.
* `DeviceProofs`, payloads: `encodeLayout` writes its values one after another, in an
  order that is left open. The blocks in between exist for every finite payload
  (`FoldExists`, `EncodeLayoutRounds`), and a part of the payload with no smaller one
  inside that goes wrong (`SmallestFirst`) is what the argument leads to a
  contradiction: outside the fields nothing changes, and a field that overlaps no
  other becomes what its value alone makes of it (`EncodeLayoutKeeps`). What is decoded
  depends on the bits of the field alone (`FieldAlone`), so the other values read as
  before (`OthersReadAlike`) and each written one as if written alone
  (`EachReadsAsAlone`). `BlockTrue` carries the length of the block and the bits of no
  item through every step, which gives `RestIsKept` of the spec: `RestKept`, the first
  part of `FieldsHold`.
* `DeviceProofs`, values: what one value becomes on its way through its own field. The
  provers know nothing of powers, so that 2^(n+1) is twice 2^n comes from the number of
  subsets (`Powers`). A count is a sum of powers over its bits in an order left open;
  any bit may be the first (`UnsignedTake`), and a shortest field that cut a count wrongly
  leads to a contradiction (`BitsOfCount`): writing keeps a count modulo the width,
  negative or not. In the range of its type it comes back as it was (`CountsHold`),
  rounding and scaling miss by half a count (`HalfACount`), and the padding of a string
  is what `trimString` takes away, unless it is the string's own (`PaddingGoes`,
  `StringHolds`). `ValueHolds` puts them together for each type and each kind of value.
  The model's integers are exact; what the code does beyond 53 bits is section 6.
* `DeviceProofs`, `FieldsAreHeld`: the invariant (`HeldTrue`) adds where each item is
  from, a part of the selected layout that is built once with a scaling some menu
  declares (`ItemsTrue`, which is why it needs `WalkTrue`), and what the block says
  (`Says`). A write keeps it by `ValueHolds` for the values it writes and
  `OthersReadAlike` for the rest (`EncodedSays`); padding is cut off before decoding,
  and a parameter has its block to itself (`ParameterHolds`).
* `DeviceProofs`, menus: `NeverGuessed` judges a scaling by the ways through the
  menus, the code by the chains that `walk` has collected. After d rounds of calls
  the open calls are exactly the ways of d references and the chains those of the
  shorter ones (`WalkedTo`; `Prolonged` and `Prefix` are the two directions, `WalkOn`
  the step). No way is longer than there are menus (`NotLonger`), so the ways are
  those `NeverGuessed` enumerates (`PathsAreWays`); when no call is open no way is
  left (`Arrived`). What the code finds for a value then stands for the menus that
  show it (`CandidatesStandFor`), and what it makes of that is what they justify, or
  what all of them agree on while none is open (`Resolved`).

Model-checked only: the liveness properties (`SwapNoticed`, `ResolvesAtLast`,
`EventuallyTold`, `CallsEnd`), which rest on fairness.

## 6. Not modelled

* ZIP and XML readers (but for how many IODDs an archive has), the generated unit
  and standard tables, error codes: byte-level readers and tables without state.
* Of the parser: a device that shows its process data through both of the mirror's
  names (`display.js` 268), texts and languages, events, variables beyond their items,
  nested and referenced datatypes and their refusals. Of the codec: Float32, numbers
  beyond 53 bits, rounding for display, decoding of part of a block.
* Of the adapters: the request id, path templates, the single-request operations of
  ifm and generic, which are one request each.
* Of the read node the one warning about selected values a device lacks; of the master
  node the editor routes that render what the parser built.
* Everywhere: wording, node status, timestamps, product names. The `force` option of
  the identity cache, which no node passes; ids pinned in a node's configuration,
  which bypass it (`lib/runtime.js` 70); bits of an output block that no item covers
  in `WriteNode` (`FieldsHold` has them).
* `PortIdentity` takes an answer about one port at one moment; `PortScan` has the
  requests behind it.
