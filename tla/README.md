# Verification of go-libiec61850

TLA+ models of the Go binding to libiec61850 (`iec61850/*.go`,
`iec61850/report_bridge.c`, `iec61850/scl_xml/scl.go`), TLC configurations that
check them on small instances, and TLAPS proofs of the central invariants for
all instances. `PROJECT.json` lists components, runs, mutants, the lines each
definition models, findings, hazards and theorems.

Run a configuration with `tlc -workers 2 -config X.cfg M`, check the proofs of a
module with `tlapm M.tla`.

## 1. The system

The repository wraps the C library libiec61850 (vendored as headers and
archives) for Go programs that talk to, or act as, IEC 61850 devices.

| Part | State | Operations | Hard because |
|---|---|---|---|
| Report subscriptions (`iec61850_report.go`, `report_bridge.c`) | process-wide registry `reportHandlers` under `reportMu`, atomic `nextHandlerID`; per connection the library's list of callbacks; on the server, which RCBs are enabled | `SubscribeReport`, `SubscribeReportWithCandidates`, `UnsubscribeReport`, `goReportCallback` | goroutines, the receive thread of each connection and the servers interleave; each call is several steps that may fail in the middle; one registry serves all connections |
| Report contents (same files) | the library's `ClientReport` (values, reasons) | `flattenReportDataSet`, `buildReport`, `extractFlatValue` | two recursions must agree on a size; entries, elements and reasons are matched by position; values persist from report to report |
| Control (`iec61850_control.go`) | `controlCache` (handle and reusable `MmsValue` per reference) under `controlMu` | three `DirectWithNormalSecurity` calls, `clearControlObjectCache` | shared mutable value, blocking calls under a mutex, `Close` racing calls, C objects freed by hand |
| Data set reads (`iec61850_client.go`, `iec61850_schema.go`) | schema, the caller's map, `DOTypes` cache | `BuildDataSetSchema`, `ApplySchema`, `ReadDataSetValues`, `ReadDataSetFlat`, `ExplainDataSetValues` | two ways of reading that should agree; structures of any nesting, unwrapped by different rules; names and values are matched by position; reused maps |
| Connection (`iec61850_client.go`) | the library connection and its two timeouts | `NewIedClient` and options, `Connect`, `State`, `Close` | loss, reconnects to the same or another device, `Close` against everything else, conversion of durations |
| Browsing (`iec61850_client.go`) | none of its own; the library's copy of the device model | `BrowseModel`, `BrowseModelToSCL` | many requests in a row, with the connection lost or replaced in between; errors that are not looked at; two mutually recursive walks |
| SCL (`scl_xml/scl.go`) | parsed file, `DOTypes` cache | `GetSCL`, `GetDataSet`, `GetDOType`, `Print` | type lookup by class; unsynchronised cache |
| Server, dynamic model (`iec61850_server.go`, `model.go`) | data model with its lock, trigger options, report control blocks | create, start, update, lock, unlock, stop, destroy | the library's event thread reports on its own while the application updates; settings of an RCB outlive the subscription that wrote them |

How they interact: all client operations share one library connection. The
receive thread of a connection calls `goReportCallback` with the connection's
report handler mutex held; installing and uninstalling callbacks wait for that
mutex. `Close` clears the control cache, then closes and destroys the
connection; it leaves the registry of report handlers alone. `ReadDataSetFlat`
and `ApplySchema` both interpret a schema that `BuildDataSetSchema` made from
SCL types. A server built with this library and a client built with it meet in
the report control block: the client writes the settings, the server reports
what its application commits.

What makes them correct: a confirmed subscription delivers, to its own handler,
all that the server reports, until the application gives it up; what a handler
is shown is a state the server committed, and in the end the latest; calls
return; a report's entries are the report's contents; a control call sends its
own value to an object of the right type; C objects are freed once and not in
use; a value read is found under its own name; a browse lists one whole model.

## 2. Modules

| Module | Models | Composes |
|---|---|---|
| `ReportService` | what subscriptions promise | – |
| `ReportSubscription` | subscriptions, callbacks, connections, servers | instantiates `ReportService` |
| `ReportSubscriptionProofs` | theorems for any application | extends `ReportSubscription` |
| `ReportDisciplineProofs` | theorems for the disciplined application, refinement | extends `ReportSubscriptionProofs` |
| `ControlService` | what control calls promise | – |
| `ControlCache` | control calls and `Close` | instantiates `ControlService` |
| `ControlCacheProofs` | theorems about it, refinement | extends `ControlCache` |
| `ServerReports` | server, its updates, one RCB and a subscribed client | – |
| `ServerReportsProofs` | theorems about it | extends `ServerReports` |
| `ClientSession` | options, connection, browsing | – |
| `ClientSessionProofs` | theorems about it | extends `ClientSession` |
| `MmsValues` | MMS values and two library functions on them | – |
| `ReportFlatten` | contents of reports | extends `MmsValues` |
| `ReportFlattenProofs` | theorems about it | extends `ReportFlatten` |
| `DataSetSchema` | reads of data sets by name | extends `MmsValues` |
| `DataSetSchemaProofs` | theorems about it | extends `DataSetSchema` |
| `MC*` | instances for TLC | extend the above |

Definitions named "Mutant" in a comment are variants of the definition that
follows them, with a bug; they take part in nothing but mutation checks.

The vendored C code consists of headers and archives: it declares the library
and implements nothing. The models translate the Go files and `report_bridge.c`,
and take the library from its use there; apart from the trigger option constants
no header is translated, so most of the repository's lines, which are headers,
have no definition.

### ReportSubscription

`nextHandlerID` and `reportHandlers` are the variables of the Go code; a registry
entry records its key, its reference and, standing for the handler closure, the
client it was given to. `installed[c]` is the library's list of callbacks of
connection `c`: a sequence of slots with a reference, a report id and a handler
id, 0 standing for the NULL callback that uninstalling leaves. `rptEna` and
`wire` are the servers' side and the messages in flight. `cb[c]` is the receive
thread inside `goReportCallback`: looking the handler up, or in the handler.
`pc` and `frame` are the calls in progress. `granted` is a history variable: the
subscriptions for which the application got nil and which it has neither given
up nor lost with the connection.

Each call of the library and each critical section is an action, in the order of
the code: `GetRCBValues`, `RegisterHandler`, `InstallCallback`, `SetRCBApplied`
(the server enables the RCB), `SetRCBSucceeds` or `SetRCBFails`,
`RollbackDelete`, `RollbackUninstall`; `UnsubGetRCBValues`, `UnsubSetRCBValues`,
`UnsubUninstall`, `UnsubDelete`. Every request may fail, before or after it took
effect on the server. A failed attempt of `SubscribeReportWithCandidates` goes on
with the next reference. `UnsubDelete` removes an arbitrary entry of the
reference, as iteration over a Go map may.

The library is modelled from its use: `Reinstall` replaces the slot of the same
reference and appends the new one, `Selected` is the first slot with the report's
id; installing and uninstalling wait for the receive thread (`cb[c].at = "idle"`),
which is the library's mutex and an assumption about it, not a property of the Go
code. Requests of one connection are applied in the order they are sent (they
travel on one TCP connection), so that a write that timed out takes effect
before the next request of that client or not at all.

`Uses`, `SerialCalls` and `NoResubscribe` say how the application behaves. With
`Client \X Rcb`, FALSE and FALSE it does anything. The disciplined application
gives each reference to one client, does not overlap calls that name the same
reference, unsubscribes before it subscribes again, and its RCBs have report ids
of their own. Without these conditions held subscriptions do not all deliver:

- two clients with one reference: `UnsubscribeReport` of one may delete the
  entry of the other (run `UnsubscribeOther`);
- subscribing on top of a held subscription: if the write fails, the roll-back
  uninstalls the slot of the reference, which has replaced that of the earlier
  subscription. Whether it fails or not, the registry then has two entries for the
  reference, as it has after a lost connection and a second `SubscribeReport`, and
  `UnsubscribeReport` removes one;
- one report id for two RCBs: the library gives the reports of both to the
  callback installed first.

The service. `ReportService` has the subscriptions that are held, the reports on
their way and the callback each connection is in, and none of the machinery:
a report of a held subscription starts the callback of that subscription and no
other, which comes to its handler unless the subscription was given up in the
meantime. The mapping takes `granted` for what is held, `wire` for what is on its
way, and `Upcalls` for the callbacks. `ServesSubscriptions` is the refinement
without fairness, `ImplementsService` with it.

### ControlCache

`cache`, `controlMu` and the steps of a call are those of the code; `live` is the
set of handles allocated in the library. `DirectWithNormalSecurity` and the
other two begin a call, `LockControl` .. `Operate` are its steps; the three differ
in the kind of value and in the type check. `closing`
is the progress of `Close`, whose second half runs without `controlMu`. With
`CloseAlone` the application calls `Close` when no control call is in progress.
Destroying the connection frees the connection, not the handles that are left
in the cache.

The service. `ControlService` has, per goroutine, the request in progress and the
message at the server: a request is sent at most once, as it was made, with no
other outstanding, and integers go to integer controls. The message of a call in
`Operate` is read from the cache entry it uses, so a shared value overwritten or
of another type breaks the refinement.

### ServerReports

`phase`, `trg`, `locked`, `touched` and `value` are the server and its model; a
value is the number of the section that wrote it, and `past` has the values after
each section. `rcb` is the report control block with its pending changes, `wire`
the reports on their way, `view` the library's `ClientReport` of the
subscription, `got` the reasons its handler was given.

The application's actions are the calls of `iec61850_server.go` and `model.go`:
`SetTriggerOptions`, `NewIedServer`, `Start`, `LockDataModel`,
`UpdateAttributeValue`, `UnlockDataModel`, `Stop`, `Destroy`. The event thread of the
library sends interrogations and integrity reports when it finds the data model
unlocked; unlocking sends what is pending. `Mask` is the choice of
elements that `SubscribeReport` writes, `Written` what the server makes of them.
Steps inside `SubscribeReport` and `UnsubscribeReport` are the subject of
`ReportSubscription`; here each call is one action that succeeds, times out after
the server has applied it, or, for `UnsubscribeReport`, goes unheard. Requests
wait for the data model, and a response comes after the reports sent before it,
which is why those actions want `wire` empty.

Limits: one unbuffered RCB with `BufTm` 0; updates happen in sections, once per
attribute. A second update of an attribute in a section, updates without the lock,
or a buffer time make the library send a pending report earlier, which
may carry a value that is not committed. `ShownIsCommitted` is about data sets
all of whose attributes trigger, or none: with some, the handler sees the others
only at the next full report.

### ClientSession

`timeout` is the library's two timeouts and `asked` the durations the application
gave; `Millis` is the conversion with its division towards zero and its cut to
a C `unsigned int`. `buffer` is the library's copy of the device model, which it
retrieves when first asked and keeps until the client is closed; this is how the
walk in `BrowseModel`, which ignores the error of the innermost request, gets
along without NULL lists (`WalksNoNullList`).

A browse is a recursion over the device model. `browse.todo` has the function
calls, and bodies of loops, that are yet to be executed; an action executes one of
them, which is one question to the library: it lists what the code prints or puts
into the SCL (`browse.result`) and makes further calls. `Deepest` has a call return
after those it makes; the order of calls side by side is that of the library's
lists and left open. Connections are lost and made again between any two
questions. A path is a sequence of names; what is listed below a data object has
the path of kinds (DOI, DAI, SDI) at which the code puts it.

### ReportFlatten

`values` and `reasons` are the library's `ClientReport`, which persists between
reports. `ReportReceived` is any report on any subset of the elements.

A value is a tree, and the code goes through the trees three times by recursion:
`count_mms_elements` counts tokens, `flatten_mms_value` writes them into an array of
the size counted (unless `max_len` is reached), `extractFlatValue` reads them. The
recursion is a stack, `calls`: the calls in progress, each with its value and the
number of elements it has dealt with, below them the loop over the data set. A step
is one value or one end of a structure (`Continued`), in the third pass one token.
`count` is the number counted, `arr` the tokens written, up to `*index`, each with
the three fields of `FlatMmsValue`, uninitialised until written; `pos` is the next
token to read and `open` the Go slices under construction. `phase` says which of the
three the callback is at. An allocation that fails ends it without entries.

`Values` gives the MmsValues by nesting, so that trees are finite. `Converted`, a
recursive function, is the reference that the round trip is compared with; no action
uses it.

### DataSetSchema

`server` holds a version of the value of each FCDA, or an access error. `ValueOf` is
what the server returns for an entry: on DA level the value that the data set gives
it, on DO level a structure of the components, sub data objects included, that the
type of the logical node on the server has for the entry's functional constraint
(`Selected`). Values are MMS values of any shape: leaves of any type, structures and
arrays of any number of elements, nested to any depth. `GetDOType` finds a type its
own way, and `DAs` is the part of it that the code looks at: sub data objects are in a
list of their own. `ReadDataSetValues` and `ApplySchema` may be apart, with the server
changing in between. `Named` is the reference: for every attribute its path and the
value the server sent, a structure of one element standing for that element, which is
what the comments on unwrapping say.

The schema, a slice of leaves in the code, is a
set here: a leaf has the numbers of its entry and of its attribute, and `Before` is
the order of the slice. It matters only where two leaves have one path, and there the
last one counts (`LastLeaf`). A path is the sequence of its parts, which the code joins
with dots; an entry on DA level may have several parts (`instMag.f`), so that paths
of different origin are compared as the joined strings are.
`resolveValueInline` and `digIntoStructureOptimized`
call each other; `Resolved` ties this knot as a recursive function.

The two ways of reading do not agree on everything: `ApplySchema` unwraps a structure
of one element, `ReadDataSetFlat` any structure that has an element. What they do is
`FlatDiffersOnLists`: the same paths, and the same content but where `ApplySchema`
stores a list, for which `ReadDataSetFlat` stores nil or the first of several elements.
The comment at `iec61850_client.go:524` speaks of structures of a single element; of
`instMag{i,f}` or `cVal{mag,ang}` the code takes the first element too.
`NamedValuesCurrent` leaves open how an attribute that is no leaf is found, unless it
is found as a list.

`SclAssumption` gives the constants their shapes and says that the classes of logical
nodes have names of one length, so that prefix and class written one behind the other
tell the class. What is asked of a data set beyond that is no assumption of the model
but a definition each, which the instance satisfies and the theorem names:
`Described` (the attributes that `GetDOType` leads to are what the server returns) and
`Distinct` (no attribute is in the data set twice). An SCL file that describes the
server correctly still breaks `Described` where a class has two types, of which
`GetDOType` takes the first, and where a data object has sub data objects, which
`DAIdx` does not count; the run `SubDataObjects` is of the second kind.

`ExplainDataSetValues` is modelled by what it does to the cache of types. The paths it
lists are left out: they are not those of the schema. Its builder is not reset between
the elements of a structure, so the second is listed under `base.first.second`
(`iec61850_client.go:461`), and `findDAName` counts attributes with FC MX or ST whatever
the FC of the entry (`iec61850_client.go:417`).

## 3. Runs

Passing:

| Run | Shows | Distinct states |
|---|---|---|
| `SubscriptionFree` | unique ids, handlers get own reports; two clients, one reference, no discipline | 550 000 |
| `SubscriptionDisciplined` | held subscriptions deliver and their reports are handled, no callback without handler but in a roll-back, calls return, refinement of `ReportService` with its fairness; one client, two references, both of them candidates that the server has | 73 000 |
| `ControlCalls` | own values, integers to integer controls only, ownership of handles, calls return, refinement of `ControlService`; four references, `Close` at any time | 261 000 |
| `ServerReports` | handlers see committed states, get the interrogation they asked for, and catch up; three kinds of `ReportConfig`, one of which relies on the settings left before, three sections | 310 000 |
| `ClientSession` | a browse is one whole model, walks no NULL list, its SCL has all attributes; timeouts are those asked for; two devices, three models | 52 000 |
| `ReportFlatten` | the size counted is the size written, the round trip, completeness; three data sets of three elements, 15 kinds of values | 37 000 |
| `SchemaReads` | names and values of both ways of reading, and where they differ; three entries, with nested structures of no, one and several elements, an array, an octet string, access errors | 170 000 |

Violated, each a finding that quotes the comment it contradicts:

| Run | Shows |
|---|---|
| `UnsubscribeOther` | unsubscribing on one client removes the handler of another |
| `Int32OnCachedEntry` | a cached entry is operated without the type check |
| `CloseRace` | a waiting control call fills the cache after `Close` has cleared it |
| `GIWithoutTrgOp` | `GI` without `TRG_OPT_GI`, as in the report demo, is no interrogation |
| `SubDataObjects` | attributes after a sub data object are read as other components |

Limits of the code that the models have and no run asks about:

- an element of a data set behind one that was never received has no entry until
  the first report with all elements; `CompleteOnceInterrogated` starts there;
- without reasons in a report every entry is marked `REASON_NOT_INCLUDED`;
- the library keeps the first model it retrieved, also after a reconnect to
  another device, and `Connect` with another host while connected returns nil and
  changes nothing;
- an element of a browsed SCL is repeated further down, since `BrowseSDISCL` lists
  both DAIs and SDIs, and its names do not fit `GetDataSet`;
- a `ReportConfig` without trigger options works with those that an earlier
  subscription has left in the RCB, sufficient or not; `HeldCatchesUp` is about
  settings in force that are sufficient;
- timeouts below a millisecond, negative or too long become what `Millis` computes;
  `TimeoutsHonoured` is about the others;
- subscribing twice to one reference leaves a handler in the registry for good;
- a node is read by the first type of its class, and explained under names that the
  schema does not have (see `DataSetSchema`);
- two RCBs of a connection with one report id share the callback installed first;
- a subscription whose response was lost leaves the RCB enabled, and subscribing
  again on that connection is refused until it is closed.

Bounds. Two goroutines are enough for every pair of calls to interleave, two
clients for one to disturb the other, two references for candidates and
for slots that shift in the list. `MaxHandlerID = 2` bounds the
subscriptions ever made: one to hold and one to disturb it or to come after it, or one
for the attempt whose response was lost and one for the next candidate.
`MaxWire = 1` keeps a report in flight across any other step; the order of
reports of one connection does not matter to the properties.
`SubscriptionDisciplined` has one client, since with two the liveness properties are out
of TLC's reach; the theorems about its safety properties are for any number.
`MaxCtrl` bounds
handles: with 2, two references get one each, or a handle is destroyed and
followed by another. Data sets have two
or three elements, so that there is one before and one behind; values nest up to
four levels, with structures that are empty, last or first in another. `MaxSection = 3` has a section before, during and after a
subscription, `MaxWire = 2` in `ServerReports` lets a change and an interrogation
be on their way together. In `ClientSession` a millisecond has 4 nanoseconds and
an unsigned int 8 values (`NanosPerMilli`, `UintSize`), with durations on both sides
of each limit. Symmetry is over goroutines, and only in runs of safety properties.

Fairness. A goroutine's steps are weakly fair: library requests end, by response
or timeout. The steps that wait for the report handler mutex, and `Lock` of
`controlMu`, are strongly fair: the receive thread releases the mutex between two
messages and waits for the socket without it, and `sync.Mutex` prefers a
goroutine that has waited for a millisecond. The receive thread is weakly fair,
and handlers return. Nothing is assumed of the application's calls, the servers'
reports or the network. The fairness of `ReportService`, that reports are taken and
callbacks end, is implemented by that of the receive thread. In `ServerReports`
the event thread, the integrity timer and the delivery of reports are weakly
fair, which are threads of the library and TCP; nothing is assumed of the two
applications, so the liveness properties let go when the data model is locked or
the subscription ends. `CallsReturn` fails once a handler makes a request of its
own, which the comment on `ReportHandler` forbids.

Deadlock is checked in all runs; a state in which everything is closed and every
call has returned stutters through `Terminated`.

## 4. Proofs

`ReportSubscriptionProofs`, for all values of the constants that satisfy
`ConstantsAssumption`, whatever the application does:

- `SubscriptionTypeOK`. The only work is in the lists: `RemoveAtProperties` and
  `ReinstallProperties` say what removing and appending does to a callback list.
- `SubscriptionInvariant`: `IInv == TypeOK /\ IdInv /\ CallbackInv`. That ids are
  unique is not inductive by itself: a callback is installed with an id drawn two
  steps earlier. `IdInv` adds that all ids were drawn (`DrawnIds`), that no two
  calls hold the same one (`UniqueFrames`), that an id about to be installed is in
  no list (`FreshFrames`), and that an id means the same client and RCB in a call,
  a slot and the registry (`FrameMeaning`, `SlotMeaning`). Steps that only shrink
  registry and lists share `ShrinkIdInv`; drawing and installing have lemmas of
  their own. `CallbackInv` ties a running callback to an installed slot; it rests
  on (un)installing waiting for the callback.
- `SubscriptionIdsUnique` and `SubscriptionOwnReports` follow.

`ReportDisciplineProofs`, for the constants that also satisfy `Disciplined`:

- `DisciplineInvariant`: `DInv == IInv /\ DCalls /\ DSlots /\ DHold`. `GrantedDelivers`
  speaks of subscriptions that are held, but what makes it true was put in place
  by the steps of a call, one after the other, while other calls ran. `DHold` says
  what is in place at each step of a call (`CallEntry`, `CallSlot`, `CallEnabled`,
  `CallUninstalled`), for a subscription that is held (`GrantInv`), and that an
  installed callback has its handler or is being rolled back (`SlotBacked`). A step
  touches only what belongs to its own reference: `DCalls` says that no two calls,
  and no call and held subscription, share one, and `DSlots` that a connection has
  one slot per reference, so that a report selects the slot of its own RCB
  (`SelectsOwn`). `UnsubDelete` needs that one client uses a reference: then the
  entry deleted, whichever of several it is, has no callback any more.
- `DisciplinedGrantedDelivers` and `DisciplinedNoUnhandledReport` follow.
- `DisciplinedImplementsService`: every step is a step of `ReportService` or
  invisible to it (`NextServes`). `GrantInv` and `SelectsOwn` give `Take`, and the
  uniqueness of entries gives `Invoke`.

`ControlCacheProofs`, from `ControlAssumption`:

- `ControlInvariant`: types, mutual exclusion by `controlMu`, and ownership of
  handles, which needs that cached handles were drawn and are distinct. It gives
  `ControlTypeOK`, `ControlHandleOwnership` and `ControlLiveHandle` for any
  application.
- `ControlSendsOwnValue` and `ControlInt32Checked` need `OneKindPerRef`, the
  discipline whose absence the run `Int32OnCachedEntry` is about.
- `ControlImplementsService`, from the same discipline: steps before `SetValue` are
  invisible (`InvisibleStep`), `SetValue` is the sending of the request because
  `controlMu` lets no other goroutine be in `Operate` and the entry has the call's
  own value, and all ways out of a call are its return.

`ServerReportsProofs`, for any number of attributes and of sections, and any
`ReportConfig`s:

- `Invariant`: `IInv == TypeOK /\ HeldEnabled /\ Sections /\ Following /\ Sampling`.
  `ShownIsCommitted` speaks of the client's view only; what will be in it is in the
  reports on their way. `Following` says that these, applied one after the other,
  lead the view through states that the server committed, up to what it has
  reported, and that the pending changes are what is missing from there to the
  latest one (`Chain`, with lemmas for taking a report off its front and putting
  one at its end). It also says that a value that is not
  pending is the one committed last; `Sections` has the case of no open section,
  where nothing is pending.
  `Sampling` is the case of data sets without data change reports, where every
  report has all values.
- `TypeCorrect` and `ShowsCommitted` follow.

`ClientSessionProofs`, for any devices, any models that are trees, and any options:

- `Invariant`: `IInv == TypeOK /\ TagsInv /\ WalkInv /\ DoneInv /\ WalksNoNullList`.
  `BrowseIsOneModel` is about the end of a browse. `WalkInv` says what holds on the
  way: the library holds one model, and every path of it is listed or lies at or
  below a call that is yet to be executed. The lemmas about trees (`ChildAbove`,
  `RootAbove`) carry it over a call: what lies below a path lies at or below one of
  its children. No induction over the depth of a model is needed, as the recursion
  is one of steps. `TagsInv` relates the kind of what is listed to its depth,
  `DoneInv` keeps the result until the next browse.
- `BrowsesOneModel`, `NoNullList` and `SclComplete` follow, and `TypeCorrect`.
- `HonoursTimeouts` rests on `MillisExact`: division and conversion are exact for
  every duration in the range of both, and on the choice of the last option.

`ReportFlattenProofs`, for any data sets, values nested to any depth, and any
sequence of reports:

- `Invariant`: `IInv == Types /\ Resting /\ Counting /\ Flattening /\ Building /\ Built`,
  with one conjunct for each phase. What the three passes have in common is the
  order in which they come by the values. `Trace` says that a function `g` gives the
  calls in progress after each step, and `IInv` that there is one, which the pass in
  progress follows (`TraceExtends`) and the passes after it follow again: `Whole(g)`
  is a trace that has come to the end, and its length is `count`. Then
  everything is a function of `g` and the number of steps: the count is the number
  of steps, and one for the end of each structure that is open (`Counting`); the
  token of a step is `TokenAt` of the calls before it (`Written`); the slices and
  entries in Go are what has been read up to these calls (`ReadOf`, `EntriesTo`).
- The work is in lemmas about one step of the stack (`ContinuedStack`, and
  `PastStack`, `EnteredStack`, `ReturnedStack` for its kinds), in `NotAtEnd`, that
  the second pass is at its end only when it has written as much as was counted,
  and in `ExtractStep`, that a step of the third pass does to the slices what a step
  of the stack does to the calls (`Returning` for values that are complete).
- `ConvertedIs`: `Converted` is defined, and obeys its recursive definition, for
  every value. The library's theorems on recursive functions take operators as
  parameters; the lemma argues by a least counterexample instead (`LeastNat`).
- `CountedIsWritten`, `EntriesAreElements` and `ReportsAreComplete` follow.

`DataSetSchemaProofs`, from `SclAssumption` and `ValuesAssumption`, for any data set, any
templates and values nested to any depth:

- `Invariant`: `IInv == Types /\ CacheInv /\ SchemaInv /\ ValuesInv /\ ReadInv`. What
  `GetDOType` has cached is what it would find (`CacheInv`, which needs that a key
  determines a type: `KeyDetermines`), so a schema built before or after other
  lookups is the same (`SchemaInv`), and values, once read, are those of the server
  as it was (`ValuesInv`).
- `WaysOfReadingDifferOnLists` assumes nothing else. `WholeAlike` compares what the two
  make of one value, `GoUnwrapped` and `CUnwrapped` what they make of it after their
  unwrapping, with a case for structures of no, one and several elements; `LeafAlike`
  adds, for every leaf, also one that the server has no value for, that both ways
  skip it or neither does. Where paths coincide both take the last leaf (`LastLeafIs`,
  from `GreatestNat`).
- `NamedAreCurrent` assumes `Described` and `Distinct`. It is an invariant over
  histories of the application's map: a read overwrites every attribute that it
  had a value for (`NamedRead`), whatever the map held, and other steps leave the map.
- The recursive functions have lemmas of their own: `FilterIsSeq` by induction on the
  length, `ResolvedIs` by induction on how deep values are nested
  (`CallsLocal`: the recursive calls are for values nested less deep).

Only model-checked: all liveness and the fairness part of `ImplementsService` of
`ReportSubscription`, since fairness is out of the prover's reach. Every invariant
that a passing run checks is stated by a theorem. The violated properties have
counterexamples and no theorems.

## 5. Not modelled

- Scalar reads (one library call and an error check each), texts of errors and of
  `ReasonForInclusion`, `Print`, XML unmarshalling, `GetDataSet` (one search), the
  output of the demo program.
- The paths that `ExplainDataSetValues` lists (see `DataSetSchema`).
- The C library beyond its use: its sources are not in the repository.
- Two goroutines that browse one client for the first time: both retrieve the
  model, and the race is inside the library.
- Concurrent use of one `DataSetDetail`: `GetDOType` writes the `DOTypes` map without
  a lock, which Go answers by ending the process. Nothing in the code invites it.
- Buffered report control blocks, buffer times, and updates outside of sections
  (see `ServerReports`).
- The demo's update goroutine, which may still run when the deferred `Stop` and
  `Destroy` free the server.

What could be added: buffered report control blocks with their
queue and purge; the subscription protocol of `ReportSubscription` with several
servers that restart.
