# Verification of the XState inspection bridge

TLA+ models of the bridge between running XState applications (WebSocket side)
and an MCP client (agent side), the TLC configurations that check them, and
theorems about them checked by TLAPS. Source paths are relative to the
repository's root: `src/src/...` is the program, `src/docs/...` its
documentation, `src/tests/...` its tests.

Everything runs in one Node process. There are no threads: one JavaScript turn
(a frame handler, a timer or socket callback, a tool call up to its first
`await`) runs to its end, so **one turn is one action**. What interleaves is the
order of turns: frames of several sockets, send callbacks, timers, close events,
MCP tool calls, host calls, and the halves of `start()` and `shutdown()` between
their awaits.

## 1. The system

```
 XState app --ws--> ws-server --+--> ClientRegistry --owns--> ConnectionHealth
 (adapter)   frames             |        ^    | sessions, pending commands
      ^                         |        |    | (write policy)
      |   xstate-mcp.send       v        |    |
      +------------------- ActorStore <--+    |
                             | RingBuffer     |
                      emit   v                |
                         ActorWaits           |
                             ^                |
 MCP client --stdio--> MCP server / tools ----+
                             ^
                InspectionServer (start, close, shutdown)  <-- CLI or host
```

### Inventory

| Component (source) | State | Operations | Talks to | What must hold |
|---|---|---|---|---|
| Client registry (`client-registry.ts`) | socket -> connection, sessionId -> session object, socket -> sessionIds, requestId -> pending request with its timer, `closed` | registerClient, registerSession, removeClient, sendEvent, handleResponse, settle, clear, close | sockets, store, health, policy | a command is settled once, by its own target; ownership maps agree; a disconnect is local; nothing after close |
| WebSocket receiver (`ws-server.ts`) | the listener, its sockets, the heartbeat | connection, message, close, error, ping/pong listeners; handleMessage | registry, health, store | every frame gets one verdict; only negotiated or legacy peers inspect |
| Connection health (`connection-health.ts`) | a record per socket (negotiation, hello, counters, last rejection, activity), aggregates, listener state | connect, disconnect, negotiate, count, reject, activity, setListener, snapshot | registry, receiver | hello is locked; counters account for frames; responsive peers look fresh |
| Actor store (`actor-store.ts`) | sessionId -> record (generation, snapshot version, event and transition rings) and callbacks | registerActor, updateSnapshot, addEvent, removeActor, clear, subscribe | waits, registry, MCP notifications | change first, notify after; a re-registration is a new record |
| Verification waits (`actor-waits.ts`) | pending waits, a timer and an abort listener each, `closed` | waitForState, waitForEvent, check, finish, dispose | store | no lost wakeup, one ending, slots come back |
| Ring buffer (`types.ts`) | buffer, head, count, totalAdded | push, toArray, getRecent, clear | store, tools, waits | it is the list of the newest entries |
| Bridge lifecycle (`inspection-server.ts`) | state, HTTP and WebSocket servers, transport, two timers, `closed` promise | start, close, shutdown | all of the above, the MCP SDK | shutdown is terminal, bounded and releases everything |
| MCP server (`mcp-server.ts`) | disposed flag, store callbacks, waits | close, connect, 12 tools, resources, prompts | store, registry | disposal with the bridge; a client is told of what it has not read |
| Tools (`tools/*.ts`) | none | reads of the store; clear_actors, send_event | store, registry | a read shows what the store holds, each thing once; a command reaches the one actor it names |
| Policy, redaction, guard (`inspection-policy.ts`) | compiled rules (immutable) | write check, redaction, the adapter guard's serializeInspection and dispatch | registry, store, adapters | default deny; no secret is left and nothing else is lost |
| Event eligibility (`event-eligibility.ts`) | none | analyzeEventEligibility | can_handle_event | never a definite answer from incomplete data |
| Snapshot reading (`actor-snapshot.ts`) | none | projectSnapshot, readSnapshot | store | omitted fields keep their value; the timeline tells one story |
| Command line (`cli.ts`) | stopping flag, exit deadline, exit code | main, stop, streamError, arm exit | bridge | the process ends, and its status tells why |
| Configuration (`config.ts`), formatting, prompts, errors, logger | none | text | tools | - |
| Demo adapter (`examples/frontend/src/demo-inspector.ts`) | current socket, retry timer, negotiation deadline, tracked actors, kept events, the page's label and button (`main.ts`) | inspect, connect, the socket's listeners, handleCommand, pause, resume, dispose | bridge, page | one socket, one timer; registrations before updates; events once and in order; it reconnects |
| Scripts (`scripts/`) | none at run time | build, release | - | - |

### Hard behaviour

`PROJECT.json` lists each hazard at its line. The main groups:

* **Settling once.** An answer, a timer, a send error, a clear, a disconnect
  and a shutdown race for each command; eight causes race to end a wait.
* **Identity.** Public ids are reused after clear and re-registration, local ids
  are equal in two tabs, a reconnect overlaps the old socket. Code compares
  object identity (`===` on sessions, on records) to stay safe.
* **Lost wakeups and lost history.** Waits check, then subscribe, while a ring
  evicts.
* **Shutdown.** `close()` may come at any await of `start()`; a listener, a
  transport or a socket may answer late or never; signals, stream errors and
  blocked output meet the exit deadline of the process.
* **Reconnecting.** The adapter opens a new socket while the old one is still
  closing, against a bridge that is gone, mute or foreign.
* **Accounting.** A dozen early returns in the frame handler, callbacks that
  arrive after the record is gone, saturating counters.

## 2. Modules

| Module | Models | Kind |
|---|---|---|
| `ClientRegistry` | `client-registry.ts`, with the parts of `ws-server.ts` and `connection-health.ts` that decide ownership | state machine |
| `CommandContract` | what callers of `send_event` and `docs/application-sessions.md` rely on | abstract specification |
| `ClientRegistryContract` | the refinement mapping | composition |
| `ClientRegistryProofs` | theorems | proofs |
| `ActorWaits` | `actor-waits.ts` over `actor-store.ts` | state machine |
| `ActorWaitsProofs` | theorems | proofs |
| `RingBuffer`, `RecentHistory` | class `RingBuffer` of `types.ts`, its promise | state machine, abstraction |
| `ActorHistory` | `actor-snapshot.ts`, the store's `transitionHistory`, `get_state_timeline` and the notifications of `mcp-server.ts`, over `RingBuffer` | state machine, composition |
| `ActorHistoryProofs` | theorems about a ring and about the history over it | proofs |
| `ConnectionHealth` | `connection-health.ts` and `handleMessage` of `ws-server.ts` | state machine |
| `ConnectionHealthProofs` | theorems | proofs |
| `InspectionServer` | `inspection-server.ts` and the MCP server's close/connect wrappers | state machine |
| `CommandLine` | `cli.ts` around `InspectionServer` | composition |
| `InspectionServerProofs` | theorems about both | proofs |
| `InspectionPolicy` | `inspection-policy.ts`: redactor, write policy, guard | algorithms |
| `ActorReads` | the tools, resources and completions that read the store, `send_event` and an inspection envelope through both policies, over `InspectionPolicy` | algorithms over enumerated inputs |
| `ActorReadsProofs` | theorems about both | proofs |
| `DemoInspector`, `DemoInspectorProofs` | `demo-inspector.ts` and the connection button of `main.ts`; theorems | state machine, proofs |
| `EventEligibility` | `event-eligibility.ts` and the `can_handle_event` tool | algorithm over enumerated inputs |
| `StateChart` | what a running XState actor does with an event (external) | reference definition |
| `EventEligibilityProofs` | theorems | proofs |
| `MC*` | TLC instances: symmetry sets and named constant values | |

A definition whose comment says "Variant of X" is a plausible wrong version of the operator X below it, with the same parameters.
Substituting it for X must break the property named with it in `PROJECT.json`
("mutants"); nothing else refers to it. This is how each property is shown to
say something about the code.

### How state and actions correspond to the code

**ClientRegistry.** `sessions`, `clientToSessions`, `pending`, `closed` are the
fields of the class. A session is a record with an `object` number standing for
its JavaScript identity: clear and re-register gives the same `id` and another
`object`, which is what the `!==` in `handleResponse` sees. `timers` is the set
of armed `setTimeout`s, `sending` the sends whose callback has not run, `outcome`
the promise of each `sendEvent` call. `hello` and `negotiation` are the two
fields of the health record that `writeBlock` and `canInspect` read. `actors` is
the store reduced to the owner of each record. `SendEvent` is the accepted path
of `sendEvent` up to its return, `RefuseEvent` all its early returns,
`HandleResponse` an accepted acknowledgement (all others only move counters and
are verdicts of `ConnectionHealth`), `RemoveClient` the close event,
`ClearStore` the `clear_actors` tool *and* the `onCleared` callback that runs in
the same turn, `Shutdown` the synchronous part of the bridge's shutdown.
`BeginClose` is the `ws` library: `readyState` leaves OPEN some turns before the
close event, and buffered frames are still delivered in between.

**ActorWaits.** A store operation and the reaction of every wait are one action,
because `emit` is synchronous. A record's `generation` is its identity; `log`
keeps every event ever pushed, of which the code retains the last `BufferSize`
(`Retained`); `RingBuffer` shows that its ring holds exactly those. `Verdict` is
`evaluate()`, `CheckAll` is `onChange` on the same record with `check()` for
each wait, including the rule that an overdue wait ends as a timeout even if
this very change matches. `CallWait` follows `wait()` through its early returns
in their order; `RefuseCall` has the four that precede a known actor. Any
cursor of any generation that ever existed may be passed in.

**RingBuffer.** Field by field; `Array` is `toArray()`, `Evicted` is the `total - size` that waits compute.

**ConnectionHealth.** A frame is what `handleMessage` tells apart; `Verdict`
goes through its tests in their order and yields the rejection code,
`accepted`, `ignored` or `quiet` (handled, counted as received only: valid
hellos, expected acknowledgements, repeated registrations). `Handle` is the
whole message listener. `departed` is a history variable beside the code's
counters: `Disconnect` adds to it what the record held, and `TransportError` on a
socket whose record is gone adds one; no aggregate is computed from it. Time is ticks since an event (`idle`, `sinceBeat`), so
clocks need no bound; wall-clock stamps, labels and ages are left out.

**InspectionServer.** What runs between two awaits is one action. `Shutdown` is
`shutdown()` up to its `await`, `Finish` its `finally` block, `ShutdownCompletes`,
`ShutdownFails` and `DeadlineFires` the three ways the race ends. `startup` says
where `start()` stands; `aborted` is the signal, and `Cancelled` the rejection of
the await it interrupts; the code after an await looks at the signal itself
(`ConnectMcp`, `StartEnds`). `attached` is the SDK's hold on the transport,
`released` that somebody has called `transport.close()`. The store is the set of
connections whose actors it retains.

**CommandLine.** `main` says where `main()` stands; `MainStarts`, `MainRuns` and
`MainEnds` are its two awaits and its `catch`/`finally`, `Stop` is `stop()` and
`streamError()`. `host` chooses between this process and an embedder that calls
the bridge's interface at any time, so one run covers both and the bridge's own
actions are shared. `BridgeSteps` is any step of `InspectionServer`; `cause`
records, beside it, the error that `start()` was left with, which the code
carries in the rejection it awaits. `Exits` is Node's end of an empty event loop,
`ExitDeadlineFires` the unreferenced 1500 ms timer.

**ActorHistory.** One actor: `readSnapshot` is the function of that name over
snapshots that carry any subset of the fields, `Transition` what
`updateSnapshot` puts into the ring, `getStateTimeline` the tool. `notices` are
notifications under way to an MCP client, which reads again what a notification
is about; `listRead` and `snapshotRead` say that it has read what is stored now.

**InspectionPolicy, ActorReads.** A JavaScript value is a tree of records, lists,
text and the odd kinds the redactor looks for; `visit` is `visit()` with its
budget threaded through, `Unfit` its refusals, `Parsed` its reading of a
definition's JSON text. The rules (keys and paths) are a parameter, since the
adapter's guard and the bridge's store are configured each by itself; the root is
tested under the empty key (`LastKey`), as the code does. `createWritePolicy` and `dispatch` follow their early
returns. Nothing of this changes state: `Init` chooses a question (a command, a
tree, a page of connections, an envelope) with the store or policies it is put
to, and `Answer` answers it as the code does: `sendEvent` through name
resolution and the policies of bridge and adapter, `getActorTree` with its
`visited` set, `healthSnapshot` with filter, offset and limit. `inspect` takes an
envelope through the adapter's guard with the guard's rules, or as it is when the
adapter has none (`sent`), and its snapshot, if that is a record (the bridge takes
no other), through the store with the store's rules.

**DemoInspector.** The variables are those of `createDemoInspector`; `label` is
the last state given to `onConnection`. A socket is an object with its own
`readyState`, and its listeners (`OnOpen`, `OnMessage`, `OnClose`) run for it
whether it is current or not; `Construct` is `connect()` past its guard, with a
constructor that may throw. A socket's name stands for its epoch too. `known` is
what the bridge has been told on that socket and `stray` that it has got an
update of an actor it did not know. The bridge comes and goes, accepts without
answering, or answers what the adapter refuses.

**EventEligibility.** `Init` chooses a machine, a configuration its actor may be
in, and what the adapter reported of both: compiled or raw, whole or with one
piece of the definition or of the state value missing (`Damaged`,
`PartialValues`). `Visit` is `visit()` as a recursive function, `Fault` its
early returns in their order, `Decide` its end, `Local` is `local()`: since the
loop over candidates returns at the first one, the first candidate of the longest
descriptor that has any decides. `StateChart` defines the running actor without
recursion over results: a state takes its own transition unless an active state
inside it takes one.

## 3. What is checked

### Runs that pass

| Run | Shows | Bounds and why they suffice |
|---|---|---|
| `registry_tabs` | Ownership of sessions, routes and records; commands bound to their target, timer and writer; each settled once; disconnects stay local; nothing after close | Two sockets with one equal local id each are two tabs or a tab and its reconnect; three session objects allow a clear and re-registration while the other tab stays; two commands allow one to be settled under another. Applications may send two different hellos, one of which can send commands. |
| `registry_live` | The registry implements `CommandContract` with its fairness: every accepted command is answered, given that closing sockets are reaped | Two sockets, two commands, one hello, and a host that also clears the registry without the store; no symmetry. |
| `waits_events` | Event waits hold what they rest on and never miss a match, return the first one of the whole history or say that some was lost, lose no history while pending, return cursors that stay usable, and end | A ring of two and four events per registration overflow it twice; two generations let a cursor name a dead registration. |
| `waits_states` | State waits match only newer, current snapshots; slots, timers and abort listeners come back; a call is answered once | Two calls for one slot; snapshots that move back and forth, so that the same value is seen at two versions. |
| `history` | An actor's timeline chains from its registration to its current state, the ring below it is the list of the newest entries, and a client has read what is stored or is being told | A ring of two and four transitions: it is overwritten twice. Snapshots that set, clear or leave out each field, alone and together; removal and re-registration; a client that connects, lags and is disposed. |
| `health_frames` | Each frame has one verdict and is counted once, each rejection is visible; refused hellos stop inspection | Every frame kind, two different hellos (identical, changed, refused), counters that saturate at 3. |
| `health_sockets` | Each aggregate is at all times the sum of what present connections count, what departed ones had counted and the errors reported after they went, and no record comes back; a peer that answers pings never looks stale | Two sockets, errors before and after their records go; ticks in the ratio 15 s : 45 s (1 : 3), so that a beat falls on every tick and the limit two beats after a missed one; one responsive and one silent peer; counters that saturate at 2, which an aggregate, a record and the history reach in every order. |
| `server` | The state a bridge reports is true; shutdown is terminal, ends although others hang, answers a pending `start()` and releases everything, the port included; the process ends, with the status its cause deserves | Two connections; every external answer early, late, failing or never; an embedder that calls at any time, and the command line with signals, stream errors and blocked output at any time. |
| `eligibility` | A definite answer of `can_handle_event` names exactly the transitions the running actor selects, for every outcome of its guards and both XState releases; a complete report gets `null` only for a guard or a list the releases treat differently | Every handler table of one state over an exact, a partial and a global descriptor with up to two transitions each; trees of three levels with nested, parallel and history states. Depth and visit limits of 2 and 4, so that trees within and beyond each occur. |
| `reads` | Nothing the guard's rules call secret is sent or kept and nothing the store's call secret is kept, and what fits loses nothing else at either end; a command reaches the one actor it names, by one rule of each policy; a tree shows each chain of parents once; following `nextOffset` shows every connection once | Five actors with every choice of parents (missing, cyclic); names equal to another's name or id, up to two rules on either side; pages of up to five connections; payloads nested past a budget of seven values and a depth of three; at each end the same rules, more rules, or a key of separators alone, which hides the whole, and adapters without a guard. |
| `demo` | The adapter's sockets, timers and page agree; registrations before updates; events once, in order, and the newest are kept; inspection resumes when a bridge stays up | A socket and its successor (a third would meet the same two roles), two actors, a queue of two for three events, so that one is dropped; one message under way per socket. |

Most properties are conjunctions of named parts, one per fact, so that a reader
can see (and TLC can be asked) which part fails: `Ownership` of `SessionsOwned`,
`IndexAgrees`, `ActorsOwned`; `CommandsBound` of `PendingRouted`,
`OneTimerPerWaiter`, `WriterNegotiated`, `AnsweredByTarget`; `PendingWaits` of
`SlotsMatch`, `WaitsOnStoredRecord`, `NoMissedMatch`; `FramesAccounted` of
`ReceivedBalance`, `RejectionVisible`; `StateIsTrue` of `RunningIsUp`,
`ClosingStopsWork`; `ClosedReleasesAll` of `NothingHeld`, `TransportNotLeaked`,
`ResolvedMeansStopped`; `ConnectionKept` of `Pursued`, `OneSocket`,
`PageTellsTruth`. `TypeOK`, the type invariant of each module, is a part of one
of them.

Session objects, generations, versions, events and pushes are numbered, so they
are bounded by the constants `MaxSessions`, `MaxGenerations`, `MaxVersions`,
`MaxEvents`, `MaxAdded`; each bound is a guard of the action that mints them.
`MaxInbox` bounds messages under way to the adapter. `COUNTER_MAX`, `Budget`,
`MaxDepth`, `RecentLimit` and the two limits of the eligibility analysis are the
code's own limits made small. Symmetry is used in safety runs only.

### A run that finds a disagreement

`server_idle`: `docs/server-lifecycle.md:100-102` says that `closed` settles
"after the exposed MCP server closes". The bridge listens to the SDK's
`onclose`, which the SDK raises when a transport it *holds* closes. A host that
closes the MCP server of a bridge it never started gets no `onclose`; the bridge
stays `idle` and `closed` stays pending (until the host calls `close()`).
`start()` after that fails and closes the bridge, so nothing leaks once it is
called.

### Fairness

* `ClientRegistry`: the timer of each command and the close event of each socket
  that began to close. The event loop runs expired timers, and the `ws` library
  destroys a socket whose close handshake does not finish. That closing sockets
  are reaped is thus an assumption, also where `CommandContract` states it; the
  result is that every accepted command is answered. Nothing is assumed of
  applications, send callbacks or hosts.
* `ActorWaits`: time passes and expired timers run. Nothing is assumed of the
  store's writers or of callers.
* `InspectionServer`, `CommandLine`: continuations of answered promises, expired
  timers (the exit deadline among them), and close events of destroyed sockets
  and drained servers, all while the process lives; and that `main()` goes on.
  Nothing is assumed of peers, of the transport, of the listener's answer, of an
  embedder, or of the process ending by itself: output that nobody reads may hold
  it for ever, and only the deadline ends it then.
* `DemoInspector`: expired timers, and the browser opening, failing and closing
  sockets. Strong fairness for a hello that arrives at a bridge and for messages
  that arrive at the current open socket: a negotiation may lose the race against
  its deadline, but not every time. `Reconnects` asks for a bridge that stays up
  and a page that goes on wanting the connection.

But for those two, all of it is weak fairness of single actions, each of which
stays enabled until it is taken.

## 4. What is proved

For every value of the constants, under the named assumptions of the modules
(sentinels lie outside the sets they extend, subsets are subsets, bounds are
naturals, the capacity is positive).

`ClientRegistryProofs`:

* `TypeCorrect`: `TypeOK`, inductive by itself.
* `OwnershipHolds`: `Ownership`. Its parts are not inductive alone: a session's
  owner is a live connection only because ids are never minted twice and no two
  sockets share one. `OwnershipInv` adds those facts. Its part on stored actors
  is conditional on a host that does not clear the registry alone (section 6).
* `RequestsHold`: `CommandsBound`, from `RequestInv`, which adds how `sent`,
  `pending` and `outcome` agree and that a pending request's peer is connected.
  It rests on the ownership invariant: `RemoveClient` drops exactly the sessions
  of its socket, so the requests it settles are exactly those that would dangle.
* `PromisesSettleOnce`, `HandshakeStaysLocked`, `ConnectionIdsStayDead`,
  `DisconnectsStayLocal`: action properties from those invariants.
* `ClosedStaysEmpty`: `ClosedIsEmpty`.
* `RegistryKeepsContract`: every step of the registry is a step of
  `CommandContract` or a stutter under the mapping of `ClientRegistryContract`
  (safety part).

`ActorWaitsProofs`, for any waits, actors, predicates and ring size:

* `PendingWaitsHold`: `PendingWaits`. The invariant `WaitsInv` adds that logs are
  within their bound and that a pending event wait's baseline is the end of its
  record's log (`BaselinesCurrent`). That is why a change need only be looked at
  from there, and why an eviction cannot hide a match: `CheckAll` runs in the
  same turn as the push that evicts.
* `AnsweredOnce`, `FirstMatchFound`, `NewerSnapshotFound`, `NoHistoryLost`: action
  properties of `CallWait`, `CheckAll` and the endings, from `WaitsInv` and the
  lemmas on `Verdict` (what a search that stops at the first match returns).
* `CursorsUsable`: `CursorsStayUsable`, from `CursorInv`, which adds that
  generations are minted once (`Minted`) and that records only grow.

`ConnectionHealthProofs`, for any sockets and hellos:

* `FramesAreAccounted`: `FramesAccounted`, from `AccountInv`: the balance of
  counters holds on every socket, connected or not, below saturation.
* `RefusedStaysOut`: `RefusedCannotInspect`.
* `AggregatesCoverHolds`: `AggregatesCover`. A sum over a set of sockets is shown
  to be the cardinality of a set of units, one per counted thing (`SumIsUnits`).
  `CoverInv` says that an aggregate shows the number of units and what has
  departed, up to the limit, and that the record of a socket that is not connected
  is empty. A count adds one unit (`CountedUnit`) unless the record stands at the
  limit, and then the aggregate does as well; a late error adds one to what has
  departed (`CoverLate`); a disconnect moves the socket's units there (`CoverGone`).
* `AggregatesNeverFall`: no step lowers an aggregate (proved only; no run states it).
* `ResponsiveFresh`: `ResponsiveStaysFresh`, from `FreshInv`: a responsive peer's
  silence is at most the time since the last heartbeat, plus one interval while
  its pong is under way. It rests on `StaleAfter > 2 * HeartbeatInterval`, an
  assumption of the proof that the code's constants (45 s, 15 s) satisfy.

`InspectionServerProofs`, for any connections, from `ProcessSpec`:

* `StateStaysTrue`, `ClosedHoldsNothing`: `StateIsTrue` and `ClosedReleasesAll`,
  from `BridgeInv`, which adds what `startup` says of the transport and of the
  listener at each await (`Phases`, `StartupHolds`, `TransportHeld`,
  `ListenerHolds`). Each step of the process is a step of the bridge or leaves it
  alone, so the invariant of the bridge is one of the process.
* `NeverRestarts`: `NoRestart`.
* `ExitStatusTells`: `ExitStatus`, from `ExitInv`, which adds how `cause`, `main`
  and the exit code follow the bridge's startup until the process ends.

`DemoInspectorProofs`, for any sockets, actors and limits:

* `ConnectionStays`: `ConnectionKept`, from `LinkInv`, which adds that the current
  socket is there until its close event, that an open one has its own epoch and
  that a negotiated one has been open (`SocketHolds`).
* `UpdatesAreUnderstood`: `UpdatesUnderstood`, and `EventsStay`: `EventsKept`, from
  `DataInv`: a connection that may send knows every tracked actor and nothing
  waits then; the kept events are the newest ones; and what was delivered is
  older than what is kept, with nothing missing in between that is young enough.

`ActorHistoryProofs`, for a ring of any items and capacity:

* `TypeCorrect`, `EvictedCorrect`, and `RingKeepsHistory`, the refinement of
  `RecentHistory`. The invariant `RingInv` ties `head` to `count` while the ring
  fills (`head = count % capacity`) and `totalAdded` to `count` before the first
  eviction; `%` is used through the two facts of lemma `Wrap`.

and for an actor with any fields, snapshots and capacity:

* `HistoryIsARing`: every step is a step of `RingBuffer` or leaves it alone, so
  that `TimelineIsHistory` and `TimelineEvictedCounts` follow from the ring's
  theorems.
* `TimelineChainsCorrect`: `TimelineChains`, from `HistoryInv`: the entries
  tell one `Story`, pairwise, that ends where the actor is and, before the first
  eviction, begins at its registration. What a push does to the array (append,
  or append and drop the first) comes from `RingInv`.
* `ClientIsToldCorrect`: `ClientIsTold`, which is inductive: a change that a client could
  read is one that `Notifies` sends.

They assume that a status is a string and the ring takes what `updateSnapshot`
makes (`SnapshotAssumption`, `ItemAssumption`).

`ActorReadsProofs`, for any store, policies, pages and envelopes. Each question is
answered in one step (lemma `AnswersOnly`), so the theorems are about the operators.
The recursive definitions among them are first shown to have solutions (lemma
`Inductive`, and the lemmas named after each definition), and what they return
follows by induction over a set of naturals: positions of a list, levels of a
value, the remaining budget.

* `EventReachesItsActorHolds`: `EventReachesItsActor`, from what `filter` keeps
  (`Filtered`) and what the two policies permit.
* `PagesCoverHolds`: `PagesCover`: the pages from an offset join to what is left
  of the matching connections (`Joined`), since a page that names a next offset
  is not empty.
* `SecretsStayHolds`: `SecretsStay`, for any two sets of rules. A visit only looks
  at values one level further down with no more budget (`SameVisit`), so `Visits`
  has a solution (`Visited`); what any visit returns is `Clean` under its rules
  (`VisitIsClean`), whatever the budget and depth. That gives the wire under the
  guard's rules and the store under its own. That the store keeps nothing the
  *guard* calls secret is `MarksStay`: every value the store reaches is one the
  guard returned at the same path (`WrappedHasValues`), and a mark stays a mark
  whatever the rules. A rule that hides the root hides everything (`RootHidden`).
* `OnlySecretsLostHolds`: `OnlySecretsLost`, for the guard's pass over an envelope
  and for the store's pass over whatever snapshot it is sent. A visit spends at most
  one unit of the budget for each path below its value (`VisitAffords`): the parts of
  a container have the paths below it among them, no two the same (`Shares`, which
  needs that no key comes twice). So a budget for every path lets each visit show its
  value's mark (`FullIs`, `PassShows`, `FitShows`). The store passes over the
  snapshot under its name; what it shows below that is what it keeps (`PartShows`,
  `StoreShows`).
* `TreeShowsEveryChainHolds`: `TreeShowsEveryChain`. `buildNode` filters an actor's
  children by what was visited before the first of them is built; `ListFresh` shows
  that this filters nothing out. Whatever a call adds to what was visited hangs
  from its actor (`Under`), so a list of roots, or of the children of one visited
  actor, meets no child of a later member in what the earlier ones have added
  (`Ready`). Hence a node has each child of its actor once (`NodeShowsChildren`), no
  id is placed twice (`PlacedOnce`), and a node on the n-th level is built with at
  least n ids visited, so the tree has no more levels than the store has actors. The
  ids shown are then the least set that holds the roots and is closed under
  children (`Forest`).

They assume what the store and the callers ensure: ids are unique and not empty
(`IsStore`), an id names its connection and a parent is looked up in the child's
(`ReadAssumption`, from `scope` in `ws-server.ts`), `limit` is positive,
an envelope is no accessor, a container's keys are known to `normalizeKey` and none
comes twice, and no secret path is empty, which `inspection-policy.ts:121` refuses
(`IsRules`; `KindAssumption`, `SendAssumption`, `PageAssumption`, `EnvelopeAssumption`,
`PolicyAssumption`).

`EventEligibilityProofs`, for any machines (`IsMachine`: a finite tree whose states
have the children their kinds allow), events and limits:

* `DefiniteIsRightHolds`: `DefiniteIsRight`. The analysis goes up a tree with one
  result per state; the running actor takes the innermost transitions. Both are
  cut along the tree: what a part of it selects is what its children's parts
  select, or the state's own choice if nothing below chooses (`SelSplit`). By
  induction up the states that `visit()` comes to (`UpTheVisit`), a definite result
  of a state names exactly the selection of its part (`DecideRight`). At a single
  state the first candidate of the longest descriptor decides for both
  (`LocalIsRight`): two descriptors that cover an event by a wildcard are not of
  one length (`LongerDescriptor`), and descriptors match alike (`MatchesDescribes`).
  That a missing piece is noticed is `FaithfulVisit`: a state without a fault is
  active, its keys are exactly its active children, and its handlers are reported,
  but for the first transition of a list, which may be unreadable (`Reports`). It
  is shown for each kind of damage (`KeptReports`, `PrunedValueShape`,
  `MalformedValueShape`).
* `UnknownIsJustifiedHolds`: `UnknownIsJustified`. A whole report of a machine within
  the limits has no fault (`WholeReportIsFull`); the first unknown result then
  comes from one state's guard, which the actor reaches since nothing below
  chooses, or from an empty list (`LocalIsJustified`, `DecideJustified`).

They assume that the marks for what a report lacks differ from what it may hold
(`SentinelAssumption`, `ReportAssumption`).

Only model-checked: liveness (`WaitsEnd`, `ShutdownEnds`, `ProcessEnds`,
`Reconnects` and the liveness half of `ImplementsContract`), since `ENABLED` and
fairness are outside the prover's reach. Every other property of a passing run is
proved.

## 5. Plan

Done: `ClientRegistry` with its contract and proofs; `ActorWaits` with its
proofs; `RingBuffer` with its promise, and `ActorHistory` over it, with their
proofs; `InspectionServer` and `CommandLine` around it, with their proofs;
`ConnectionHealth` with its proofs; `DemoInspector` with its proofs;
`InspectionPolicy` and `ActorReads` with their proofs;
`EventEligibility` with its proofs.

Left, in order:

1. Origin matching and `normalizeEvent` (`ws-server.ts`) against
   reference definitions.
2. The listener record over an HTTP server of the host's own, which only tests
   pass in today (`createWsServer` is not exported).
3. `DemoInspector` composed with `ClientRegistry`: its frames as the registry's
   inputs, so that reconnects meet the ownership maps.

## 6. Not modelled, and observations

* Formatting, prompts, logging, exports, configuration parsing: text or pure
  reads. `get_actor_state`, `get_event_history` and `get_machine_definition` lay
  out one record. Scripts: outside the running system. Everything else missing is
  in section 5.
* The MCP SDK, `ws`, Node's HTTP server and transports are external: they answer
  in any order, late or never. Transports may reject but are not modelled to
  throw synchronously; one that did, unused, would end `shutdown()` before the
  registry is closed (`inspection-server.ts:124-128`). Host callbacks on the
  store are not modelled to throw; `updateSnapshot` calls them before it wakes
  waits and catches nothing (`actor-store.ts:254-255`), and what they throw leaves
  through the socket's message handler.
* A host that calls `clientRegistry.clear()` without `store.clear()` leaves the
  store's records without sessions; a later disconnect cannot remove them. The
  documentation calls that call a reset, so `ActorsOwned` is claimed without it.
* An overdue wait ended by a matching change returns a cursor that lies past the
  match: a caller that resumes from a timeout's cursor does not see that event.
* When the definition and the state value have *both* lost the same region of a
  parallel state (or a raw parallel state its `type` and a region), the evidence
  looks complete and a definite answer may be wrong. The model lets one of the
  two be damaged, never both.
* An adapter that drops a guard, a handler or a raw `on` leaves no trace;
  `docs/event-eligibility.md` says so, and `Damaged` leaves those out.
* `matches()` refuses a descriptor with a `*` before its trailing one
  (`event-eligibility.ts:39-46`), and XState stops at a segment `*` that is not the
  last: neither lets it match. A `*` inside a longer segment (`a*.*`), which
  XState compares literally and `matches()` refuses, is left out.
* A root configuration with no `type`, `states` or `on` at all is called
  incomplete although it is complete (`event-eligibility.ts:144-149`):
  `UnknownIsJustified` excludes it.
* `bufferSize` is validated by the CLI's configuration only. The model assumes a
  positive capacity.
* The store's waits and the registry are separate modules: the only operations
  they share, removal and clear, are actions of both.
* `addEvent` moves an actor's cursor and `updatedAt` without a notification, and
  `xstate://actors` has no notice of changed contents, only of the list. What
  `ClientIsTold` promises is the list and the state of an actor.
* Actors that name each other as parents, and what hangs from them, drop out of
  the tree, while `totalActors` counts them; `TreeShowsEveryChain` says exactly
  which.
* An additional rule of the bridge removes more than the adapter's guard did: the
  store keeps of what was sent what its own rules leave, no less (`OnlySecretsLost`)
  and no more (`SecretsStay`). Its pass has a budget of its own and counts marks
  against it where the guard's skipped accessors, so a snapshot that the guard could
  finish may not fit the store's; `Fits` is asked of each pass by itself. Definition
  text under any other key than `definition` stays text.
* A configured key of nothing but `-` and `_` passes validation
  (`inspection-policy.ts:115`) and normalizes to the empty key, under which the root
  is tested (line 136): such a guard sends nothing, and such a store keeps only
  marks. The run has such a key at either end.
* Envelopes of adapters without a guard are taken to be ones the bridge accepts.
  `projectSnapshot`, which picks the fields of a snapshot (and of a native Error
  that a host hands over) before the store redacts it, is left out, and the record
  of marks that `redactSnapshot` puts for a snapshot that is not shown is a mark.
* `PagesCover` follows `nextOffset` through a list that stays as it is. The
  documentation calls pages live samples: a connection that comes or goes between
  two calls shifts the offsets, and no page says so.
* A `stop()` that arrives after the transport has closed itself during startup
  turns the failure into an expected one. A forced exit may cut off the answer of
  a `start()` that is about to come.
* In `DemoInspector` the delay of a retry and the answers to commands are left
  out, and `serializeInspection` is taken never to return null for the demo's own
  frames, which are plain data within the budget.
