# TLA+ verification of the VAST node

This directory holds the formal model of the VAST **node actor**
(`src/libvast/src/system/node.cpp`). The node is the process-wide supervisor.
It spawns components, tracks them in a registry, reaps them when they crash,
aggregates their status and tears them down in a fixed order. The project has:

- TLA+ modules that model the node's handlers;
- TLC configurations that check them on small instances;
- TLAPS proofs that hold for every value of the constants.

## 1. Inventory of the source

| Part | Source | Modelled |
|---|---|---|
| Component registry (label -> actor, type) | not under `src/`, spec §4.1 | yes, `Node` (spec-modelled) |
| Spawn pipeline: `spawn_command`, `spawn_component`, `generate_label`, `is_singleton` | node.cpp 81-89, 173-183, 303-360 | yes, `Node` |
| Factory tables: `make_component_factory`, `make_command_factory` | node.cpp 212-301 | built-in tables only |
| `put` handler (register an externally made component) | node.cpp 436-450 | yes |
| `kill_command` | node.cpp 185-210 | yes |
| DOWN handler (crash reaping) | node.cpp 385-390 | yes |
| Status aggregation: `collect_component_status`, `status_command` | node.cpp 112-163 | yes |
| EXIT handler and `shutdown<policy::sequential>` | node.cpp 391-426; `terminate` from spec §4.6 | yes |
| `send_command` (blocking request to a component) | node.cpp 92-110 | `send_command`, `send_answer`, `send_error` |
| get-by-type/label handlers, `signal` | node.cpp 451-467 | no: read-only or logging |
| File-system actor interface | `vast/system/file_system.hpp` | FS appears as one actor that exits last |
| Type representation: constructors, `table`, `type_index`, `name`, `operator==`, `operator<=>`, legacy conversion | `type.cpp` | yes, `TypeEncoding`, `ByteOrder`, `ByteCompare`, `TypeCompare`, `LegacyConversion` (abstract byte layout) |
| Table-slice projection | `project.hpp` | no (planned) |
| Legacy configuration options | `configuration.cc` | no: declarations only |
| `fwd.hpp`, `query_client.h`, fuzz harness, test fixture | — | no: no state |

### How the parts interact

All node handlers run on one CAF actor, so each handler is one atomic step.
The components are separate actors:

- they may crash at any time;
- their status replies, errors and timeouts come back in any order;
- the node monitors them, so a component's exit queues a DOWN message that the
  node handles later.

The file system is linked to the node, not monitored. The node's EXIT (from a
signal or a linked crash) starts the sequential teardown. During the teardown
the node keeps handling its other messages.

### What makes it hard

- Interleavings of handler steps with component crashes.
- DOWNs that are delayed, or that arrive after a demonitor.
- Out-of-order and timed-out status replies that share one pending counter.
- Label numbering derived from the current count.
- An assertion that is compiled out in release builds (`VAST_ASSERT`).
- A shutdown that keeps accepting spawns.

## 2. The module `Node`

### Constants

| Constant | Meaning |
|---|---|
| `Actors` | the component handles a run can create (model values) |
| `FS` | the file-system actor |
| `Commands` | the spawn commands offered (a subset of `SpawnCommandTable`) |
| `HavePcap` | `VAST_HAVE_PCAP` |
| `PutTypes` | the types an external `put` can announce |
| `ExplicitLabels` | the values `--spawn.label` can take |
| `NoLabel` | the absent option |
| `StatusIds` | the concurrent status invocations |
| `IssueSend` | whether callers issue `send <label> <atom>` |

`NodeAssumption` states what the proofs need of the constants.

### State

| Variable | Code |
|---|---|
| `reg` | `self->state.registry`, as a function label -> `[actor, type]`. A label is `<<name, n>>`: n = 0 is the bare name, otherwise `name-n`. |
| `alive`, `created` | the actor system; `created` makes each handle fresh |
| `owned` | the handles the node delivered to a client |
| `monitored` | `self->monitor` / `self->demonitor` |
| `downs` | queued `down_msg`s |
| `exitReq` | the exit messages sent |
| `sPhase`, `snap`, `outstanding`, `pending`, `result`, `delivered` | per status invocation: the registry snapshot, the unanswered requests, the `req_state->pending` counter, the `content` record, deliveries of the promise |
| `phase`, `tdTodo`, `tdStarted` | running / draining / terminated; the teardown list (`[actor, rank]`) and the entries already sent an exit |
| `sending` | `{dst}` while `send_command`'s `function_view` blocks the node on `dst`, else `{}` |

### Actions

Each action is one whole handler:

- `spawn_command(c, lbl)`:
  - the explicit-label check;
  - the singleton label or `generate_label`;
  - the factory lookup (no pcap source without `HavePcap`);
  - construction;
  - monitor;
  - `registry.add`. In release builds `VAST_ASSERT` is a no-op, so a failed add still delivers the handle.
- `put(t)`: the singleton check on the bare type label, then add under `generate_label(t)` and monitor. The handle comes from the caller; the model takes it to be fresh (`PutHandles`), although the handler never checks whether it is already registered.
- `kill_command(l)`: demonitor and send exit. The entry is left in the registry, as the code does.
- `down_handler(a)`: remove every entry of `a`.
- `status_command(s)`: take the snapshot and set `pending` to its size.
- `status_reply(s, l, r)`: one reply (`ok`) or error/timeout (`err`) of one request. It emplaces the result, decrements `pending` and delivers at zero.
- `exit_handler`:
  - demonitor the registered components;
  - build the ordered teardown list: categories of `ShutdownSequence`, then the leftovers, then FS;
  - remove the listed types from the registry.
- `shutdown_next`: send the next exit once all started entries are dead.
- `shutdown_done`: the node quits once the list is empty and all started entries are dead.
- `send_command(l)`: look up the label and call the component through a
  `function_view`. The node's thread is blocked (`NodeIdle` is false) until
  `send_answer` (the live destination answers) or `send_error` (it has exited).
  Every node handler is guarded by `NodeIdle`; an unknown label only replies.
- `ActorExit(a)`: any actor exits or crashes. A DOWN is queued if it is monitored.

The node keeps serving spawn and put while draining: the code does not stop
them, and the drain_leak run shows what that does.

The operators defined just before their targets (`down_handler_monitored_only`, `status_command_off_by_one`, `status_command_reused`, `status_reply_early`, `status_reply_error_not_counted`, `shutdown_next_parallel`, `StartedDone_whole_list`) are the mutants
listed in `PROJECT.json`.

### Fairness

Fairness is assumed only for the node's own mailbox, which CAF serves in FIFO
order as long as the node takes messages:

- A queued DOWN, the error (timeout) of an outstanding status request and the
  sequencer's continuations (`shutdown_next`, `shutdown_done`) are eventually
  handled. These are `SF`, not `WF`: a send blocks the node now and then, which
  disables them intermittently, and a FIFO mailbox still reaches the queued
  message.
- A send to an actor that has exited eventually fails (`WF` on `send_error`).

No fairness is assumed for a live send destination (the `function_view` has no
timeout) or for a component's exit. Shutdown liveness is therefore stated
conditionally: `ShutdownCompletes` assumes, inside the property, that every
exit request is eventually honoured (`ExitsHonoured`).

### The abstract status contract (`StatusAggregator.tla`)

`StatusAggregator` states what spec 4.5 promises of `status`, without how the
results are gathered: per invocation, `Request` takes a snapshot of labels
(idle -> collecting) and `Deliver` hands out one document with a result for
exactly those labels (collecting -> delivered), after which nothing changes.
`Node` maps onto it with `aPhase <- sPhase`, `aSnap <- DOMAIN snap[s]` and
`aDoc <- result[s]` once delivered, `<<>>` before. `StatusRefined == SA!Spec`
is checked by TLC and proved by TLAPS (`StatusRefinement`).

## 2b. The type modules

`type.cpp` is outside the node. It is a pure, single-threaded algorithm, so it
is modelled as operators and checked against reference definitions over
bounded inputs.

**`TypeEncoding`** holds a type as the byte sequence `as_bytes` returns. The
FlatBuffers layout is abstracted to what the code reads:

- a basic type is its union tag;
- a list is the list tag plus its value type as a length-prefixed vector;
- an alias is the alias tag, a length-prefixed name, and the nested type as a
  length-prefixed vector.

The tags follow the order of the switch in `type::table`. The module models:

- the constructors: the basic `as_bytes` buffers, `list_type`, and
  `type(name, nested)` with its empty-name case;
- the readers: `table` (the `while` loop over aliases), `type_index`,
  `operator bool`, `name` and `list_type::value_type`.

Trees of kinds, names and nested types are the reference structure. `Encode`
builds a tree's bytes with the constructors.

**`ByteOrder`** holds `TypeEq` (`operator==`, `std::equal` over both byte
ranges) and `LexRef`, the reference three-way lexicographic order that the
TODO in `operator<=>` names (`std::lexicographical_compare_three_way`). The
first differing byte decides; otherwise the shorter sequence is smaller. Both
are plain definitions, not recursive.

**`ByteCompare`** is `operator<=>` as a state machine over any two byte
sequences:

- `compare_fast_path`: the same data pointer and size give `equal`. Two spans
  share a pointer only when they view one buffer, so `shared` may be TRUE only
  when the bytes are equal.
- `compare_enter`, then one `compare_step` per iteration of the `while` loop.
  A step either returns on the first bytes or drops one byte from each span
  (`subspan(1)` is `Tail`).
- `compare_exit`: the nested ternary after the loop.

**`TypeCompare`** extends `ByteCompare` and starts it on `Encode` of two
types. The run type_compare covers all pairs of types of depth at most 2 over
three basic kinds and two alias names (1,560 pairs). It checks:

- `CompareMatchesReference` (defined in `ByteCompare`): the result is the
  lexicographic order, and it is equal/equivalent exactly when `operator==`
  holds;
- `DecodeFaithful`: `type_index` and `operator bool` see through every alias,
  `name` reads the root, and `value_type` yields the value type's bytes.

The abstract layout is prefix-free. So on the type instance the tie-break runs
only with both spans empty; the one-span-empty arms are not reached there. The
theorem `CompareCorrect` (section 4) covers them: it holds for all byte
sequences, including prefixes of each other.

**`LegacyConversion`** models `type(const legacy_type&)`:

- the basic handlers;
- the list handler;
- the alias handler, which builds the converted type and *returns* it, leaving
  `*this` default;
- the catch-all for the TODO kinds.

`LegacyConversionFaithful` says that a converted supported legacy type keeps
its kind under all aliases, its name, and its list value type. The
legacy_conversion run (no alias kind) passes. legacy_alias finds that any
legacy alias converts to the none type. This is a code bug at `type.cpp:116`.

## 3. Runs

The node runs use `MC_Node.tla`, and the type runs use `MC_TypeCompare.tla` and `MC_LegacyConversion.tla`. These define the small constant sets.

| Run | cfg | Result | Question |
|---|---|---|---|
| node_core | `MC_Node.cfg` | pass, 70 s, 1.2M states | safety and the status refinement, with sends, below |
| node_live | `MC_Node_live.cfg` | pass, 90 s | `StatusAnswered`, `CrashedComponentReaped`, `ShutdownCompletes` |
| drain_leak | `MC_Node_drain_leak.cfg` | violation of `NoComponentOutlivesNode` | EXIT, spawn, teardown of FS, quit: the new source is still alive |
| send_stall | `MC_Node_send_stall.cfg` | violation of `CrashedComponentReaped` | a component crashes, a send goes to a live one that never answers: the DOWN is never handled |
| put_singleton | `MC_Node_put_singleton.cfg` | violation of `SingletonUnique` | `put` checks `importer` but registers `importer-1`, so a spawn adds a second importer |
| spawn_singleton_twice | `MC_Node_spawn_singleton_twice.cfg` | violation of `SpawnedRegistered` | the second label-less importer spawn delivers an unregistered component |
| label_reuse | `MC_Node_label_reuse.cfg` | violation of `SpawnedRegistered` | spawn, spawn, crash of source-1, reap, spawn: the new spawn gets `source-2` again |
| kill_stale | `MC_Node_kill_stale.cfg` | violation of `RegistryEntriesLive` | a killed component's entry is never removed |
| status_empty | `MC_Node_status_empty.cfg` | violation of `StatusAlwaysAnswered` | status with an empty registry is never answered |
| type_compare | `MC_TypeCompare.cfg` | pass, 6.5k states | `operator<=>` and the readers (section 2b) |
| legacy_conversion | `MC_LegacyConversion.cfg` | pass, 312 states | legacy conversion of basic and list types, named and unnamed, depth <= 2 |
| legacy_alias | `MC_LegacyConversion_alias.cfg` | violation of `LegacyConversionFaithful` | a legacy alias converts to none |

The node_core run has two handles, the file system, three commands (source csv,
sink json, importer), an external `put` of a sink, one explicit label, one
status invocation and sends. It checks:

- `TypeOK`;
- `StatusDeliveredOnceComplete`: a status document is delivered at most once,
  and only with a result for every snapshot member;
- `StrictTeardownOrder`: no exit is sent while an earlier category is alive;
- `StatusRefined`: status implements `StatusAggregator`, also while sends
  block the node now and then.
The liveness properties need the product with their tableaux, so node_live
runs a smaller instance (sources only, no explicit label) without sends: a
live destination may never answer, which send_stall shows. It checks
`StatusAnswered` (a started aggregation is eventually delivered),
`CrashedComponentReaped` (a crashed monitored component eventually leaves the
registry) and `ShutdownCompletes` (draining leads to terminated when exits are
honoured).

Why the bounds are enough:

- Two handles are enough to register two components of a category and to let
  one crash while the other runs.
- They are enough for a status reply to race a crash.
- They are enough to have components both in the ordered categories and among
  the leftovers during the teardown.
- Three handles (label_reuse) are the fewest that show the reuse of a generated
  label.

The run sets `CHECK_DEADLOCK FALSE` because the node really stops: after
`terminated`, and when all handles are used.

## 4. Proofs (all obligations checked by tlapm)

### `NodeProofs.tla`

| Theorem | Statement |
|---|---|
| `TypeCorrect` | `Spec => []TypeOK` |
| `StatusDeliveredOnce` | `Spec => []StatusDeliveredOnceComplete` |
| `TeardownOrdered` | `Spec => []StrictTeardownOrder` |
| `StatusRefinement` | `Spec => StatusRefined`, i.e. `Spec => SA!Spec` |

`TypeOK` alone is not inductive. It is strengthened to `IInv`, which adds:

- `RegFinite`: the registry domain is finite, so `Cardinality` in
  `generate_label` and `status_command` is a natural number;
- `StatusInv`: `pending[s] = Cardinality(outstanding[s])`, the results cover
  exactly the answered requests, and an idle or collecting invocation has
  `delivered = 0`.

The delivery property follows from `StatusInv`: `pending` reaches zero exactly
when every request is answered, and delivery moves the phase away from
`collecting`.

The teardown order uses `ShutdownInv`:

- the teardown lists are empty while running;
- every started entry ranks no higher than every pending entry;
- among started entries the lower-ranked are dead.

Each of these is proved preserved with one step per action, and each was first
checked by TLC as an invariant of node_core. The lemmas are about `Emplace`,
`Restrict` and the finiteness of the registry after add or remove.

The refinement follows the usual two steps: `Init => SA!Init`, and
`IInv /\ [Next]_vars => [SA!Next]_SA!avars` (`NextRefinesStatus`). A
`status_command` step is a `Request`. A `status_reply` that brings `pending` to
zero is a `Deliver`: `StatusInv` in the next state gives `outstanding = {}`,
hence a result for exactly the snapshot. Every other reply, and every other
action, leaves `sPhase`, `snap` and the delivered documents alone, a stutter.
The temporal step combines these with `IInvInvariant` by PTL.

### `ByteCompareProofs.tla`

| Theorem | Statement |
|---|---|
| `CompareCorrect` | `CompareSpec => []CompareMatchesReference`, for all byte sequences |

The property speaks only of the final state, so it is not inductive. The
inductive invariant `CInv` has four parts:

- `SpanInv`: the remaining spans are the suffixes of the operands after the
  same number `Consumed` of bytes, and the operands agree on those bytes;
- `SharedInv`: a shared data pointer implies equal operands;
- `ControlInv`: a result is recorded exactly when `pc = "done"`, and the loop
  starts on the whole operands;
- `ResultInv`: each result was returned for the reason the code returns it.
  `less` means the first remaining bytes are ordered that way or only the
  left span is used up; `greater` is symmetric; `equivalent` means both spans
  are empty.

`InitCInv` and `NextCInv` prove `CInv` invariant, with one case per action.
`CInvCorrect` derives the property from it. Two lemmas about `LexRef` carry
that last step:

- `LexDiffAt`: a first difference at byte k+1 decides the order, and the
  sequences are not equal;
- `LexPrefix`: equal up to the end of the shorter sequence means `TypeEq` iff
  the lengths are equal, and otherwise the shorter one is less.

TLC checked `CInv` as an invariant before it was proved. `LexRef` and
`compare_exit` are written with `IF`/`ELSE IF`, which is the nested ternary of
the code. tlapm's SMT encoding does not support `CASE`, and in this version a
`CASE` anywhere in the module made unrelated leaves time out.

### Only TLC checks

- the liveness properties (fairness and ENABLED are out of the prover's reach);
- the violation runs;
- `DecodeFaithful`, `LegacyConversionFaithful` and the `TypeOK` of the type
  instances. `Encode`, `table` and `Stripped` are RECURSIVE operators. tlapm
  cannot use its SMT backend in a module that reaches one, and proving what
  they compute for every tree would need induction over data, which the
  installed provers cannot instantiate.

## 5. Not modelled

- **A handle `put` twice** (node.cpp:446): the handler does not check, and
  the same component would be registered under a second label. The model
  takes `put` handles to be fresh; the spec does not say whether a caller may
  do this.
- **Components calling back into the node**: a send destination is abstract; it
  answers, never answers or exits. A component that waits on the node while
  the node waits on it is the "never answers" case of send_stall.
- **`self` in `send_command`** (node.cpp:99) is not declared in that free
  function; the model reads the node's registry, which is what the
  surrounding code means.
- **The thread-local `this_node`** set by the command handler and read in
  kill's continuations: it only feeds a log message, and the model has one
  node and no worker threads.
- **Iteration in the EXIT handler** (node.cpp:411): whether `find_by_type`
  returns a copy is a property of `component_registry`, which is not under
  `src/`; the model takes the bucket as a snapshot.
- **Plugins' extra factories**, the system-registry cleanup and the status
  counters.
- **type.cpp**: the FlatBuffers layout itself, the verifier assertions and the
  reserved-size assertions; legacy pattern, address, subnet, enumeration, map
  and record types, which the code sends to none on purpose (TODO at
  type.cpp:118). The type modules other than `ByteOrder` and `ByteCompare` use RECURSIVE operators, so they are TLC-only.
- **project.hpp**: the projection iterator.
- **configuration.cc, file_system.hpp, query_client.h, the fuzz harness**:
  option parsing whose checker is not in the repository, and declarations
  without behaviour.
