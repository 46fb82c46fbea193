-------------------------------- MODULE Node --------------------------------
(***************************************************************************)
(* The VAST node actor (src/libvast/src/system/node.cpp): the component   *)
(* registry, the spawn / put / kill / status handlers, the DOWN handler   *)
(* that reaps crashed components, and the EXIT handler that tears the     *)
(* components down in a fixed order through a sequential shutdown.        *)
(*                                                                         *)
(* The node is one actor: each of its handlers runs to completion before  *)
(* the next message is taken, so every handler is one action.  The        *)
(* components run concurrently with it: they crash, answer status        *)
(* requests (or time out) and honour exit requests in any interleaving.   *)
(***************************************************************************)
EXTENDS Integers, FiniteSets, Sequences, Functions

CONSTANTS
    Actors,         \* handles of the components that can come to exist
    FS,             \* the file-system actor spawned when the node starts
    Commands,       \* the spawn commands callers issue, <<type, kind>>
    HavePcap,       \* whether the build has VAST_HAVE_PCAP
    PutTypes,       \* the type names external callers `put` components as
    ExplicitLabels, \* the labels callers pass with --spawn.label
    NoLabel,        \* no --spawn.label option given
    StatusIds,      \* the status invocations a run issues
    IssueSend       \* whether callers issue `send <label> <atom>` commands

(* The spawn commands of make_command_factory, as <<type, kind>>.  The    *)
(* component type is the second word of the command name.                 *)
SpawnCommandTable ==
    {<<t, "">> : t \in {"accountant", "archive", "counter", "eraser",
                        "explorer", "exporter", "importer", "type-registry",
                        "index", "pivoter"}}
    \cup {<<"sink", k>> : k \in {"ascii", "csv", "json", "pcap", "zeek"}}
    \cup {<<"source", k>> : k \in {"csv", "json", "pcap", "suricata",
                                   "syslog", "test", "zeek"}}

(* make_component_factory: the same names, but "spawn source pcap" only  *)
(* when the build has PCAP support.                                       *)
ComponentFactory ==
    IF HavePcap THEN SpawnCommandTable
    ELSE SpawnCommandTable \ {<<"source", "pcap">>}

(* The shutdown priority sequence of the EXIT handler.                    *)
ShutdownSequence ==
    <<"accountant", "source", "importer", "archive", "index", "exporter">>

(* is_singleton                                                           *)
SingletonTypes ==
    {"accountant", "archive", "eraser", "filesystem", "importer", "index",
     "type-registry"}

ComponentTypes == {c[1] : c \in Commands} \cup PutTypes

(* A label: the string `name` when n = 0, the string `name-n` otherwise.   *)
Label(name, n) == <<name, n>>

LabelSet == ExplicitLabels \cup (ComponentTypes \X Nat)

Entry == [actor : Actors, type : ComponentTypes]

(* Teardown ranks: position in ShutdownSequence, then the remaining       *)
(* components, then the file system.                                      *)
LeftoverRank == Len(ShutdownSequence) + 1
FsRank == Len(ShutdownSequence) + 2

ASSUME NodeAssumption ==
    /\ IsFiniteSet(Actors)
    /\ FS \notin Actors
    /\ Commands \subseteq SpawnCommandTable
    /\ HavePcap \in BOOLEAN
    /\ IsFiniteSet(PutTypes)
    /\ IsFiniteSet(ExplicitLabels)
    /\ NoLabel \notin ExplicitLabels
    /\ IsFiniteSet(StatusIds)
    /\ IssueSend \in BOOLEAN

VARIABLES
    alive,        \* actors that are running
    created,      \* actors that have come to exist (handles are not reused)
    owned,        \* actors the spawn handler delivered to its caller
    reg,          \* the component registry: label -> [actor, type]
    monitored,    \* actors the node monitors
    downs,        \* DOWN messages in the node's mailbox, by source actor
    exitReq,      \* actors that were sent an exit request
    sPhase,       \* per status invocation: "idle", "collecting", "delivered"
    snap,         \* per status invocation: label -> actor it asked
    outstanding,  \* per status invocation: labels whose request is open
    pending,      \* req_state->pending
    result,       \* req_state->content: label -> "ok" | "err"
    delivered,    \* how often req_state->rp was delivered
    phase,        \* the node: "running", "draining", "terminated"
    tdTodo,       \* teardown entries not yet sent an exit
    tdStarted,    \* teardown entries sent an exit by the sequencer
    sending       \* {dst} while send_command blocks on dst, else {}

registryVars == <<reg, monitored, downs>>
actorVars == <<alive, created, owned, exitReq>>
statusVars == <<sPhase, snap, outstanding, pending, result, delivered>>
shutdownVars == <<phase, tdTodo, tdStarted>>
vars == <<actorVars, registryVars, statusVars, shutdownVars, sending>>

-----------------------------------------------------------------------------
(* Registry (component_registry, spec 4.1).                               *)

RegActors == {reg[l].actor : l \in DOMAIN reg}

find_by_type(t) == {l \in DOMAIN reg : reg[l].type = t}

(* add: fails without mutation when the label is taken.                    *)
CanAdd(l) == l \notin DOMAIN reg

(* Insert key k with value v unless k is present (std::map::emplace).     *)
Emplace(f, k, v) ==
    [x \in DOMAIN f \cup {k} |-> IF x \in DOMAIN f THEN f[x] ELSE v]

Add(l, a, t) == Emplace(reg, l, [actor |-> a, type |-> t])

(* remove(handle): drops every entry of that actor; no-op otherwise.       *)
Remove(a) == Restrict(reg, {l \in DOMAIN reg : reg[l].actor # a})

(* generate_label: type-N with N = number of components of that type + 1. *)
generate_label(t) == Label(t, Cardinality(find_by_type(t)) + 1)

(* The node's thread is free to take its next message: no send_command  *)
(* holds it in a blocking function_view.                                  *)
NodeIdle == sending = {}

NodeUp == NodeIdle /\ phase # "terminated"

-----------------------------------------------------------------------------
(* node_state::spawn_command with spawn_component.  The label is the      *)
(* explicit one (rejected when taken) or the type name for singletons or  *)
(* a generated type-N.  A taken explicit label, a missing factory or a    *)
(* failing constructor only deliver an error (a stutter step).  On        *)
(* success the new actor is monitored, added (a failed add only trips     *)
(* VAST_ASSERT, a no-op in release builds) and delivered to the caller.   *)
SpawnLabel(c, lbl) ==
    IF lbl # NoLabel THEN lbl
    ELSE IF c[1] \in SingletonTypes THEN Label(c[1], 0)
    ELSE generate_label(c[1])

spawn_command(c, lbl) ==
    /\ NodeUp
    /\ lbl = NoLabel \/ lbl \notin DOMAIN reg
    /\ c \in ComponentFactory
    /\ \E a \in Actors \ created :
         LET l == SpawnLabel(c, lbl) IN
         /\ alive' = alive \cup {a}
         /\ created' = created \cup {a}
         /\ owned' = owned \cup {a}
         /\ monitored' = monitored \cup {a}
         /\ reg' = IF CanAdd(l) THEN Add(l, a, c[1]) ELSE reg
         /\ UNCHANGED <<sending, downs, exitReq, statusVars, shutdownVars>>

(* The `put` handler: rejects a singleton type whose bare type name is a  *)
(* label, generates type-N, rejects a taken label, else adds and monitors.*)
(* The handle comes from the caller: a component constructed elsewhere   *)
(* and not yet known to the node.                                         *)
PutHandles == Actors \ created

put(t) ==
    /\ NodeUp
    /\ ~(t \in SingletonTypes /\ Label(t, 0) \in DOMAIN reg)
    /\ CanAdd(generate_label(t))
    /\ \E a \in PutHandles :
         /\ alive' = alive \cup {a}
         /\ created' = created \cup {a}
         /\ reg' = Add(generate_label(t), a, t)
         /\ monitored' = monitored \cup {a}
         /\ UNCHANGED <<sending, owned, downs, exitReq, statusVars, shutdownVars>>

(* kill_command on a registered label: demonitor, then terminate; the     *)
(* registry entry is left in place.  An unknown label only replies.       *)
kill_command(l) ==
    /\ NodeUp
    /\ l \in DOMAIN reg
    /\ monitored' = monitored \ {reg[l].actor}
    /\ exitReq' = exitReq \cup {reg[l].actor}
    /\ UNCHANGED <<sending, alive, created, owned, reg, downs, statusVars,
                   shutdownVars>>

(* Faulty variant: DOWNs of actors no longer monitored are dropped.       *)
down_handler_monitored_only(a) ==
    /\ NodeUp
    /\ a \in downs
    /\ a \in monitored
    /\ downs' = downs \ {a}
    /\ reg' = Remove(a)
    /\ UNCHANGED <<sending, actorVars, monitored, statusVars, shutdownVars>>

(* The DOWN handler: remove the source from the registry.                  *)
down_handler(a) ==
    /\ NodeUp
    /\ a \in downs
    /\ downs' = downs \ {a}
    /\ reg' = Remove(a)
    /\ UNCHANGED <<sending, actorVars, monitored, statusVars, shutdownVars>>

-----------------------------------------------------------------------------
(* status_command / collect_component_status: snapshot the registry,      *)
(* pending = its size, one request per component.                         *)
(* Faulty variant: pending set to one less than the number of requests.  *)
status_command_off_by_one(s) ==
    /\ NodeUp
    /\ sPhase[s] = "idle"
    /\ sPhase' = [sPhase EXCEPT ![s] = "collecting"]
    /\ snap' = [snap EXCEPT ![s] = [l \in DOMAIN reg |-> reg[l].actor]]
    /\ outstanding' = [outstanding EXCEPT ![s] = DOMAIN reg]
    /\ pending' = [pending EXCEPT ![s] = Cardinality(DOMAIN reg) - 1]
    /\ UNCHANGED <<sending, result, delivered, actorVars, registryVars, shutdownVars>>

(* Faulty variant: an invocation that already runs or delivered takes a  *)
(* new snapshot, reusing its response promise.                            *)
status_command_reused(s) ==
    /\ NodeUp
    /\ sPhase' = [sPhase EXCEPT ![s] = "collecting"]
    /\ snap' = [snap EXCEPT ![s] = [l \in DOMAIN reg |-> reg[l].actor]]
    /\ outstanding' = [outstanding EXCEPT ![s] = DOMAIN reg]
    /\ pending' = [pending EXCEPT ![s] = Cardinality(DOMAIN reg)]
    /\ UNCHANGED <<sending, result, delivered, actorVars, registryVars, shutdownVars>>

status_command(s) ==
    /\ NodeUp
    /\ sPhase[s] = "idle"
    /\ sPhase' = [sPhase EXCEPT ![s] = "collecting"]
    /\ snap' = [snap EXCEPT ![s] = [l \in DOMAIN reg |-> reg[l].actor]]
    /\ outstanding' = [outstanding EXCEPT ![s] = DOMAIN reg]
    /\ pending' = [pending EXCEPT ![s] = Cardinality(DOMAIN reg)]
    /\ UNCHANGED <<sending, result, delivered, actorVars, registryVars, shutdownVars>>

(* Faulty variant: the document is delivered when at most one reply is   *)
(* still open.                                                            *)
status_reply_early(s, l, r) ==
    /\ NodeUp
    /\ l \in outstanding[s]
    /\ r = "ok" => snap[s][l] \in alive
    /\ outstanding' = [outstanding EXCEPT ![s] = @ \ {l}]
    /\ result' = [result EXCEPT ![s] = Emplace(@, l, r)]
    /\ pending' = [pending EXCEPT ![s] = @ - 1]
    /\ IF pending'[s] <= 1
         THEN /\ delivered' = [delivered EXCEPT ![s] = @ + 1]
              /\ sPhase' = [sPhase EXCEPT ![s] = "delivered"]
         ELSE UNCHANGED <<delivered, sPhase>>
    /\ UNCHANGED <<sending, snap, actorVars, registryVars, shutdownVars>>

(* Faulty variant: the error handler does not decrement pending.          *)
status_reply_error_not_counted(s, l, r) ==
    /\ NodeUp
    /\ l \in outstanding[s]
    /\ r = "ok" => snap[s][l] \in alive
    /\ outstanding' = [outstanding EXCEPT ![s] = @ \ {l}]
    /\ result' = [result EXCEPT ![s] = Emplace(@, l, r)]
    /\ pending' = [pending EXCEPT ![s] = IF r = "ok" THEN @ - 1 ELSE @]
    /\ IF pending'[s] = 0
         THEN /\ delivered' = [delivered EXCEPT ![s] = @ + 1]
              /\ sPhase' = [sPhase EXCEPT ![s] = "delivered"]
         ELSE UNCHANGED <<delivered, sPhase>>
    /\ UNCHANGED <<sending, snap, actorVars, registryVars, shutdownVars>>

(* One response handler: "ok" is a reply of the live component, "err" an  *)
(* error (receiver down or the request timeout).  The result is emplaced  *)
(* under the label, pending decremented, the document delivered at zero.  *)
status_reply(s, l, r) ==
    /\ NodeUp
    /\ l \in outstanding[s]
    /\ r = "ok" => snap[s][l] \in alive
    /\ outstanding' = [outstanding EXCEPT ![s] = @ \ {l}]
    /\ result' = [result EXCEPT ![s] = Emplace(@, l, r)]
    /\ pending' = [pending EXCEPT ![s] = @ - 1]
    /\ IF pending'[s] = 0
         THEN /\ delivered' = [delivered EXCEPT ![s] = @ + 1]
              /\ sPhase' = [sPhase EXCEPT ![s] = "delivered"]
         ELSE UNCHANGED <<delivered, sPhase>>
    /\ UNCHANGED <<sending, snap, actorVars, registryVars, shutdownVars>>

-----------------------------------------------------------------------------
(* The EXIT handler: demonitor everything, take the components of each    *)
(* type of ShutdownSequence out of the registry, append the remaining     *)
(* ones (left registered) and the file system last; then                  *)
(* shutdown<policy::sequential>.                                          *)
Rank(t) ==
    IF \E i \in 1..Len(ShutdownSequence) : ShutdownSequence[i] = t
    THEN CHOOSE i \in 1..Len(ShutdownSequence) : ShutdownSequence[i] = t
    ELSE LeftoverRank

exit_handler ==
    /\ NodeIdle
    /\ phase = "running"
    /\ phase' = "draining"
    /\ monitored' = monitored \ RegActors
    /\ reg' = Restrict(reg, {l \in DOMAIN reg : Rank(reg[l].type) = LeftoverRank})
    /\ tdTodo' = {[actor |-> reg[l].actor, rank |-> Rank(reg[l].type)] :
                     l \in DOMAIN reg}
                 \cup {[actor |-> FS, rank |-> FsRank]}
    /\ UNCHANGED <<sending, actorVars, downs, statusVars, tdStarted>>

(* Faulty variant: the sequencer waits for the whole list, not only for  *)
(* the entries it has already sent an exit.                               *)
StartedDone_whole_list == \A e \in tdStarted \cup tdTodo : e.actor \notin alive

(* terminate<policy::sequential>: the next entry is sent an exit once     *)
(* every earlier one has exited.  Within one type the order is registry   *)
(* iteration order, left open here.                                       *)
StartedDone == \A e \in tdStarted : e.actor \notin alive

(* Faulty variant: terminate<policy::parallel>, no wait for the previous. *)
shutdown_next_parallel ==
    /\ NodeIdle
    /\ phase = "draining"
    /\ \E e \in tdTodo :
         /\ \A f \in tdTodo : e.rank <= f.rank
         /\ tdTodo' = tdTodo \ {e}
         /\ tdStarted' = tdStarted \cup {e}
         /\ exitReq' = exitReq \cup {e.actor}
    /\ UNCHANGED <<sending, alive, created, owned, registryVars, statusVars, phase>>

shutdown_next ==
    /\ NodeIdle
    /\ phase = "draining"
    /\ StartedDone
    /\ \E e \in tdTodo :
         /\ \A f \in tdTodo : e.rank <= f.rank
         /\ tdTodo' = tdTodo \ {e}
         /\ tdStarted' = tdStarted \cup {e}
         /\ exitReq' = exitReq \cup {e.actor}
    /\ UNCHANGED <<sending, alive, created, owned, registryVars, statusVars, phase>>

(* All done: the node quits.                                              *)
shutdown_done ==
    /\ NodeIdle
    /\ phase = "draining"
    /\ StartedDone
    /\ tdTodo = {}
    /\ phase' = "terminated"
    /\ UNCHANGED <<sending, actorVars, registryVars, statusVars, tdTodo, tdStarted>>

-----------------------------------------------------------------------------
(* send_command: look the label up and call the component through a      *)
(* caf::function_view, which blocks the node's thread until the answer.   *)
(* A wrong argument count or an unknown label only replies an error.      *)
send_command(l) ==
    /\ IssueSend
    /\ NodeUp
    /\ l \in DOMAIN reg
    /\ sending' = {reg[l].actor}
    /\ UNCHANGED <<actorVars, registryVars, statusVars, shutdownVars>>

(* The destination answers the request: the call returns.                 *)
send_answer ==
    /\ \E a \in sending : a \in alive
    /\ sending' = {}
    /\ UNCHANGED <<actorVars, registryVars, statusVars, shutdownVars>>

(* The destination has exited: the request fails and the call returns.    *)
send_error ==
    /\ \E a \in sending : a \notin alive
    /\ sending' = {}
    /\ UNCHANGED <<actorVars, registryVars, statusVars, shutdownVars>>

-----------------------------------------------------------------------------
(* A component (or the file system) exits: it crashes, or it honours an  *)
(* exit request.  A monitored actor's exit puts a DOWN in the mailbox.    *)
ActorExit(a) ==
    /\ a \in alive
    /\ alive' = alive \ {a}
    /\ downs' = IF a \in monitored THEN downs \cup {a} ELSE downs
    /\ UNCHANGED <<sending, created, owned, exitReq, reg, monitored, statusVars,
                   shutdownVars>>

-----------------------------------------------------------------------------
Init ==
    /\ alive = {FS}
    /\ created = {}
    /\ owned = {}
    /\ reg = <<>>
    /\ monitored = {}
    /\ downs = {}
    /\ exitReq = {}
    /\ sPhase = [s \in StatusIds |-> "idle"]
    /\ snap = [s \in StatusIds |-> <<>>]
    /\ outstanding = [s \in StatusIds |-> {}]
    /\ pending = [s \in StatusIds |-> 0]
    /\ result = [s \in StatusIds |-> <<>>]
    /\ delivered = [s \in StatusIds |-> 0]
    /\ phase = "running"
    /\ tdTodo = {}
    /\ tdStarted = {}
    /\ sending = {}

Next ==
    \/ \E c \in Commands, lbl \in ExplicitLabels \cup {NoLabel} :
         spawn_command(c, lbl)
    \/ \E t \in PutTypes : put(t)
    \/ \E l \in DOMAIN reg : kill_command(l)
    \/ \E a \in Actors : down_handler(a)
    \/ \E s \in StatusIds : status_command(s)
    \/ \E s \in StatusIds : \E l \in outstanding[s], r \in {"ok", "err"} :
         status_reply(s, l, r)
    \/ exit_handler
    \/ shutdown_next
    \/ shutdown_done
    \/ \E l \in DOMAIN reg : send_command(l)
    \/ send_answer
    \/ send_error
    \/ \E a \in Actors \cup {FS} : ActorExit(a)

(* The node's mailbox is FIFO and served as long as the node takes       *)
(* messages, so a queued DOWN, a status timeout and the sequencer's       *)
(* continuations are handled even while a send blocks the node now and   *)
(* then (strong fairness); each status request carries a timeout, so it  *)
(* is answered or times out; a request to an actor that has exited fails.*)
(* A live send destination need not ever answer: the function_view has   *)
(* no timeout.                                                            *)
Fairness ==
    /\ \A a \in Actors : SF_vars(down_handler(a))
    /\ \A s \in StatusIds :
         SF_vars(\E l \in outstanding[s] : status_reply(s, l, "err"))
    /\ SF_vars(shutdown_next)
    /\ SF_vars(shutdown_done)
    /\ WF_vars(send_error)

Spec == Init /\ [][Next]_vars /\ Fairness

-----------------------------------------------------------------------------
(* Properties.                                                            *)

TypeOK ==
    /\ alive \subseteq Actors \cup {FS}
    /\ created \subseteq Actors
    /\ owned \subseteq created
    /\ DOMAIN reg \subseteq LabelSet
    /\ \A l \in DOMAIN reg : reg[l] \in Entry
    /\ monitored \subseteq Actors
    /\ downs \subseteq Actors
    /\ exitReq \subseteq Actors \cup {FS}
    /\ sPhase \in [StatusIds -> {"idle", "collecting", "delivered"}]
    /\ DOMAIN snap = StatusIds
    /\ DOMAIN outstanding = StatusIds
    /\ DOMAIN result = StatusIds
    /\ \A s \in StatusIds :
         /\ DOMAIN snap[s] \subseteq LabelSet
         /\ outstanding[s] \subseteq DOMAIN snap[s]
         /\ DOMAIN result[s] \subseteq DOMAIN snap[s]
         /\ \A l \in DOMAIN result[s] : result[s][l] \in {"ok", "err"}
    /\ pending \in [StatusIds -> Nat]
    /\ delivered \in [StatusIds -> Nat]
    /\ phase \in {"running", "draining", "terminated"}
    /\ tdTodo \subseteq [actor : Actors \cup {FS}, rank : 1..FsRank]
    /\ tdStarted \subseteq [actor : Actors \cup {FS}, rank : 1..FsRank]
    /\ sending \subseteq Actors

(* Status aggregation (collect_component_status): the document goes out  *)
(* at most once, and only when it holds a result for every component of  *)
(* the snapshot, whatever the order in which replies and timeouts come.   *)
StatusDeliveredOnceComplete ==
    \A s \in StatusIds :
        /\ delivered[s] <= 1
        /\ delivered[s] = 1 => DOMAIN result[s] = DOMAIN snap[s]

(* Shutdown (EXIT handler with shutdown<policy::sequential>): the         *)
(* sequencer sends an exit to a component only after every component of  *)
(* an earlier category has exited; the file system, ranked last, goes     *)
(* only after all others.                                                 *)
StrictTeardownOrder ==
    \A e \in tdStarted, f \in tdStarted \cup tdTodo :
        f.rank < e.rank => f.actor \notin alive

(* Status liveness: a status invocation that found components to ask is  *)
(* answered (unless the node terminates first).                          *)
StatusAnswered ==
    \A s \in StatusIds :
        (sPhase[s] = "collecting" /\ pending[s] > 0)
            ~> (sPhase[s] = "delivered" \/ phase = "terminated")

(* Every status invocation is answered (spec 4.5: an empty registry is    *)
(* answered at once with the system entry).                               *)
StatusAlwaysAnswered ==
    \A s \in StatusIds :
        sPhase[s] = "collecting"
            ~> (sPhase[s] = "delivered" \/ phase = "terminated")

(* Failure detection (DOWN handler): a monitored component that crashed  *)
(* while registered is eventually removed from the registry.              *)
CrashedComponentReaped ==
    \A a \in Actors :
        (a \notin alive /\ a \in RegActors /\ a \in monitored)
            ~> (a \notin RegActors \/ phase = "terminated")

(* Spec 3: a singleton type has at most one registered component.         *)
SingletonUnique ==
    \A t \in SingletonTypes :
        Cardinality(find_by_type(t)) <= 1

(* Spec 4.2 / 8: while the node runs, a component the spawn handler      *)
(* handed to its caller is registered as long as it runs and was not     *)
(* asked to exit.                                                         *)
SpawnedRegistered ==
    phase = "running" =>
        \A a \in owned : (a \in alive /\ a \notin exitReq) => a \in RegActors

(* Spec 3: a registry entry is removed on termination: every entry names  *)
(* a running component or one whose DOWN is still to be handled.          *)
RegistryEntriesLive ==
    \A l \in DOMAIN reg : reg[l].actor \in alive \cup downs

(* Spec 4.6: the shutdown is terminal when all owned components have     *)
(* exited.  Components the node spawned or was given after the EXIT       *)
(* handler built the teardown list are in no list.                        *)
NoComponentOutlivesNode ==
    phase = "terminated" => alive \cap created = {}

(* Every component and the file system honour an exit request they were *)
(* sent (spec 9 leaves this to the components' own exit handlers).      *)
ExitsHonoured ==
    \A a \in Actors \cup {FS} : WF_vars(a \in exitReq /\ ActorExit(a))

(* Shutdown liveness (EXIT handler with shutdown<policy::sequential>):    *)
(* if every component eventually exits when asked, a started shutdown    *)
(* terminates the node, whatever components crash, get killed, or are    *)
(* spawned meanwhile.                                                     *)
ShutdownCompletes ==
    ExitsHonoured => ((phase = "draining") ~> (phase = "terminated"))

(* The status aggregator's contract (StatusAggregator): each invocation  *)
(* takes a snapshot of labels and delivers once one document with a      *)
(* result for each of them.  The detailed aggregation, with its counter, *)
(* per-request replies and timeouts, implements it under this mapping.   *)
SA == INSTANCE StatusAggregator WITH
        Labels <- LabelSet,
        aPhase <- sPhase,
        aSnap <- [s \in StatusIds |-> DOMAIN snap[s]],
        aDoc <- [s \in StatusIds |->
                   IF sPhase[s] = "delivered" THEN result[s] ELSE <<>>]

(* collect_component_status refines the contract of spec 4.5.            *)
StatusRefined == SA!Spec

=============================================================================
