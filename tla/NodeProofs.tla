----------------------------- MODULE NodeProofs -----------------------------
(***************************************************************************)
(* Proofs about Node: type correctness and the exactly-once, complete     *)
(* delivery of the status document, for every value of the constants.     *)
(***************************************************************************)
EXTENDS Node, TLAPS, FiniteSetTheorems

(* The registry has finitely many labels (each add adds one).              *)
RegFinite == IsFiniteSet(DOMAIN reg)

(* The bookkeeping of one status aggregation: pending counts exactly the  *)
(* open requests, every answered label has its result, and the phase      *)
(* tells how often the promise was delivered.                             *)
StatusOK(s) ==
    /\ IsFiniteSet(DOMAIN snap[s])
    /\ pending[s] = Cardinality(outstanding[s])
    /\ DOMAIN result[s] = DOMAIN snap[s] \ outstanding[s]
    /\ sPhase[s] = "idle" => DOMAIN snap[s] = {} /\ delivered[s] = 0
    /\ sPhase[s] = "collecting" => delivered[s] = 0
    /\ sPhase[s] = "delivered" => delivered[s] = 1 /\ outstanding[s] = {}

StatusInv == \A s \in StatusIds : StatusOK(s)

IInv == TypeOK /\ RegFinite /\ StatusInv

(* The teardown bookkeeping: entries name actors that exist (a dead actor *)
(* never runs again), the sequencer has started a prefix in rank order,   *)
(* and among the started entries every lower-ranked one has exited.      *)
TeardownActors == {e.actor : e \in tdStarted \cup tdTodo}

ShutdownInv ==
    /\ alive \subseteq created \cup {FS}
    /\ RegActors \subseteq created
    /\ TeardownActors \subseteq created \cup {FS}
    /\ phase = "running" => tdStarted = {} /\ tdTodo = {}
    /\ \A e \in tdStarted, f \in tdTodo : e.rank <= f.rank
    /\ \A e, f \in tdStarted : f.rank < e.rank => f.actor \notin alive

-----------------------------------------------------------------------------
(* Lemmas on the registry helpers.                                        *)

LEMMA EmplaceType ==
    ASSUME NEW f, NEW k, NEW v, NEW T,
           \A x \in DOMAIN f : f[x] \in T, v \in T
    PROVE  /\ DOMAIN Emplace(f, k, v) = DOMAIN f \cup {k}
           /\ \A x \in DOMAIN f \cup {k} : Emplace(f, k, v)[x] \in T
BY DEF Emplace

LEMMA RestrictType ==
    ASSUME NEW f, NEW S, S \subseteq DOMAIN f,
           \A x \in DOMAIN f : f[x] \in Entry
    PROVE  /\ DOMAIN Restrict(f, S) = S
           /\ \A x \in S : Restrict(f, S)[x] \in Entry
BY DEF Restrict

LEMMA RankType ==
    ASSUME NEW t
    PROVE  Rank(t) \in 1..FsRank
BY DEF Rank, ShutdownSequence, LeftoverRank, FsRank

LEMMA LabelTypeCard ==
    ASSUME NodeAssumption, RegFinite, NEW t \in ComponentTypes
    PROVE  generate_label(t) \in LabelSet
<1>1. IsFiniteSet(find_by_type(t))
  BY FS_Subset DEF RegFinite, find_by_type
<1>2. Cardinality(find_by_type(t)) \in Nat
  BY <1>1, FS_CardinalityType
<1>. QED BY <1>2 DEF generate_label, Label, LabelSet

(* Adding a typed entry under a valid label keeps the registry typed and  *)
(* finite.                                                                 *)
LEMMA AddKeepsRegistry ==
    ASSUME TypeOK, RegFinite, NEW l \in LabelSet, NEW a \in Actors,
           NEW t \in ComponentTypes
    PROVE  /\ DOMAIN Add(l, a, t) \subseteq LabelSet
           /\ \A x \in DOMAIN Add(l, a, t) : Add(l, a, t)[x] \in Entry
           /\ IsFiniteSet(DOMAIN Add(l, a, t))
<1>1. [actor |-> a, type |-> t] \in Entry
  BY DEF Entry
<1>2. /\ DOMAIN Add(l, a, t) = DOMAIN reg \cup {l}
      /\ \A x \in DOMAIN reg \cup {l} : Add(l, a, t)[x] \in Entry
  BY <1>1 DEF Add, Emplace, TypeOK
<1>3. IsFiniteSet(DOMAIN reg \cup {l})
  BY FS_AddElement DEF RegFinite
<1>. QED BY <1>2, <1>3 DEF TypeOK

-----------------------------------------------------------------------------
(* The inductive invariant.                                               *)

LEMMA InitIInv == Init => IInv
<1> SUFFICES ASSUME Init PROVE IInv
  OBVIOUS
<1>1. TypeOK
  BY NodeAssumption DEF Init, TypeOK
<1>2. RegFinite
  BY FS_EmptySet DEF Init, RegFinite
<1>3. StatusInv
  BY FS_EmptySet DEF Init, StatusInv, StatusOK
<1>. QED BY <1>1, <1>2, <1>3 DEF IInv

(* Actions that leave the status aggregations alone preserve StatusInv.    *)
LEMMA StatusFrame ==
    ASSUME StatusInv, UNCHANGED statusVars
    PROVE  StatusInv'
BY DEF StatusInv, StatusOK, statusVars

LEMMA NextIInv == IInv /\ [Next]_vars => IInv'
<1> SUFFICES ASSUME IInv, [Next]_vars PROVE IInv'
  OBVIOUS
<1> USE NodeAssumption
<1>1. CASE \E c \in Commands, lbl \in ExplicitLabels \cup {NoLabel} :
             spawn_command(c, lbl)
  <2>1. PICK c \in Commands, lbl \in ExplicitLabels \cup {NoLabel} :
             spawn_command(c, lbl)
    BY <1>1
  <2>2. PICK a \in Actors \ created :
          /\ alive' = alive \cup {a}
          /\ created' = created \cup {a}
          /\ owned' = owned \cup {a}
          /\ monitored' = monitored \cup {a}
          /\ reg' = IF CanAdd(SpawnLabel(c, lbl))
                      THEN Add(SpawnLabel(c, lbl), a, c[1]) ELSE reg
          /\ UNCHANGED <<sending, downs, exitReq, statusVars, shutdownVars>>
    BY <2>1 DEF spawn_command
  <2>3. SpawnLabel(c, lbl) \in LabelSet
    <3>1. c[1] \in ComponentTypes
      BY DEF ComponentTypes
    <3>. QED BY <3>1, LabelTypeCard DEF SpawnLabel, LabelSet, Label, IInv
  <2>4. c[1] \in ComponentTypes
    BY DEF ComponentTypes
  <2>5. /\ DOMAIN reg' \subseteq LabelSet
        /\ \A l \in DOMAIN reg' : reg'[l] \in Entry
        /\ IsFiniteSet(DOMAIN reg')
    <3>1. CASE CanAdd(SpawnLabel(c, lbl))
      BY <2>2, <2>3, <2>4, <3>1, AddKeepsRegistry DEF IInv
    <3>2. CASE ~CanAdd(SpawnLabel(c, lbl))
      BY <2>2, <3>2 DEF IInv, TypeOK, RegFinite
    <3>. QED BY <3>1, <3>2
  <2>6. TypeOK'
    BY <2>2, <2>5 DEF IInv, TypeOK, statusVars, shutdownVars
  <2>. QED BY <2>2, <2>5, <2>6, StatusFrame DEF IInv, RegFinite
<1>2. CASE \E t \in PutTypes : put(t)
  <2>1. PICK t \in PutTypes : put(t)
    BY <1>2
  <2>2. PICK a \in PutHandles :
          /\ alive' = alive \cup {a}
          /\ created' = created \cup {a}
          /\ reg' = Add(generate_label(t), a, t)
          /\ monitored' = monitored \cup {a}
          /\ UNCHANGED <<sending, owned, downs, exitReq, statusVars,
                         shutdownVars>>
    BY <2>1 DEF put
  <2>9. a \in Actors
    BY DEF PutHandles, IInv, TypeOK
  <2>3. generate_label(t) \in LabelSet
    BY LabelTypeCard DEF ComponentTypes, IInv
  <2>4. t \in ComponentTypes
    BY DEF ComponentTypes
  <2>5. /\ DOMAIN reg' \subseteq LabelSet
        /\ \A l \in DOMAIN reg' : reg'[l] \in Entry
        /\ IsFiniteSet(DOMAIN reg')
    BY <2>2, <2>3, <2>4, <2>9, AddKeepsRegistry DEF IInv
  <2>6. TypeOK'
    BY <2>2, <2>5, <2>9 DEF IInv, TypeOK, statusVars, shutdownVars
  <2>. QED BY <2>2, <2>5, <2>6, StatusFrame DEF IInv, RegFinite
<1>3. CASE \E l \in DOMAIN reg : kill_command(l)
  <2>1. PICK l \in DOMAIN reg : kill_command(l)
    BY <1>3
  <2>2. reg[l] \in Entry
    BY DEF IInv, TypeOK
  <2>3. TypeOK'
    BY <2>1, <2>2 DEF kill_command, IInv, TypeOK, Entry, statusVars,
                      shutdownVars
  <2>. QED BY <2>1, <2>3, StatusFrame DEF kill_command, IInv, RegFinite
<1>4. CASE \E a \in Actors : down_handler(a)
  <2>1. PICK a \in Actors : down_handler(a)
    BY <1>4
  <2>2. LET S == {l \in DOMAIN reg : reg[l].actor # a} IN
          /\ DOMAIN reg' = S
          /\ \A l \in S : reg'[l] \in Entry
          /\ IsFiniteSet(DOMAIN reg')
    BY <2>1, RestrictType, FS_Subset DEF down_handler, Remove, IInv, TypeOK,
                                      RegFinite
  <2>3. TypeOK'
    BY <2>1, <2>2 DEF down_handler, IInv, TypeOK, actorVars, statusVars,
                      shutdownVars
  <2>. QED BY <2>1, <2>2, <2>3, StatusFrame DEF down_handler, IInv, RegFinite
<1>5. CASE \E s \in StatusIds : status_command(s)
  <2>1. PICK s \in StatusIds : status_command(s)
    BY <1>5
  <2>2. Cardinality(DOMAIN reg) \in Nat
    BY FS_CardinalityType DEF IInv, RegFinite
  <2>3. DOMAIN result[s] = {}
    BY <2>1 DEF status_command, IInv, StatusInv, StatusOK
  <2>4. TypeOK'
    BY <2>1, <2>2, <2>3 DEF status_command, IInv, TypeOK, Entry, actorVars,
                            registryVars, shutdownVars
  <2>5. StatusOK(s)'
    <3>1. /\ snap'[s] = [l \in DOMAIN reg |-> reg[l].actor]
          /\ outstanding'[s] = DOMAIN reg
          /\ pending'[s] = Cardinality(DOMAIN reg)
          /\ sPhase'[s] = "collecting"
          /\ result'[s] = result[s]
          /\ delivered'[s] = delivered[s]
      BY <2>1 DEF status_command, IInv, TypeOK
    <3>2. delivered[s] = 0
      BY <2>1 DEF status_command, IInv, StatusInv, StatusOK
    <3>. QED BY <2>3, <3>1, <3>2 DEF IInv, RegFinite, StatusOK
  <2>6. ASSUME NEW s2 \in StatusIds, s2 # s PROVE StatusOK(s2)'
    BY <2>1, <2>6 DEF status_command, IInv, StatusInv, StatusOK
  <2>. QED BY <2>1, <2>4, <2>5, <2>6 DEF status_command, IInv, RegFinite,
                                         registryVars, StatusInv
<1>6. CASE \E s \in StatusIds : \E l \in outstanding[s], r \in {"ok", "err"} :
             status_reply(s, l, r)
  <2>0. PICK s \in StatusIds :
             \E l \in outstanding[s], r \in {"ok", "err"} : status_reply(s, l, r)
    BY <1>6
  <2>1. PICK l \in outstanding[s], r \in {"ok", "err"} : status_reply(s, l, r)
    BY <2>0
  <2>2. StatusOK(s)
    BY DEF IInv, StatusInv
  <2>3. /\ outstanding'[s] = outstanding[s] \ {l}
        /\ pending'[s] = pending[s] - 1
        /\ result'[s] = Emplace(result[s], l, r)
        /\ snap'[s] = snap[s]
    BY <2>1 DEF status_reply, IInv, TypeOK
  <2>4. /\ IsFiniteSet(outstanding[s])
        /\ IsFiniteSet(outstanding'[s])
        /\ Cardinality(outstanding'[s]) = Cardinality(outstanding[s]) - 1
        /\ Cardinality(outstanding'[s]) \in Nat
    <3>1. IsFiniteSet(outstanding[s])
      BY <2>2, FS_Subset DEF IInv, TypeOK, StatusOK
    <3>. QED BY <2>3, <3>1, FS_RemoveElement, FS_CardinalityType, FS_Subset
  <2>5. pending'[s] = Cardinality(outstanding'[s])
    BY <2>2, <2>3, <2>4 DEF StatusOK
  <2>6. sPhase[s] = "collecting"
    BY <2>2, FS_EmptySet DEF StatusOK, IInv, TypeOK
  <2>7. /\ DOMAIN result'[s] = DOMAIN result[s] \cup {l}
        /\ \A x \in DOMAIN result'[s] : result'[s][x] \in {"ok", "err"}
    BY <2>1, <2>3 DEF Emplace, IInv, TypeOK
  <2>8. TypeOK'
    <3>1. /\ pending' \in [StatusIds -> Nat]
          /\ delivered' \in [StatusIds -> Nat]
          /\ sPhase' \in [StatusIds -> {"idle", "collecting", "delivered"}]
          /\ DOMAIN snap' = StatusIds
          /\ DOMAIN outstanding' = StatusIds
          /\ DOMAIN result' = StatusIds
      BY <2>1, <2>4, <2>5 DEF status_reply, IInv, TypeOK
    <3>2. \A s2 \in StatusIds :
            /\ DOMAIN snap'[s2] \subseteq LabelSet
            /\ outstanding'[s2] \subseteq DOMAIN snap'[s2]
            /\ DOMAIN result'[s2] \subseteq DOMAIN snap'[s2]
            /\ \A x \in DOMAIN result'[s2] : result'[s2][x] \in {"ok", "err"}
      BY <2>1, <2>3, <2>7 DEF status_reply, IInv, TypeOK
    <3>. QED BY <2>1, <3>1, <3>2
             DEF status_reply, IInv, TypeOK, actorVars, registryVars,
                 shutdownVars
  <2>9. StatusOK(s)'
    <3>1. CASE pending'[s] = 0
      <4>1. outstanding'[s] = {}
        BY <2>4, <2>5, <3>1, FS_EmptySet
      <4>. QED BY <2>1, <2>2, <2>3, <2>4, <2>6, <2>7, <3>1, <4>1
               DEF status_reply, StatusOK, IInv, TypeOK
    <3>2. CASE pending'[s] # 0
      BY <2>1, <2>2, <2>3, <2>4, <2>5, <2>6, <2>7, <3>2
         DEF status_reply, StatusOK, IInv, TypeOK
    <3>. QED BY <3>1, <3>2
  <2>10. ASSUME NEW s2 \in StatusIds, s2 # s PROVE StatusOK(s2)'
    BY <2>1, <2>10 DEF status_reply, IInv, StatusInv, StatusOK, TypeOK
  <2>. QED BY <2>1, <2>8, <2>9, <2>10 DEF status_reply, IInv, RegFinite,
                                          registryVars, StatusInv
<1>7. CASE exit_handler
  <2>1. LET S == {l \in DOMAIN reg : Rank(reg[l].type) = LeftoverRank} IN
          /\ DOMAIN reg' = S
          /\ \A l \in S : reg'[l] \in Entry
          /\ IsFiniteSet(DOMAIN reg')
    BY <1>7, RestrictType, FS_Subset DEF exit_handler, IInv, TypeOK, RegFinite
  <2>2. tdTodo' \subseteq [actor : Actors \cup {FS}, rank : 1..FsRank]
    <3>1. ASSUME NEW l \in DOMAIN reg
          PROVE  [actor |-> reg[l].actor, rank |-> Rank(reg[l].type)]
                   \in [actor : Actors \cup {FS}, rank : 1..FsRank]
      BY RankType DEF IInv, TypeOK, Entry
    <3>2. [actor |-> FS, rank |-> FsRank]
            \in [actor : Actors \cup {FS}, rank : 1..FsRank]
      BY DEF FsRank, ShutdownSequence
    <3>. QED BY <1>7, <3>1, <3>2 DEF exit_handler
  <2>3. TypeOK'
    BY <1>7, <2>1, <2>2 DEF exit_handler, IInv, TypeOK, actorVars, statusVars
  <2>. QED BY <1>7, <2>1, <2>3, StatusFrame DEF exit_handler, IInv, RegFinite
<1>8. CASE shutdown_next
  <2>1. TypeOK'
    BY <1>8 DEF shutdown_next, IInv, TypeOK, registryVars, statusVars
  <2>. QED BY <1>8, <2>1, StatusFrame DEF shutdown_next, IInv, RegFinite,
                                          registryVars
<1>9. CASE shutdown_done
  <2>1. TypeOK'
    BY <1>9 DEF shutdown_done, IInv, TypeOK, actorVars, registryVars,
                statusVars
  <2>. QED BY <1>9, <2>1, StatusFrame DEF shutdown_done, IInv, RegFinite,
                                          registryVars
<1>10. CASE \E a \in Actors \cup {FS} : ActorExit(a)
  <2>1. PICK a \in Actors \cup {FS} : ActorExit(a)
    BY <1>10
  <2>2. TypeOK'
    BY <2>1 DEF ActorExit, IInv, TypeOK, statusVars, shutdownVars
  <2>. QED BY <2>1, <2>2, StatusFrame DEF ActorExit, IInv, RegFinite
<1>11. CASE UNCHANGED vars
  BY <1>11 DEF vars, IInv, TypeOK, RegFinite, StatusInv, StatusOK, actorVars,
               registryVars, statusVars, shutdownVars
<1>12. CASE \E l \in DOMAIN reg : send_command(l)
  <2>1. PICK l \in DOMAIN reg : send_command(l)
    BY <1>12
  <2>2. reg[l] \in Entry
    BY DEF IInv, TypeOK
  <2>3. TypeOK'
    BY <2>1, <2>2 DEF send_command, IInv, TypeOK, Entry, actorVars,
                      registryVars, statusVars, shutdownVars
  <2>. QED BY <2>1, <2>3, StatusFrame DEF send_command, IInv, RegFinite,
                                          registryVars
<1>13. CASE send_answer \/ send_error
  <2>1. TypeOK'
    BY <1>13 DEF send_answer, send_error, IInv, TypeOK, actorVars,
                 registryVars, statusVars, shutdownVars
  <2>. QED BY <1>13, <2>1, StatusFrame DEF send_answer, send_error, IInv,
                                           RegFinite, registryVars
<1>. QED BY <1>1, <1>2, <1>3, <1>4, <1>5, <1>6, <1>7, <1>8, <1>9, <1>10,
            <1>11, <1>12, <1>13 DEF Next

(* IInv holds in every state of every behaviour.                          *)
THEOREM IInvInvariant == Spec => []IInv
BY InitIInv, NextIInv, PTL DEF Spec

(* Type correctness of the node's state.                                  *)
THEOREM TypeCorrect == Spec => []TypeOK
BY IInvInvariant, PTL DEF IInv

(* collect_component_status delivers the status document at most once,   *)
(* and only with a result for every component it asked, for any number  *)
(* of components, status invocations and reply orders.                    *)
THEOREM StatusDeliveredOnce == Spec => []StatusDeliveredOnceComplete
<1>1. IInv => StatusDeliveredOnceComplete
  <2> SUFFICES ASSUME IInv, NEW s \in StatusIds
               PROVE  /\ delivered[s] <= 1
                      /\ delivered[s] = 1 => DOMAIN result[s] = DOMAIN snap[s]
    BY DEF StatusDeliveredOnceComplete
  <2>1. StatusOK(s) /\ sPhase[s] \in {"idle", "collecting", "delivered"}
    BY DEF IInv, StatusInv, TypeOK
  <2>. QED BY <2>1 DEF StatusOK
<1>. QED BY <1>1, IInvInvariant, PTL

-----------------------------------------------------------------------------
(* The shutdown order.                                                    *)

LEMMA InitShutdownInv == Init => ShutdownInv
BY DEF Init, ShutdownInv, TeardownActors, RegActors

(* Steps that leave the teardown alone and only add fresh actors or       *)
(* remove running ones preserve ShutdownInv.                             *)
LEMMA ShutdownFrame ==
    ASSUME ShutdownInv, UNCHANGED <<phase, tdTodo, tdStarted>>,
           alive' \subseteq alive \cup (created' \ created),
           created \subseteq created', created' \subseteq Actors,
           RegActors' \subseteq created'
    PROVE  ShutdownInv'
BY NodeAssumption DEF ShutdownInv, TeardownActors

LEMMA NextShutdownInv ==
    TypeOK /\ ShutdownInv /\ [Next]_vars => ShutdownInv'
<1> SUFFICES ASSUME TypeOK, ShutdownInv, [Next]_vars PROVE ShutdownInv'
  OBVIOUS
<1> USE NodeAssumption
<1>1. CASE \E c \in Commands, lbl \in ExplicitLabels \cup {NoLabel} :
             spawn_command(c, lbl)
  <2>1. PICK c \in Commands, lbl \in ExplicitLabels \cup {NoLabel} :
             spawn_command(c, lbl)
    BY <1>1
  <2>2. PICK a \in Actors \ created :
          /\ alive' = alive \cup {a}
          /\ created' = created \cup {a}
          /\ reg' = IF CanAdd(SpawnLabel(c, lbl))
                      THEN Add(SpawnLabel(c, lbl), a, c[1]) ELSE reg
          /\ UNCHANGED <<phase, tdTodo, tdStarted>>
    BY <2>1 DEF spawn_command, shutdownVars
  <2>3. RegActors' \subseteq created'
    BY <2>2 DEF ShutdownInv, RegActors, Add, Emplace
  <2>. QED BY <2>2, <2>3, ShutdownFrame DEF TypeOK
<1>2. CASE \E t \in PutTypes : put(t)
  <2>1. PICK t \in PutTypes : put(t)
    BY <1>2
  <2>2. PICK a \in PutHandles :
          /\ alive' = alive \cup {a}
          /\ created' = created \cup {a}
          /\ reg' = Add(generate_label(t), a, t)
          /\ UNCHANGED <<phase, tdTodo, tdStarted>>
    BY <2>1 DEF put, shutdownVars
  <2>3. RegActors' \subseteq created'
    BY <2>2 DEF ShutdownInv, RegActors, Add, Emplace
  <2>4. a \in Actors /\ alive' \subseteq alive \cup (created' \ created)
    BY <2>2 DEF PutHandles, TypeOK, ShutdownInv
  <2>. QED BY <2>2, <2>3, <2>4, ShutdownFrame DEF TypeOK
<1>3. CASE \E l \in DOMAIN reg : kill_command(l)
  BY <1>3, ShutdownFrame DEF TypeOK, kill_command, ShutdownInv, RegActors,
                             shutdownVars
<1>4. CASE \E a \in Actors : down_handler(a)
  <2>1. PICK a \in Actors : down_handler(a)
    BY <1>4
  <2>2. RegActors' \subseteq RegActors
    BY <2>1 DEF down_handler, Remove, Restrict, RegActors
  <2>. QED BY <2>1, <2>2, ShutdownFrame DEF TypeOK, down_handler, ShutdownInv,
                                            actorVars, shutdownVars
<1>5. CASE \E s \in StatusIds : status_command(s)
  BY <1>5, ShutdownFrame DEF TypeOK, status_command, ShutdownInv, RegActors,
                             actorVars, registryVars, shutdownVars
<1>6. CASE \E s \in StatusIds : \E l \in outstanding[s], r \in {"ok", "err"} :
             status_reply(s, l, r)
  BY <1>6, ShutdownFrame DEF TypeOK, status_reply, ShutdownInv, RegActors,
                             actorVars, registryVars, shutdownVars
<1>7. CASE exit_handler
  <2>1. RegActors' \subseteq RegActors
    BY <1>7 DEF exit_handler, Restrict, RegActors
  <2>2. TeardownActors' \subseteq RegActors \cup {FS}
    <3>1. tdStarted' = {}
      BY <1>7 DEF exit_handler, ShutdownInv
    <3>2. \A e \in tdTodo' : e.actor \in RegActors \cup {FS}
      BY <1>7 DEF exit_handler, RegActors
    <3>. QED BY <3>1, <3>2 DEF TeardownActors
  <2>. QED BY <1>7, <2>1, <2>2 DEF exit_handler, ShutdownInv, actorVars
<1>8. CASE shutdown_next
  <2>1. PICK e \in tdTodo :
          /\ \A f \in tdTodo : e.rank <= f.rank
          /\ tdTodo' = tdTodo \ {e}
          /\ tdStarted' = tdStarted \cup {e}
    BY <1>8 DEF shutdown_next
  <2>2. /\ phase = "draining" /\ phase' = phase
        /\ \A f \in tdStarted : f.actor \notin alive
        /\ alive' = alive /\ created' = created /\ reg' = reg
    BY <1>8 DEF shutdown_next, StartedDone, registryVars
  <2>3. \A x, y \in tdStarted' : y.rank < x.rank => y.actor \notin alive'
    BY <2>1, <2>2 DEF ShutdownInv, TypeOK
  <2>4. \A x \in tdStarted', y \in tdTodo' : x.rank <= y.rank
    BY <2>1 DEF ShutdownInv
  <2>5. TeardownActors' \subseteq created' \cup {FS}
    BY <2>1, <2>2 DEF ShutdownInv, TeardownActors
  <2>. QED BY <2>2, <2>3, <2>4, <2>5 DEF ShutdownInv, RegActors
<1>9. CASE shutdown_done
  BY <1>9 DEF shutdown_done, ShutdownInv, TeardownActors, RegActors,
              actorVars, registryVars
<1>10. CASE \E a \in Actors \cup {FS} : ActorExit(a)
  <2>1. PICK a \in Actors \cup {FS} : ActorExit(a)
    BY <1>10
  <2>2. /\ alive' = alive \ {a}
        /\ created' = created
        /\ reg' = reg
        /\ UNCHANGED <<phase, tdTodo, tdStarted>>
    BY <2>1 DEF ActorExit, shutdownVars
  <2>. QED BY <2>2, ShutdownFrame DEF TypeOK, ShutdownInv, RegActors
<1>11. CASE UNCHANGED vars
  BY <1>11 DEF vars, ShutdownInv, TeardownActors, RegActors, actorVars,
               registryVars, shutdownVars
<1>12. CASE \/ \E l \in DOMAIN reg : send_command(l)
            \/ send_answer \/ send_error
  BY <1>12 DEF send_command, send_answer, send_error, ShutdownInv,
               TeardownActors, RegActors, actorVars, registryVars, shutdownVars
<1>. QED BY <1>1, <1>2, <1>3, <1>4, <1>5, <1>6, <1>7, <1>8, <1>9, <1>10,
            <1>11, <1>12 DEF Next

(* The EXIT handler with shutdown<policy::sequential> sends an exit to a  *)
(* component only after every component of an earlier category in the    *)
(* teardown has exited, and to the file system only after all others.    *)
THEOREM TeardownOrdered == Spec => []StrictTeardownOrder
<1>1. TypeOK /\ ShutdownInv => StrictTeardownOrder
  BY DEF TypeOK, ShutdownInv, StrictTeardownOrder
<1>2. Spec => []ShutdownInv
  BY InitShutdownInv, NextShutdownInv, TypeCorrect, PTL DEF Spec
<1>. QED BY <1>1, <1>2, TypeCorrect, PTL


-----------------------------------------------------------------------------
(* The status command implements the aggregator's contract.              *)

(* A status step is a Request or a Deliver of the abstract aggregator,    *)
(* every other step leaves the mapped state alone.                        *)
LEMMA NextRefinesStatus ==
    IInv /\ [Next]_vars => [SA!Next]_SA!avars
<1> SUFFICES ASSUME IInv, [Next]_vars PROVE [SA!Next]_SA!avars
  OBVIOUS
<1> USE NodeAssumption
<1>1. CASE UNCHANGED <<sPhase, snap, result>>
  BY <1>1 DEF SA!avars
<1>2. CASE \E s \in StatusIds : status_command(s)
  <2>1. PICK s \in StatusIds : status_command(s)
    BY <1>2
  <2>2. sPhase[s] = "idle" /\ result[s] = result[s]
    BY <2>1 DEF status_command
  <2>3. /\ sPhase' = [sPhase EXCEPT ![s] = "collecting"]
        /\ DOMAIN snap'[s] = DOMAIN reg
        /\ \A x \in StatusIds \ {s} : snap'[x] = snap[x]
        /\ result' = result
    BY <2>1 DEF status_command, IInv, TypeOK
  <2>4. SA!Request(s)
    BY <2>2, <2>3 DEF SA!Request, IInv, TypeOK
  <2>. QED BY <2>4 DEF SA!Next
<1>3. CASE \E s \in StatusIds : \E l \in outstanding[s], r \in {"ok", "err"} :
             status_reply(s, l, r)
  <2>1. PICK s \in StatusIds :
             \E l \in outstanding[s], r \in {"ok", "err"} : status_reply(s, l, r)
    BY <1>3
  <2>2. PICK l \in outstanding[s], r \in {"ok", "err"} : status_reply(s, l, r)
    BY <2>1
  <2>3. sPhase[s] = "collecting"
    BY <2>2, FS_EmptySet DEF IInv, StatusInv, StatusOK, TypeOK
  <2>4. StatusOK(s)'
    BY NextIInv DEF IInv, StatusInv
  <2>5. CASE pending'[s] = 0
    <3>1. /\ sPhase' = [sPhase EXCEPT ![s] = "delivered"]
          /\ snap' = snap
          /\ result' = [result EXCEPT ![s] = Emplace(@, l, r)]
      BY <2>2, <2>5 DEF status_reply
    <3>2. outstanding'[s] = {}
      BY <2>4, <3>1 DEF StatusOK, IInv, TypeOK
    <3>3. DOMAIN result'[s] = DOMAIN snap[s]
      BY <2>4, <3>1, <3>2 DEF StatusOK
    <3>4. result'[s] \in [DOMAIN snap[s] -> SA!Results]
      <4>1. /\ result'[s] = Emplace(result[s], l, r)
            /\ \A x \in DOMAIN result[s] : result[s][x] \in {"ok", "err"}
        BY <3>1 DEF IInv, TypeOK
      <4>. QED BY <3>3, <4>1 DEF Emplace, SA!Results
    <3>5. SA!Deliver(s)
      BY <2>3, <3>1, <3>4 DEF SA!Deliver, IInv, TypeOK
    <3>. QED BY <3>5 DEF SA!Next
  <2>6. CASE pending'[s] # 0
    <3>1. /\ sPhase' = sPhase /\ snap' = snap
          /\ \A x \in StatusIds \ {s} : result'[x] = result[x]
      BY <2>2, <2>6 DEF status_reply, IInv, TypeOK
    <3>. QED BY <2>3, <3>1 DEF SA!avars, IInv, TypeOK
  <2>. QED BY <2>5, <2>6
<1>. QED
  BY <1>1, <1>2, <1>3
  DEF Next, vars, spawn_command, put, kill_command, down_handler,
      exit_handler, shutdown_next, shutdown_done, send_command, send_answer,
      send_error, ActorExit, statusVars

(* collect_component_status implements the contract of spec 4.5: each    *)
(* invocation snapshots once, then delivers one document holding a result *)
(* for exactly the labels of its snapshot, and never changes it again.    *)
THEOREM StatusRefinement == Spec => StatusRefined
<1>1. Init => SA!Init
  BY DEF Init, SA!Init
<1>2. IInv /\ [Next]_vars => [SA!Next]_SA!avars
  BY NextRefinesStatus
<1>. QED BY <1>1, <1>2, IInvInvariant, PTL DEF Spec, StatusRefined, SA!Spec

=============================================================================
