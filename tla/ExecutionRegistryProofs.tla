------------------------ MODULE ExecutionRegistryProofs ------------------------
(***************************************************************************)
(* What the registry promises for any number of parties, executions, slots *)
(* and tombstones.  The order of the tombstones plays no part in most of   *)
(* it, so the first invariant leaves order alone.  A second one says that  *)
(* the queue lists the tombstones; how long an execution is remembered as  *)
(* retired follows from the two.                                           *)
(***************************************************************************)
EXTENDS ExecutionRegistry, FiniteSetTheorems, TLAPS

\* The types of all variables but order.
Types ==
  /\ executions \subseteq ExecutionId
  /\ IsFiniteSet(executions)
  /\ retirement_acks \in [ExecutionId -> SUBSET mpc_nodes]
  /\ finished \subseteq executions
  /\ sealed \subseteq ExecutionId
  /\ acks \in [sealed -> SUBSET mpc_nodes]
  /\ server \in {"up", "draining", "drained", "expired"}

Inv == /\ Types
       /\ WithinCapacity
       /\ DroppedOnlyRetired
       /\ SealNeverReplaces
       /\ ShutdownJustified

\* The sizes of the roster and of a retirement quorum are numbers.
LEMMA QuorumType == n \in Nat /\ retirement_quorum(n, t) \in Int
BY RegistryAssumption, FS_CardinalityType DEF n, retirement_quorum

\* Acknowledgements only ever add up.
LEMMA MoreAcks ==
  ASSUME NEW parties \in SUBSET mpc_nodes, NEW p \in mpc_nodes,
         Cardinality(parties) >= retirement_quorum(n, t)
  PROVE  Cardinality(parties \cup {p}) >= retirement_quorum(n, t)
<1>1. IsFiniteSet(parties \cup {p})
  BY RegistryAssumption, FS_Subset
<1>2. /\ Cardinality(parties) \in Nat /\ Cardinality(parties \cup {p}) \in Nat
      /\ Cardinality(parties) <= Cardinality(parties \cup {p})
  BY <1>1, FS_Subset, FS_CardinalityType
<1> QED
  BY <1>2, QuorumType

\* As many parties as the roster has are all of them.
LEMMA AllParties ==
  ASSUME NEW parties \in SUBSET mpc_nodes, Cardinality(parties) >= n
  PROVE  parties = mpc_nodes
<1>1. /\ Cardinality(parties) <= Cardinality(mpc_nodes)
      /\ Cardinality(parties) = Cardinality(mpc_nodes) => parties = mpc_nodes
  BY RegistryAssumption, FS_Subset
<1>2. Cardinality(parties) \in Nat /\ Cardinality(mpc_nodes) \in Nat
  BY RegistryAssumption, FS_Subset, FS_CardinalityType
<1> QED
  BY <1>1, <1>2 DEF n

\* seal adds one tombstone with the acknowledgements given, keeps those of the
\* others, and may forget some.
LEMMA SealEffect ==
  ASSUME Types, NEW e \in ExecutionId, NEW parties \in SUBSET mpc_nodes,
         seal(e, parties)
  PROVE  /\ DOMAIN acks' \subseteq sealed \cup {e}
         /\ acks' \in [DOMAIN acks' -> SUBSET mpc_nodes]
         /\ \A x \in DOMAIN acks' : acks'[x] = IF x = e THEN parties ELSE acks[x]
<1>1. PICK S \in SUBSET (sealed \cup {e}) :
        acks' = [x \in S |-> IF x = e THEN parties ELSE acks[x]]
  BY Zenon DEF seal
<1>2. DOMAIN acks' = S
  BY <1>1
<1>3. \A x \in S : acks'[x] = (IF x = e THEN parties ELSE acks[x])
                  /\ acks'[x] \in SUBSET mpc_nodes
  BY <1>1 DEF Types
<1> QED
  BY <1>1, <1>2, <1>3

\* acknowledge adds the party, or forgets the tombstone.
LEMMA AcknowledgeEffect ==
  ASSUME Types, NEW e \in sealed, NEW p \in mpc_nodes, acknowledge(e, p)
  PROVE  /\ DOMAIN acks' \subseteq sealed
         /\ acks' \in [DOMAIN acks' -> SUBSET mpc_nodes]
         /\ \A x \in DOMAIN acks' : acks'[x] = IF x = e THEN acks[e] \cup {p} ELSE acks[x]
<1>1. CASE Cardinality(acks[e] \cup {p}) >= n
  <2>1. acks' = [x \in sealed \ {e} |-> acks[x]]
    BY <1>1 DEF acknowledge
  <2>2. DOMAIN acks' = sealed \ {e}
    BY <2>1
  <2> QED
    BY <2>1, <2>2 DEF Types
<1>2. CASE ~(Cardinality(acks[e] \cup {p}) >= n)
  <2>1. acks' = [acks EXCEPT ![e] = acks[e] \cup {p}]
    BY <1>2 DEF acknowledge
  <2>2. DOMAIN acks' = sealed
    BY <2>1 DEF sealed
  <2> QED
    BY <2>1, <2>2 DEF Types, sealed
<1> QED
  BY <1>1, <1>2

\* A registration that finds a free slot.
LEMMA RegisterFree ==
  ASSUME Inv, NEW e \in ExecutionId \ executions,
         Cardinality(executions) < MAX_CONCURRENT_EXECUTIONS,
         Admit({}, {e}),
         UNCHANGED <<acks, order, delivering, shutdown_notify, server>>
  PROVE  Inv'
<1>1. /\ executions' = executions \cup {e}
      /\ retirement_acks' = [x \in ExecutionId |-> IF x = e THEN {} ELSE retirement_acks[x]]
      /\ finished' = finished
  BY DEF Admit, Inv, Types
<1>2. IsFiniteSet(executions') /\ Cardinality(executions') = Cardinality(executions) + 1
  BY <1>1, FS_AddElement DEF Inv, Types
<1>3. Cardinality(executions) \in Nat
  BY FS_CardinalityType DEF Inv, Types
<1>4. Types'
  BY <1>1, <1>2 DEF Inv, Types, sealed
<1>5. WithinCapacity'
  BY <1>2, <1>3, RegistryAssumption DEF WithinCapacity
<1>6. DroppedOnlyRetired'
  BY <1>1 DEF Inv, DroppedOnlyRetired, sealed
<1>7. SealNeverReplaces'
  BY <1>1 DEF Inv, Types, SealNeverReplaces, sealed
<1>8. ShutdownJustified'
  BY <1>1, RegistryAssumption DEF Inv, Types, ShutdownJustified
<1> QED
  BY <1>4, <1>5, <1>6, <1>7, <1>8 DEF Inv

\* A registration at capacity: a victim is sealed whether or not the new
\* execution is valid and takes its slot.
LEMMA RegisterEvict ==
  ASSUME Inv, Running, NEW e \in ExecutionId \ executions, NEW valid \in BOOLEAN,
         NEW victim \in Evictable,
         seal(victim, retirement_acks[victim]),
         Admit({victim}, IF valid THEN {e} ELSE {}),
         UNCHANGED <<delivering, shutdown_notify, server>>
  PROVE  Inv'
<1>1. /\ victim \in executions /\ victim \in ExecutionId /\ victim # one_off_execution
      /\ Cardinality(retirement_acks[victim]) >= retirement_quorum(n, t)
      /\ retirement_acks[victim] \in SUBSET mpc_nodes
  BY DEF Evictable, AtRetirementQuorum, Inv, Types
<1>2. /\ executions' \subseteq (executions \ {victim}) \cup {e}
      /\ executions \ {victim} \subseteq executions'
      /\ \A x \in ExecutionId : retirement_acks'[x] =
           IF x = victim \/ (valid /\ x = e) THEN {} ELSE retirement_acks[x]
      /\ retirement_acks' \in [ExecutionId -> SUBSET mpc_nodes]
      /\ finished' = finished \ {victim}
      /\ e \in executions' => valid
  BY DEF Admit, Inv, Types
<1>3. /\ DOMAIN acks' \subseteq sealed \cup {victim}
      /\ acks' \in [DOMAIN acks' -> SUBSET mpc_nodes]
      /\ \A x \in DOMAIN acks' :
           acks'[x] = IF x = victim THEN retirement_acks[victim] ELSE acks[x]
  BY <1>1, SealEffect DEF Inv
<1>4. /\ IsFiniteSet(executions')
      /\ Cardinality(executions') <= Cardinality(executions)
      /\ Cardinality(executions') \in Nat /\ Cardinality(executions) \in Nat
  <2> DEFINE rest == executions \ {victim}
  <2>1. IsFiniteSet(executions) /\ Cardinality(executions) \in Nat
    BY FS_CardinalityType DEF Inv, Types
  <2>2. IsFiniteSet(rest) /\ Cardinality(rest) = Cardinality(executions) - 1
    BY <1>1, <2>1, FS_RemoveElement, ZenonT(30)
  <2> HIDE DEF rest
  <2>3. e \notin rest
    BY DEF rest
  <2>4. IsFiniteSet(rest \cup {e}) /\ Cardinality(rest \cup {e}) = Cardinality(rest) + 1
    BY <2>2, <2>3, FS_AddElement
  <2>5. executions' \in SUBSET (rest \cup {e})
    BY <1>2 DEF rest
  <2>6. IsFiniteSet(executions') /\ Cardinality(executions') <= Cardinality(rest \cup {e})
    BY <2>4, <2>5, FS_Subset
  <2>7. Cardinality(executions') \in Nat
    BY <2>6, FS_CardinalityType
  <2> QED
    BY <2>1, <2>2, <2>4, <2>6, <2>7
<1>5. Types'
  BY <1>1, <1>2, <1>3, <1>4 DEF Inv, Types, sealed
<1>6. WithinCapacity'
  BY <1>4, RegistryAssumption DEF Inv, WithinCapacity
<1>7. DroppedOnlyRetired'
  <2>1. \A x \in DOMAIN acks' : Cardinality(acks'[x]) >= retirement_quorum(n, t)
    BY <1>1, <1>3 DEF Inv, DroppedOnlyRetired
  <2>2. one_off_execution # None => one_off_execution \in executions' \ DOMAIN acks'
    BY <1>1, <1>2, <1>3 DEF Inv, DroppedOnlyRetired
  <2> QED
    BY <2>1, <2>2 DEF DroppedOnlyRetired, sealed
<1>8. SealNeverReplaces'
  BY <1>2, <1>3, <1>5 DEF Inv, Types, SealNeverReplaces, sealed
<1>9. ShutdownJustified'
  <2>1. server' = server /\ server # "drained"
    BY DEF Running
  <2>2. server # "up" => one_off_execution \in executions' \cap finished'
    BY <1>1, <1>2 DEF Inv, ShutdownJustified
  <2> QED
    BY <2>1, <2>2 DEF ShutdownJustified
<1> QED
  BY <1>5, <1>6, <1>7, <1>8, <1>9 DEF Inv

\* An acknowledgement, of a tombstone or of a live execution.
LEMMA RetireStep ==
  ASSUME Inv, NEW p \in mpc_nodes, NEW e \in ExecutionId, RetireExecution(p, e)
  PROVE  Inv'
<1>1. UNCHANGED <<executions, finished, server>> /\ Running
  BY DEF RetireExecution, retire_execution
<1>2. ShutdownJustified' /\ WithinCapacity'
  BY <1>1 DEF Inv, ShutdownJustified, WithinCapacity, Running
<1>3. CASE e \in sealed
  <2>1. acknowledge(e, p) /\ retirement_acks' = retirement_acks
    BY <1>3 DEF RetireExecution, retire_execution
  <2>2. /\ DOMAIN acks' \subseteq sealed
        /\ acks' \in [DOMAIN acks' -> SUBSET mpc_nodes]
        /\ \A x \in DOMAIN acks' :
             acks'[x] = IF x = e THEN acks[e] \cup {p} ELSE acks[x]
    BY <1>3, <2>1, AcknowledgeEffect DEF Inv
  <2>3. Types'
    BY <1>1, <2>1, <2>2 DEF Inv, Types, sealed
  <2>4. Cardinality(acks[e] \cup {p}) >= retirement_quorum(n, t)
    BY <1>3, MoreAcks DEF Inv, DroppedOnlyRetired, Types
  <2>5. DroppedOnlyRetired'
    BY <1>1, <2>2, <2>4, ZenonT(30) DEF Inv, DroppedOnlyRetired, sealed
  <2>6. SealNeverReplaces'
    BY <1>1, <2>1, <2>2 DEF Inv, SealNeverReplaces, sealed
  <2> QED
    BY <1>2, <2>3, <2>5, <2>6 DEF Inv
<1>4. CASE e \notin sealed
  <2>1. /\ acks' = acks
        /\ retirement_acks' = [retirement_acks EXCEPT ![e] = retirement_acks[e] \cup {p}]
    BY <1>4 DEF RetireExecution, retire_execution
  <2>2. Types'
    BY <1>1, <2>1 DEF Inv, Types, sealed
  <2>3. DroppedOnlyRetired'
    BY <1>1, <2>1 DEF Inv, DroppedOnlyRetired, sealed
  <2>4. SealNeverReplaces'
    BY <1>1, <1>4, <2>1 DEF Inv, Types, SealNeverReplaces, sealed
  <2> QED
    BY <1>2, <2>2, <2>3, <2>4 DEF Inv
<1> QED
  BY <1>3, <1>4

-----------------------------------------------------------------------------
\* The invariant holds in every state of the registry.
THEOREM InductiveInvariant == Spec => []Inv
<1>1. Init => Inv
  <2> SUFFICES ASSUME Init
               PROVE  Inv
    OBVIOUS
  <2>1. sealed = {} /\ acks \in [sealed -> SUBSET mpc_nodes]
    BY DEF Init, sealed
  <2>2. executions \in SUBSET {one_off_execution} /\ executions \subseteq ExecutionId
    BY DEF Init
  <2>3. /\ IsFiniteSet(executions) /\ Cardinality(executions) \in Nat
        /\ Cardinality(executions) <= 1
    <3>1. IsFiniteSet({one_off_execution}) /\ Cardinality({one_off_execution}) = 1
      BY FS_Singleton
    <3>2. IsFiniteSet(executions) /\ Cardinality(executions) <= 1
      BY <2>2, <3>1, FS_Subset
    <3> QED
      BY <3>2, FS_CardinalityType
  <2>4. Types
    BY <2>1, <2>2, <2>3 DEF Init, Types
  <2>5. WithinCapacity
    BY <2>3, RegistryAssumption DEF WithinCapacity
  <2>6. DroppedOnlyRetired /\ SealNeverReplaces /\ ShutdownJustified
    BY <2>1, RegistryAssumption
       DEF Init, DroppedOnlyRetired, SealNeverReplaces, ShutdownJustified
  <2> QED
    BY <2>4, <2>5, <2>6 DEF Inv
<1>2. Inv /\ [Next]_vars => Inv'
  <2> SUFFICES ASSUME Inv, [Next]_vars
               PROVE  Inv'
    OBVIOUS
  <2>1. ASSUME NEW e \in ExecutionId, NEW valid \in BOOLEAN, RegisterExecution(e, valid)
        PROVE  Inv'
    BY <2>1, RegisterFree, RegisterEvict, Zenon DEF RegisterExecution, register_execution
  <2>2. ASSUME NEW p \in mpc_nodes, NEW e \in ExecutionId, RetireExecution(p, e)
        PROVE  Inv'
    BY <2>2, RetireStep
  <2>3. ASSUME NEW e \in ExecutionId, FinishProgram(e)
        PROVE  Inv'
    BY <2>3 DEF FinishProgram, Inv, Types, WithinCapacity, DroppedOnlyRetired,
       SealNeverReplaces, ShutdownJustified, sealed
  <2>4. ASSUME NEW e \in ExecutionId, OutputUnlocked(e) \/ OutputRelocked(e)
        PROVE  Inv'
    BY <2>4 DEF OutputUnlocked, OutputRelocked, Inv, Types, WithinCapacity,
       DroppedOnlyRetired, SealNeverReplaces, ShutdownJustified, sealed
  <2>5. CASE RequestShutdown
    BY <2>5 DEF RequestShutdown, Inv, Types, WithinCapacity, DroppedOnlyRetired,
       SealNeverReplaces, ShutdownJustified, sealed
  <2>6. CASE StopServer
    <3>1. one_off_execution \in executions \cap finished
      BY <2>6 DEF StopServer, Inv, ShutdownJustified
    <3>2. server' = "drained" => retirement_acks[one_off_execution] = mpc_nodes
      BY <2>6, <3>1, AllParties DEF StopServer, RetirementComplete, Inv, Types
    <3>3. ShutdownJustified'
      BY <2>6, <3>1, <3>2 DEF StopServer, ShutdownJustified
    <3> QED
      BY <2>6, <3>3 DEF StopServer, Inv, Types, WithinCapacity, DroppedOnlyRetired,
         SealNeverReplaces, sealed
  <2>7. CASE UNCHANGED vars
    BY <2>7 DEF vars, Inv, Types, WithinCapacity, DroppedOnlyRetired,
       SealNeverReplaces, ShutdownJustified, sealed
  <2> QED
    BY <2>1, <2>2, <2>3, <2>4, <2>5, <2>6, <2>7 DEF Next
<1> QED
  BY <1>1, <1>2, PTL DEF Spec

\* register_execution never exceeds the capacity, however large it is.
THEOREM CapacityKept == Spec => []WithinCapacity
BY InductiveInvariant, PTL DEF Inv

\* No execution loses its protocol state without a quorum of n - t parties, and
\* the one of a one-off coordinator never does (register_execution, seal).
THEOREM OnlyRetiredDropped == Spec => []DroppedOnlyRetired
BY InductiveInvariant, PTL DEF Inv

\* Compacting an execution never overwrites a tombstone (seal).
THEOREM TombstonesKept == Spec => []SealNeverReplaces
BY InductiveInvariant, PTL DEF Inv

\* A one-off coordinator stops only after its program finished, and before the
\* grace period ends only with all acknowledgements (start_coord_one_off).
THEOREM ShutdownOnlyJustified == Spec => []ShutdownJustified
BY InductiveInvariant, PTL DEF Inv

-----------------------------------------------------------------------------
Distinct(queue) == \A i, k \in DOMAIN queue : queue[i] = queue[k] => i = k

\* The positions of the other executions.
Others(queue, e) == {k \in DOMAIN queue : queue[k] # e}

\* From a queue without repetitions acknowledge takes one entry out, and the
\* ones behind it move up.
LEMMA RetainOne ==
  ASSUME NEW queue \in Seq(ExecutionId), Distinct(queue), NEW p \in DOMAIN queue
  PROVE  Retain(queue, Others(queue, queue[p])) =
           [j \in 1..(Len(queue) - 1) |-> queue[IF j < p THEN j ELSE j + 1]]
<1> DEFINE N == Len(queue)
           kept == Others(queue, queue[p])
           Rank(k) == Cardinality({i \in kept : i <= k})
<1>1. N \in Nat /\ DOMAIN queue = 1..N /\ p \in 1..N
  OBVIOUS
<1>2. kept = (1..N) \ {p}
  BY <1>1 DEF Distinct, Others
<1>3. \A k \in Nat : IsFiniteSet(1..k) /\ Cardinality(1..k) = k
  BY FS_Interval
<1>4. Cardinality(kept) = N - 1
  BY <1>1, <1>2, <1>3, FS_RemoveElement, ZenonT(30)
<1> HIDE DEF kept
<1>5. \A k \in kept : Rank(k) = IF k < p THEN k ELSE k - 1
  <2> SUFFICES ASSUME NEW k \in kept PROVE Rank(k) = IF k < p THEN k ELSE k - 1
    OBVIOUS
  <2>1. k \in 1..N /\ k # p
    BY <1>2
  <2>4. IsFiniteSet(1..k) /\ Cardinality(1..k) = k
    BY <1>1, <1>3, <2>1
  <2>2. CASE k < p
    <3>1. {i \in kept : i <= k} = 1..k
      BY <1>1, <1>2, <2>1, <2>2
    <3>2. Rank(k) = Cardinality(1..k)
      BY <3>1, Zenon
    <3> QED
      BY <2>2, <2>4, <3>2
  <2>3. CASE k > p
    <3>1. {i \in kept : i <= k} = (1..k) \ {p} /\ p \in 1..k
      BY <1>1, <1>2, <2>1, <2>3
    <3>2. Cardinality((1..k) \ {p}) = Cardinality(1..k) - 1
      BY <2>4, <3>1, FS_RemoveElement, Zenon
    <3>3. Rank(k) = Cardinality((1..k) \ {p})
      BY <3>1, Zenon
    <3> QED
      BY <1>1, <2>1, <2>3, <2>4, <3>2, <3>3
  <2> QED
    BY <1>1, <2>1, <2>2, <2>3
<1> HIDE DEF Rank
<1>6. \A j \in 1..(N - 1) : (CHOOSE k \in kept : Rank(k) = j) = IF j < p THEN j ELSE j + 1
  <2> SUFFICES ASSUME NEW j \in 1..(N - 1)
               PROVE  (CHOOSE k \in kept : Rank(k) = j) = IF j < p THEN j ELSE j + 1
    OBVIOUS
  <2> DEFINE at == IF j < p THEN j ELSE j + 1
  <2>1. at \in kept /\ Rank(at) = j
    BY <1>1, <1>2, <1>5
  <2>2. \A k \in kept : Rank(k) = j => k = at
    BY <1>1, <1>2, <1>5
  <2> HIDE DEF at
  <2>3. (CHOOSE k \in kept : Rank(k) = j) = at
    BY <2>1, <2>2
  <2> QED
    BY <2>3 DEF at
<1>7. Retain(queue, kept) =
        [j \in 1..(N - 1) |-> queue[CHOOSE k \in kept : Rank(k) = j]]
  BY <1>4 DEF Retain, Rank
<1> QED
  BY <1>6, <1>7, Zenon DEF kept

\* The queue has every member of a set, once.
Lists(queue, S) ==
  /\ queue \in Seq(ExecutionId)
  /\ Distinct(queue)
  /\ {queue[k] : k \in 1..Len(queue)} = S

Queue == Lists(order, sealed) /\ Len(order) <= MAX_RETIRED_EXECUTIONS

\* Entries taken by distinct positions of a queue without repetitions.
LEMMA Reindexed ==
  ASSUME NEW queue \in Seq(ExecutionId), Distinct(queue), NEW N \in Nat,
         NEW at \in [1..N -> DOMAIN queue],
         \A i, k \in 1..N : at[i] = at[k] => i = k
  PROVE  LET q == [j \in 1..N |-> queue[at[j]]]
         IN  q \in Seq(ExecutionId) /\ Distinct(q) /\ Len(q) = N
<1> DEFINE q == [j \in 1..N |-> queue[at[j]]]
<1>1. q \in Seq(ExecutionId) /\ Len(q) = N
  OBVIOUS
<1>2. Distinct(q)
  BY DEF Distinct
<1> QED
  BY <1>1, <1>2

\* Appending an execution that is not in the queue.
LEMMA Appended ==
  ASSUME Lists(order, sealed), NEW e \in ExecutionId \ sealed
  PROVE  /\ Lists(Append(order, e), sealed \cup {e})
         /\ Len(Append(order, e)) = Len(order) + 1
         /\ Append(order, e)[Len(order) + 1] = e
         /\ \A k \in 1..Len(order) : Append(order, e)[k] = order[k]
<1> DEFINE q == Append(order, e)
           N == Len(order)
<1>1. order \in Seq(ExecutionId) /\ N \in Nat /\ DOMAIN order = 1..N
  BY DEF Lists
<1>2. /\ q \in Seq(ExecutionId) /\ Len(q) = N + 1 /\ DOMAIN q = 1..(N + 1)
      /\ q[N + 1] = e
      /\ \A k \in 1..N : q[k] = order[k]
  BY <1>1
<1>3. \A k \in 1..N : order[k] \in sealed
  BY DEF Lists
<1>4. 1..(N + 1) = 1..N \cup {N + 1}
  BY <1>1
<1> HIDE DEF q, N
<1>5. Distinct(order) /\ {order[k] : k \in 1..N} = sealed
  BY DEF Lists, N
<1>6. Distinct(q)
  BY <1>1, <1>2, <1>3, <1>4, <1>5 DEF Distinct
<1>7. {q[k] : k \in 1..(N + 1)} = sealed \cup {e}
  BY <1>2, <1>4, <1>5
<1> QED
  BY <1>2, <1>6, <1>7 DEF Lists, q, N

\* seal queues the execution; it forgets at most the one at the front of a full
\* queue.
LEMMA SealQueue ==
  ASSUME Queue, NEW e \in ExecutionId, NEW parties, seal(e, parties)
  PROVE  /\ Queue'
         /\ e \in DOMAIN acks'
         /\ \A x \in sealed \ DOMAIN acks' :
              Len(order) = MAX_RETIRED_EXECUTIONS /\ Head(order) = x
<1> DEFINE N == Len(order)
<1>1. /\ order \in Seq(ExecutionId) /\ N \in Nat /\ N <= MAX_RETIRED_EXECUTIONS
      /\ MAX_RETIRED_EXECUTIONS \in Nat \ {0} /\ DOMAIN order = 1..N
      /\ \A k \in 1..N : order[k] \in sealed
  BY RegistryAssumption DEF Queue, Lists
<1>2. CASE e \in sealed
  <2>1. max(N - MAX_RETIRED_EXECUTIONS, 0) = 0
    <3> HIDE DEF N
    <3> QED
      BY <1>1 DEF max
  <2>2. order' = SubSeq(order, 1, N) /\ DOMAIN acks' = sealed
    BY <1>2, <2>1 DEF seal
  <2>3. order' = order
    BY <1>1, <2>2
  <2> QED
    BY <1>2, <2>2, <2>3, Zenon DEF Queue, sealed
<1>3. CASE e \notin sealed /\ N < MAX_RETIRED_EXECUTIONS
  <2> DEFINE q == Append(order, e)
  <2>1. /\ Lists(q, sealed \cup {e}) /\ Len(q) = N + 1
    BY <1>3, Appended DEF Queue
  <2>2. max(Len(q) - MAX_RETIRED_EXECUTIONS, 0) = 0
    BY <1>1, <1>3, <2>1 DEF max
  <2>3. order' = SubSeq(q, 1, Len(q)) /\ DOMAIN acks' = sealed \cup {e}
    BY <1>3, <2>2 DEF seal
  <2>4. order' = q
    BY <2>1, <2>3 DEF Lists
  <2> HIDE DEF q, N
  <2>5. Len(q) <= MAX_RETIRED_EXECUTIONS
    BY <1>1, <1>3, <2>1
  <2> QED
    BY <2>1, <2>3, <2>4, <2>5, Zenon DEF Queue, sealed
<1>4. CASE e \notin sealed /\ N = MAX_RETIRED_EXECUTIONS
  <2> DEFINE q == Append(order, e)
  <2>1. /\ Lists(q, sealed \cup {e}) /\ Len(q) = N + 1
        /\ \A k \in 1..N : q[k] = order[k]
    BY <1>4, Appended DEF Queue
  <2>2. max(Len(q) - MAX_RETIRED_EXECUTIONS, 0) = 1
    BY <1>1, <1>4, <2>1 DEF max
  <2>3. /\ order' = SubSeq(q, 2, Len(q))
        /\ DOMAIN acks' = (sealed \cup {e}) \ {q[k] : k \in 1..1}
    <3> DEFINE excess == max(Len(q) - MAX_RETIRED_EXECUTIONS, 0)
    <3>1. /\ order' = SubSeq(q, excess + 1, Len(q))
          /\ DOMAIN acks' = (sealed \cup {e}) \ {q[k] : k \in 1..excess}
      BY <1>4, Zenon DEF seal
    <3> HIDE DEF excess, q
    <3>2. excess = 1 /\ excess + 1 = 2
      BY <2>2 DEF excess
    <3> QED
      BY <3>1, <3>2
  <2>4. q[1] = order[1] /\ order[1] = Head(order) /\ order[1] \in sealed
    BY <1>1, <1>4, <2>1
  <2>5. DOMAIN acks' = (sealed \cup {e}) \ {order[1]}
    BY <2>3, <2>4
  <2> HIDE DEF q
  <2>6. q \in Seq(ExecutionId) /\ Distinct(q) /\ {q[k] : k \in 1..(N + 1)} = sealed \cup {e}
    BY <2>1, Zenon DEF Lists
  <2> DEFINE at == [j \in 1..N |-> j + 1]
  <2>7. order' = [j \in 1..N |-> q[at[j]]]
    BY <1>1, <2>1, <2>3, <2>6
  <2>8. /\ at \in [1..N -> DOMAIN q]
        /\ \A i, k \in 1..N : at[i] = at[k] => i = k
    BY <1>1, <2>1, <2>6
  <2>9. order' \in Seq(ExecutionId) /\ Distinct(order') /\ Len(order') = N
    <3> DEFINE moved == [j \in 1..N |-> q[at[j]]]
    <3> HIDE DEF at, N
    <3>1. N \in Nat
      BY <1>1
    <3>2. moved \in Seq(ExecutionId) /\ Distinct(moved) /\ Len(moved) = N
      BY <2>6, <2>8, <3>1, Reindexed, ZenonT(30)
    <3> QED
      BY <2>7, <3>2, Zenon
  <2>10. {order'[j] : j \in 1..N} = {q[k] : k \in 1..(N + 1)} \ {q[1]}
    <3>1. \A k \in 1..(N + 1) : k # 1 => q[k] # q[1]
      BY <1>1, <2>1, <2>6 DEF Distinct
    <3>2. \A k \in 1..(N + 1) : k # 1 => k - 1 \in 1..N /\ order'[k - 1] = q[k]
      BY <1>1, <2>7
    <3>3. \A j \in 1..N : j + 1 \in 1..(N + 1) /\ j + 1 # 1 /\ order'[j] = q[j + 1]
      BY <1>1, <2>7
    <3> QED
      BY <3>1, <3>2, <3>3
  <2> QED
    BY <1>1, <1>4, <2>4, <2>5, <2>6, <2>9, <2>10, Zenon DEF Queue, Lists, sealed
<1> HIDE DEF N
<1> QED
  BY <1>1, <1>2, <1>3, <1>4

\* acknowledge forgets the execution only when every party is in its tombstone,
\* and then takes it out of the queue.
LEMMA AcknowledgeQueue ==
  ASSUME Queue, NEW e \in sealed, NEW p \in mpc_nodes, acknowledge(e, p)
  PROVE  /\ Queue'
         /\ \A x \in sealed \ DOMAIN acks' : x = e /\ Cardinality(acks[e] \cup {p}) >= n
<1> DEFINE N == Len(order)
<1>1. /\ order \in Seq(ExecutionId) /\ N \in Nat /\ N <= MAX_RETIRED_EXECUTIONS
      /\ DOMAIN order = 1..N /\ Distinct(order)
      /\ {order[k] : k \in 1..N} = sealed
  BY DEF Queue, Lists
<1>2. CASE ~(Cardinality(acks[e] \cup {p}) >= n)
  <2>1. order' = order /\ DOMAIN acks' = sealed
    BY <1>2 DEF acknowledge, sealed
  <2> QED
    BY <2>1 DEF Queue, sealed
<1>3. CASE Cardinality(acks[e] \cup {p}) >= n
  <2>1. order' = Retain(order, Others(order, e)) /\ DOMAIN acks' = sealed \ {e}
    BY <1>3 DEF acknowledge, Others
  <2>2. PICK m \in 1..N : order[m] = e
    BY <1>1, ZenonT(30)
  <2> DEFINE at == [j \in 1..(N - 1) |-> IF j < m THEN j ELSE j + 1]
  <2>3. order' = [j \in 1..(N - 1) |-> order[IF j < m THEN j ELSE j + 1]]
    BY <1>1, <2>1, <2>2, RetainOne
  <2>4. order' = [j \in 1..(N - 1) |-> order[at[j]]]
    BY <2>3
  <2>5. /\ at \in [1..(N - 1) -> DOMAIN order]
        /\ \A i, k \in 1..(N - 1) : at[i] = at[k] => i = k
        /\ N - 1 \in Nat
    BY <1>1, <2>2
  <2>6. order' \in Seq(ExecutionId) /\ Distinct(order') /\ Len(order') = N - 1
    BY <1>1, <2>4, <2>5, Reindexed, Zenon
  <2>7. {order'[j] : j \in 1..(N - 1)} = sealed \ {e}
    <3>1. \A k \in 1..N : k # m => order[k] # e
      BY <1>1, <2>2 DEF Distinct
    <3>2. \A k \in 1..N : k # m =>
            \E j \in 1..(N - 1) : order'[j] = order[k]
      <4> SUFFICES ASSUME NEW k \in 1..N, k # m
                   PROVE  \E j \in 1..(N - 1) : order'[j] = order[k]
        OBVIOUS
      <4>1. CASE k < m
        <5>1. k \in 1..(N - 1) /\ order'[k] = order[k]
          BY <1>1, <2>2, <2>3, <4>1
        <5> QED
          BY <5>1
      <4>2. CASE k > m
        <5>1. k - 1 \in 1..(N - 1) /\ order'[k - 1] = order[k]
          BY <1>1, <2>2, <2>3, <4>2
        <5> QED
          BY <5>1
      <4> QED
        BY <1>1, <2>2, <4>1, <4>2
    <3>3. \A j \in 1..(N - 1) : \E k \in 1..N : k # m /\ order'[j] = order[k]
      BY <1>1, <2>2, <2>3
    <3>4. \A j \in 1..(N - 1) : order'[j] \in sealed \ {e}
      BY <1>1, <3>1, <3>3
    <3>5. \A x \in sealed \ {e} : \E j \in 1..(N - 1) : order'[j] = x
      BY <1>1, <2>2, <3>2, ZenonT(30)
    <3> QED
      BY <3>4, <3>5
  <2> QED
    BY <1>1, <1>3, <2>1, <2>6, <2>7, RegistryAssumption DEF Queue, Lists, sealed
<1> QED
  BY <1>2, <1>3

\* The steps that touch the tombstones.
LEMMA TombstoneStep ==
  ASSUME Inv, [Next]_vars
  PROVE  \/ \E e \in ExecutionId, valid \in BOOLEAN :
              RegisterExecution(e, valid)
         \/ \E p \in mpc_nodes, e \in ExecutionId : RetireExecution(p, e)
         \/ UNCHANGED <<executions, retirement_acks, acks, order>>
BY DEF Next, FinishProgram, OutputUnlocked, OutputRelocked, RequestShutdown, StopServer, vars

LEMMA QueueStep == Inv /\ Queue /\ [Next]_vars => Queue'
<1> SUFFICES ASSUME Inv, Queue, [Next]_vars PROVE Queue'
  OBVIOUS
<1>1. CASE UNCHANGED <<acks, order>>
  BY <1>1 DEF Queue, sealed
<1>2. ASSUME NEW victim \in Evictable, seal(victim, retirement_acks[victim])
      PROVE  Queue'
  BY <1>2, SealQueue DEF Evictable, Inv, Types
<1>3. ASSUME NEW e \in sealed, NEW p \in mpc_nodes, acknowledge(e, p)
      PROVE  Queue'
  BY <1>3, AcknowledgeQueue, Zenon
<1> QED
  BY <1>1, <1>2, <1>3, TombstoneStep, Zenon
     DEF RegisterExecution, register_execution, RetireExecution, retire_execution

LEMMA QueueInvariant == Spec => []Queue
<1>1. Init => Queue
  BY RegistryAssumption DEF Init, Queue, Lists, Distinct, sealed
<1> QED
  BY <1>1, QueueStep, InductiveInvariant, PTL DEF Spec

\* The queue and the map of RetiredExecutions agree, for any bound on tombstones:
\* seal and acknowledge leave no tombstone that the queue cannot drop, and no
\* entry in the queue without a tombstone.
THEOREM QueueExact == Spec => []TombstonesQueued
<1>1. Queue => TombstonesQueued
  <2> SUFFICES ASSUME Queue PROVE TombstonesQueued
    OBVIOUS
  <2> DEFINE N == Len(order)
  <2>1. /\ order \in Seq(ExecutionId) /\ N \in Nat /\ Distinct(order)
        /\ {order[k] : k \in 1..N} = sealed /\ DOMAIN order = 1..N
    BY DEF Queue, Lists
  <2>2. order \in Surjection(1..N, sealed) /\ order \in Injection(1..N, sealed)
    BY <2>1 DEF Surjection, Injection, IsInjective, Distinct
  <2>3. IsFiniteSet(1..N) /\ Cardinality(1..N) = N
    BY <2>1, FS_Interval, SMTT(30)
  <2>4. Cardinality(sealed) = N
    BY <2>2, <2>3, FS_Surjection
  <2> QED
    BY <2>1, <2>4 DEF Queue, TombstonesQueued
<1> QED
  BY <1>1, QueueInvariant, PTL

\* Every variable of the registry keeps its type.
THEOREM TypeCorrect == Spec => []TypeOK
<1> DEFINE Rest == delivering \subseteq ExecutionId /\ shutdown_notify \in BOOLEAN
<1>1. Init => Rest
  BY DEF Init
<1>2. Rest /\ [Next]_vars => Rest'
  BY Zenon DEF Next, RegisterExecution, RetireExecution, FinishProgram, OutputUnlocked,
     OutputRelocked, RequestShutdown, StopServer, vars
<1>3. Inv /\ Queue /\ Rest => TypeOK
  BY DEF Inv, Types, Queue, Lists, TypeOK
<1> HIDE DEF Rest
<1> QED
  BY <1>1, <1>2, <1>3, InductiveInvariant, QueueInvariant, PTL DEF Spec

\* An execution that a retirement quorum is done with is remembered as retired
\* until the last party acknowledges or until a full queue drops it from its
\* front, for any capacity and any bound (retire_execution, seal, acknowledge).
THEOREM RememberedUntilForgotten == Spec => RetiredUntilForgotten
<1> DEFINE A == \A e \in ExecutionId :
       is_retired(e) /\ ~is_retired(e)' =>
         /\ e \in sealed
         /\ \/ /\ executions' = executions
               /\ \E p \in mpc_nodes : acks[e] \cup {p} = mpc_nodes
            \/ Len(order) = MAX_RETIRED_EXECUTIONS /\ Head(order) = e
<1>1. Inv /\ Queue /\ [Next]_vars => A
  <2> SUFFICES ASSUME Inv, Queue, [Next]_vars, NEW x \in ExecutionId,
                      is_retired(x), ~is_retired(x)'
               PROVE  /\ x \in sealed
                      /\ \/ /\ executions' = executions
                            /\ \E p \in mpc_nodes : acks[x] \cup {p} = mpc_nodes
                         \/ Len(order) = MAX_RETIRED_EXECUTIONS /\ Head(order) = x
    OBVIOUS
  <2>1. CASE UNCHANGED <<executions, retirement_acks, acks, order>>
    BY <2>1 DEF is_retired, sealed, AtRetirementQuorum
  <2>2. ASSUME NEW e \in ExecutionId \ executions, Admit({}, {e}), UNCHANGED <<acks, order>>
        PROVE  FALSE
    <3>1. /\ executions \subseteq executions'
          /\ \A y \in ExecutionId \ {e} : retirement_acks'[y] = retirement_acks[y]
      BY <2>2 DEF Admit
    <3> QED
      BY <2>2, <3>1 DEF is_retired, sealed, AtRetirementQuorum
  <2>3. ASSUME NEW e \in ExecutionId \ executions, NEW valid \in BOOLEAN,
               NEW victim \in Evictable, seal(victim, retirement_acks[victim]),
               Admit({victim}, IF valid THEN {e} ELSE {})
        PROVE  x \in sealed /\ Len(order) = MAX_RETIRED_EXECUTIONS /\ Head(order) = x
    <3>1. victim \in ExecutionId
      BY DEF Evictable, Inv, Types
    <3>2. /\ victim \in DOMAIN acks'
          /\ \A y \in sealed \ DOMAIN acks' :
               Len(order) = MAX_RETIRED_EXECUTIONS /\ Head(order) = y
      BY <2>3, <3>1, SealQueue, ZenonT(30)
    <3>3. /\ executions \ {victim} \subseteq executions'
          /\ \A y \in ExecutionId \ {e, victim} : retirement_acks'[y] = retirement_acks[y]
      BY <2>3 DEF Admit
    <3>4. x \notin DOMAIN acks' /\ x # victim
      BY <3>2 DEF is_retired, sealed
    <3>5. x \in sealed
      BY <2>3, <3>3, <3>4 DEF is_retired, AtRetirementQuorum
    <3> QED
      BY <3>2, <3>4, <3>5
  <2>4. ASSUME NEW e \in sealed, NEW p \in mpc_nodes, acknowledge(e, p),
               UNCHANGED <<executions, retirement_acks>>
        PROVE  x \in sealed /\ acks[x] \cup {p} = mpc_nodes
    <3>1. x \in sealed \ DOMAIN acks'
      BY <2>4, ZenonT(30) DEF is_retired, sealed, AtRetirementQuorum
    <3>2. x = e /\ Cardinality(acks[e] \cup {p}) >= n
      BY <2>4, <3>1, AcknowledgeQueue
    <3>3. acks[e] \cup {p} \in SUBSET mpc_nodes
      BY DEF Inv, Types
    <3> QED
      BY <3>1, <3>2, <3>3, AllParties, ZenonT(30)
  <2>5. ASSUME NEW e \in executions, NEW p \in mpc_nodes,
               retirement_acks' = [retirement_acks EXCEPT ![e] = @ \cup {p}],
               UNCHANGED <<executions, acks>>
        PROVE  FALSE
    <3>1. x \in executions /\ Cardinality(retirement_acks[x]) >= retirement_quorum(n, t)
      BY <2>5 DEF is_retired, sealed, AtRetirementQuorum
    <3>2. /\ retirement_acks[x] \in SUBSET mpc_nodes
          /\ retirement_acks \in [ExecutionId -> SUBSET mpc_nodes]
      BY DEF Inv, Types
    <3>3. Cardinality(retirement_acks[x] \cup {p}) >= retirement_quorum(n, t)
      BY <3>1, <3>2, MoreAcks
    <3>4. retirement_acks'[x] \in {retirement_acks[x], retirement_acks[x] \cup {p}}
      BY <2>5, <3>2
    <3>5. Cardinality(retirement_acks'[x]) >= retirement_quorum(n, t)
      BY <3>1, <3>3, <3>4, Zenon
    <3> QED
      BY <2>5, <3>1, <3>5 DEF is_retired, AtRetirementQuorum
  <2>6. ASSUME NEW e \in ExecutionId, NEW valid \in BOOLEAN, RegisterExecution(e, valid)
        PROVE  x \in sealed /\ Len(order) = MAX_RETIRED_EXECUTIONS /\ Head(order) = x
    BY <2>2, <2>3, <2>6, Zenon DEF RegisterExecution, register_execution
  <2>7. ASSUME NEW p \in mpc_nodes, NEW e \in ExecutionId, RetireExecution(p, e)
        PROVE  /\ x \in sealed /\ executions' = executions
               /\ acks[x] \cup {p} = mpc_nodes
    BY <2>4, <2>5, <2>7 DEF RetireExecution, retire_execution
  <2> QED
    BY <2>1, <2>6, <2>7, TombstoneStep
<1> QED
  BY <1>1, InductiveInvariant, QueueInvariant, PTL DEF Spec, RetiredUntilForgotten
================================================================================
