------------------------- MODULE NodeMaskSharesProofs -------------------------
(***************************************************************************)
(* Who gets a mask share, and that no complete request stays pending, for   *)
(* any indices, clients, requests and batches.                              *)
(*                                                                         *)
(* SharesOnlyToReserver is inductive together with the types and with every *)
(* pending request standing under the name of its client.  PendingNotReady  *)
(* follows from the same: what completes a request is a reservation or a    *)
(* share of an index of its client, so the batch touches the client.        *)
(*                                                                         *)
(* The client's steps are steps of the node or leave it alone, so both hold *)
(* with it.  That it only fails with a reason follows from what its streams *)
(* may hold at each point of a call, and that it never waits just for       *)
(* faulty nodes from what a call that goes on has taken so far (GoesOn).    *)
(***************************************************************************)
EXTENDS MaskReconstruction, FiniteSetTheorems, TLAPS

\* What a request that is answered asks for belongs to its client.
LEMMA AnsweredOwned ==
  ASSUME NEW r \in Requests, NEW owners, NEW shares, Answered(r, owners, shares),
         NEW i \in Indices(r)
  PROVE  i \in Index /\ owners[i] = r.client
<1>1. r.client # None
  BY NodeAssumption
<1> QED
  BY <1>1 DEF Answered, Owner

\* The operations for a single client or share are batches too.
LEMMA BatchSteps ==
  ASSUME Next
  PROVE  \/ \E batch \in Reservations : add_assigned_reserved_indices(batch)
         \/ \E batch \in SUBSET Index : add_mask_shares(batch)
         \/ \E r \in Requests : receive_assigned_mask_shares(r)
         \/ register_execution
         \/ retire_execution
<1>1. ASSUME NEW c \in Client, NEW indices \in SUBSET Index, add_reserved_indices(c, indices)
      PROVE  \E batch \in Reservations : add_assigned_reserved_indices(batch)
  BY <1>1 DEF add_reserved_indices
<1>2. ASSUME NEW i \in Index, add_mask_share(i)
      PROVE  \E batch \in SUBSET Index : add_mask_shares(batch)
  BY <1>2 DEF add_mask_share
<1> QED
  BY <1>1, <1>2 DEF Next

\* The pending requests of clients, under their own name.
Pending ==
  \A c \in Client : assigned_sinks[c] # None => assigned_sinks[c].client = c

Safe == TypeOK /\ Pending /\ SharesOnlyToReserver

\* The second phase of a batch keeps types, names and the right receivers.
LEMMA ServeSafe ==
  ASSUME Safe, NEW touched \in SUBSET Client, NEW shares,
         index_to_client' \in [Index -> Client \cup {None}],
         \A i \in Index : index_to_client[i] # None => index_to_client'[i] = index_to_client[i],
         ServeTouched(touched, index_to_client', shares)
  PROVE  /\ assigned_sinks' \in [Client -> Requests \cup {None}]
         /\ sent' \in [Client -> SUBSET Index]
         /\ dropped' \subseteq Requests
         /\ Pending'
         /\ SharesOnlyToReserver'
<1> DEFINE pending == {c \in touched : assigned_sinks[c] # None}
           ready == {c \in pending : Answered(assigned_sinks[c], index_to_client', shares)}
           refused == {c \in pending : Refused(assigned_sinks[c], index_to_client', shares)}
           Without(gone) == [c \in Client |-> IF c \in gone THEN None ELSE assigned_sinks[c]]
<1>1. \A c \in pending : assigned_sinks[c] \in Requests /\ assigned_sinks[c].client = c
  BY DEF Safe, TypeOK, Pending
<1>2. \A c \in ready : \A i \in Indices(assigned_sinks[c]) : i \in Index /\ index_to_client'[i] = c
  BY <1>1, AnsweredOwned
<1>3. \A c \in Client : \A i \in sent[c] : i \in Index /\ index_to_client'[i] = c
  BY NodeAssumption DEF Safe, SharesOnlyToReserver, TypeOK
<1>4. CASE refused = {}
  <2>1. /\ assigned_sinks' = Without(ready)
        /\ sent' = [c \in Client |-> IF c \in ready
                     THEN sent[c] \cup Indices(assigned_sinks[c]) ELSE sent[c]]
        /\ dropped' = dropped
    BY <1>4 DEF ServeTouched
  <2>2. Pending' /\ assigned_sinks' \in [Client -> Requests \cup {None}]
    <3> HIDE DEF ready
    <3> QED
      BY <2>1 DEF Safe, TypeOK, Pending
  <2>3. SharesOnlyToReserver' /\ sent' \in [Client -> SUBSET Index]
    <3> HIDE DEF ready
    <3>1. \A c \in Client : \A i \in sent'[c] : i \in Index /\ index_to_client'[i] = c
      BY <1>2, <1>3, <2>1
    <3>2. sent' \in [Client -> SUBSET Index]
      BY <2>1, <3>1
    <3> QED
      BY <3>1, <3>2 DEF SharesOnlyToReserver
  <2> QED
    BY <2>1, <2>2, <2>3 DEF Safe, TypeOK
<1>5. CASE refused # {}
  <2>1. PICK c \in refused, before \in SUBSET ready :
          /\ assigned_sinks' = Without(before \cup {c})
          /\ dropped' = dropped \cup {assigned_sinks[x] : x \in before \cup {c}}
          /\ sent' = sent
    BY <1>5 DEF ServeTouched
  <2>2. before \cup {c} \subseteq pending
    OBVIOUS
  <2> HIDE DEF pending, ready, refused
  <2>3. Pending' /\ assigned_sinks' \in [Client -> Requests \cup {None}]
    BY <2>1 DEF Safe, TypeOK, Pending
  <2>4. dropped' \subseteq Requests
    BY <1>1, <2>1, <2>2 DEF Safe, TypeOK
  <2>5. SharesOnlyToReserver' /\ sent' \in [Client -> SUBSET Index]
    BY <1>3, <2>1 DEF SharesOnlyToReserver, Safe, TypeOK
  <2> QED
    BY <2>3, <2>4, <2>5
<1> QED
  BY <1>4, <1>5

\* Every operation keeps types, names and the right receivers.
LEMMA SafeStep ==
  ASSUME Safe, [Next]_vars
  PROVE  Safe'
<1> USE NodeAssumption
<1>1. ASSUME NEW batch \in Reservations, add_assigned_reserved_indices(batch)
      PROVE  Safe'
  <2>1. index_to_client' \in [Index -> Client \cup {None}]
    BY <1>1 DEF add_assigned_reserved_indices, Safe, TypeOK
  <2>2. \A i \in Index : index_to_client[i] # None => index_to_client'[i] = index_to_client[i]
    BY <1>1 DEF add_assigned_reserved_indices
  <2>3. {batch[i] : i \in DOMAIN batch} \in SUBSET Client
    OBVIOUS
  <2> QED
    BY <1>1, <2>1, <2>2, <2>3, ServeSafe, Zenon DEF add_assigned_reserved_indices, Safe, TypeOK
<1>2. ASSUME NEW batch \in SUBSET Index, add_mask_shares(batch)
      PROVE  Safe'
  <2>1. index_to_client' = index_to_client /\ index_to_client \in [Index -> Client \cup {None}]
    BY <1>2 DEF add_mask_shares, Safe, TypeOK
  <2>2. {index_to_client[i] : i \in batch} \ {None} \in SUBSET Client
    BY <2>1
  <2>3. ServeTouched({index_to_client[i] : i \in batch} \ {None}, index_to_client', mask_shares')
    BY <1>2, <2>1 DEF add_mask_shares
  <2>4. /\ registered' = registered
        /\ mask_shares' \subseteq Index
    BY <1>2 DEF add_mask_shares, Safe, TypeOK
  <2> QED
    BY <2>1, <2>2, <2>3, <2>4, ServeSafe, Zenon DEF Safe, TypeOK
<1>3. ASSUME NEW r \in Requests, receive_assigned_mask_shares(r)
      PROVE  Safe'
  <2>1. r.client \in Client
    OBVIOUS
  <2>2. UNCHANGED <<registered, index_to_client, mask_shares, dropped>>
    BY <1>3 DEF receive_assigned_mask_shares
  <2>3. Pending' /\ assigned_sinks' \in [Client -> Requests \cup {None}]
    BY <1>3, <2>1 DEF receive_assigned_mask_shares, Safe, TypeOK, Pending
  <2>4. SharesOnlyToReserver' /\ sent' \in [Client -> SUBSET Index]
    <3>1. CASE Answered(r, index_to_client, mask_shares)
      <4>1. sent' = [sent EXCEPT ![r.client] = sent[r.client] \cup Indices(r)]
        BY <1>3, <3>1 DEF receive_assigned_mask_shares
      <4>2. \A i \in Indices(r) : i \in Index /\ index_to_client[i] = r.client
        BY <3>1, AnsweredOwned
      <4>3. sent' \in [Client -> SUBSET Index]
        BY <2>1, <4>1, <4>2 DEF Safe, TypeOK
      <4>4. SharesOnlyToReserver'
        BY <2>1, <2>2, <4>1, <4>2 DEF Safe, TypeOK, SharesOnlyToReserver
      <4> QED
        BY <4>3, <4>4
    <3>2. CASE ~Answered(r, index_to_client, mask_shares)
      BY <1>3, <2>2, <3>2 DEF receive_assigned_mask_shares, Safe, TypeOK, SharesOnlyToReserver
    <3> QED
      BY <3>1, <3>2
  <2> QED
    BY <2>2, <2>3, <2>4 DEF Safe, TypeOK
<1>4. CASE register_execution
  BY <1>4 DEF register_execution, Safe, TypeOK, Pending, SharesOnlyToReserver
<1>5. CASE retire_execution
  BY <1>5, Zenon DEF retire_execution, Safe, TypeOK, Pending, SharesOnlyToReserver
<1>6. CASE UNCHANGED vars
  BY <1>6 DEF vars, Safe, TypeOK, Pending, SharesOnlyToReserver
<1> QED
  BY <1>1, <1>2, <1>3, <1>4, <1>5, <1>6, BatchSteps

\* Types, names and receivers are right in every state.
THEOREM SafeAlways == Spec => []Safe
<1>1. Init => Safe
  BY NodeAssumption, Zenon DEF Init, Safe, TypeOK, Pending, SharesOnlyToReserver
<1> QED
  BY <1>1, SafeStep, PTL DEF Spec

\* A node sends the share of a mask only to the client that reserved its index,
\* whatever clients ask for (assigned_mask_shares_for_client).
THEOREM RightReceivers == Spec => []SharesOnlyToReserver
BY SafeAlways, PTL DEF Safe

-----------------------------------------------------------------------------
\* A batch that refuses nobody leaves pending, of the requests of the clients it
\* touches, only those that are not complete; nothing is added to the others.
LEMMA ServeComplete ==
  ASSUME Safe, NEW touched \in SUBSET Client, NEW owners, NEW shares,
         ServeTouched(touched, owners, shares), dropped' = {}
  PROVE  /\ dropped = {}
         /\ \A c \in Client : assigned_sinks'[c] # None =>
              /\ assigned_sinks'[c] = assigned_sinks[c]
              /\ c \in touched => ~Answered(assigned_sinks[c], owners, shares)
<1> DEFINE pending == {c \in touched : assigned_sinks[c] # None}
           ready == {c \in pending : Answered(assigned_sinks[c], owners, shares)}
           refused == {c \in pending : Refused(assigned_sinks[c], owners, shares)}
<1>1. refused = {}
  <2> SUFFICES ASSUME refused # {} PROVE FALSE
    OBVIOUS
  <2>1. PICK c \in refused, before \in SUBSET ready :
          dropped' = dropped \cup {assigned_sinks[x] : x \in before \cup {c}}
    BY DEF ServeTouched
  <2> QED
    BY <2>1
<1>2. /\ assigned_sinks' = [c \in Client |-> IF c \in ready THEN None ELSE assigned_sinks[c]]
      /\ dropped' = dropped
  BY <1>1 DEF ServeTouched
<1> QED
  BY <1>2

\* Every operation leaves only requests pending that something is missing for.
LEMMA WakeUpStep ==
  ASSUME Safe, PendingNotReady, [Next]_vars
  PROVE  PendingNotReady'
<1> USE NodeAssumption
<1>1. ASSUME NEW batch \in Reservations, add_assigned_reserved_indices(batch), dropped' = {}
      PROVE  PendingNotReady'
  <2> DEFINE touched == {batch[i] : i \in DOMAIN batch}
  <2>1. /\ dropped = {}
        /\ \A c \in Client : assigned_sinks'[c] # None =>
             /\ assigned_sinks'[c] = assigned_sinks[c]
             /\ c \in touched => ~Answered(assigned_sinks[c], index_to_client', mask_shares)
    <3>1. touched \in SUBSET Client
      OBVIOUS
    <3>2. ServeTouched(touched, index_to_client', mask_shares)
      BY <1>1 DEF add_assigned_reserved_indices
    <3> QED
      BY <1>1, <3>1, <3>2, ServeComplete
  <2>2. ASSUME NEW c \in Client \ touched, assigned_sinks[c] # None
        PROVE  ~Answered(assigned_sinks[c], index_to_client', mask_shares)
    <3>1. assigned_sinks[c].client = c
      BY <2>2 DEF Safe, Pending
    <3>2. \A i : Owner(index_to_client', i) = c => Owner(index_to_client, i) = c
      BY <1>1, <2>2 DEF add_assigned_reserved_indices, Owner
    <3>3. ~Answered(assigned_sinks[c], index_to_client, mask_shares)
      BY <2>1, <2>2 DEF PendingNotReady
    <3> QED
      BY <3>1, <3>2, <3>3 DEF Answered
  <2>3. mask_shares' = mask_shares
    BY <1>1 DEF add_assigned_reserved_indices
  <2> HIDE DEF touched
  <2> QED
    BY <2>1, <2>2, <2>3 DEF PendingNotReady
<1>2. ASSUME NEW batch \in SUBSET Index, add_mask_shares(batch), dropped' = {}
      PROVE  PendingNotReady'
  <2> DEFINE touched == {index_to_client[i] : i \in batch} \ {None}
  <2>1. index_to_client' = index_to_client
    BY <1>2 DEF add_mask_shares
  <2>2. /\ dropped = {}
        /\ \A c \in Client : assigned_sinks'[c] # None =>
             /\ assigned_sinks'[c] = assigned_sinks[c]
             /\ c \in touched => ~Answered(assigned_sinks[c], index_to_client, mask_shares')
    <3>1. touched \in SUBSET Client
      BY DEF Safe, TypeOK
    <3>2. ServeTouched(touched, index_to_client, mask_shares')
      BY <1>2 DEF add_mask_shares
    <3> QED
      BY <1>2, <3>1, <3>2, ServeComplete, Zenon
  <2>3. ASSUME NEW c \in Client \ touched, assigned_sinks[c] # None
        PROVE  ~Answered(assigned_sinks[c], index_to_client, mask_shares')
    <3>1. assigned_sinks[c].client = c
      BY <2>3 DEF Safe, Pending
    <3>2. \A i : Owner(index_to_client, i) = c /\ i \in mask_shares' => i \in mask_shares
      BY <1>2, <2>3, Zenon DEF add_mask_shares, Owner
    <3>3. ~Answered(assigned_sinks[c], index_to_client, mask_shares)
      BY <2>2, <2>3 DEF PendingNotReady
    <3> QED
      BY <3>1, <3>2, <3>3 DEF Answered
  <2> HIDE DEF touched
  <2> QED
    BY <2>1, <2>2, <2>3 DEF PendingNotReady
<1>3. ASSUME NEW r \in Requests, receive_assigned_mask_shares(r)
      PROVE  PendingNotReady'
  <2>1. UNCHANGED <<index_to_client, mask_shares, dropped>>
    BY <1>3 DEF receive_assigned_mask_shares
  <2>2. \A c \in Client : assigned_sinks'[c] # None =>
          \/ assigned_sinks'[c] = assigned_sinks[c]
          \/ /\ assigned_sinks'[c] = r
             /\ ~Answered(r, index_to_client, mask_shares)
    BY <1>3 DEF receive_assigned_mask_shares, Safe, TypeOK
  <2> QED
    BY <2>1, <2>2 DEF PendingNotReady
<1>4. CASE register_execution
  BY <1>4 DEF register_execution, PendingNotReady
<1>5. CASE retire_execution
  BY <1>5 DEF retire_execution, PendingNotReady
<1>6. CASE UNCHANGED vars
  BY <1>6 DEF vars, PendingNotReady
<1>7. dropped' # {} => PendingNotReady'
  BY DEF PendingNotReady
<1> QED
  BY <1>1, <1>2, <1>3, <1>4, <1>5, <1>6, <1>7, BatchSteps

\* As long as no batch was cut short by a refused request, a complete request
\* never stays pending: checking each touched client once per batch is enough
\* (add_assigned_reserved_indices, add_mask_shares).
THEOREM NoLostWakeUp == Spec => []PendingNotReady
<1>1. Init => PendingNotReady
  BY DEF Init, PendingNotReady
<1> QED
  BY <1>1, WakeUpStep, SafeAlways, PTL DEF Spec

-----------------------------------------------------------------------------
\* What the state of a call may be: only faulty nodes bring anything but right
\* shares, and while the call runs nobody has refused it, every node it asked has
\* a stream, and of the answers it took none was an error.
ClientInv ==
  /\ ask \in Calls \cup {None}
  /\ asked \in 0..n
  /\ stream \in [Nodes -> {"none", "open", "refused", "right", "wrong",
                           "misplaced", "unreadable", "ended"}]
  /\ joined \subseteq Nodes \cap 1..asked
  /\ result \in Errors \cup {None, "masks"}
  /\ \A m \in Nodes :
       stream[m] \in {"wrong", "misplaced", "unreadable"} => m \in Faulty
  /\ Running =>
       /\ \A m \in Nodes : stream[m] # "refused"
       /\ \A m \in 1..asked : stream[m] # "none"
       /\ \A m \in joined : stream[m] \in {"right", "wrong", "ended"}

\* The part of ResultJustified about a call that returned.
Justified ==
  /\ result \in Errors => MayFail
  /\ result = "masks" /\ ask.count > 0 => Enough(joined)

\* Streams that bring something to a running call keep its invariant.
LEMMA StreamStep ==
  ASSUME ClientInv, Justified, UNCHANGED <<ask, asked, joined, result>>,
         \/ stream' = stream
         \/ /\ Running
            /\ \E m \in Nodes : \E answer \in Answers(m) :
                 stream[m] = "open" /\ stream' = [stream EXCEPT ![m] = answer]
  PROVE  ClientInv' /\ Justified'
<1>1. CASE stream' = stream
  BY <1>1 DEF ClientInv, Justified, MayFail, Running, Enough, Shares
<1>2. ASSUME Running, NEW m \in Nodes, NEW answer \in Answers(m), stream[m] = "open",
             stream' = [stream EXCEPT ![m] = answer]
      PROVE  ClientInv' /\ Justified'
  <2>1. result' = None
    BY <1>2 DEF Running
  <2>2. Justified'
    BY <2>1, ClientAssumption DEF Justified, MayFail
  <2>3. ClientInv'
    BY <1>2 DEF ClientInv, Running, Answers
  <2> QED
    BY <2>2, <2>3
<1> QED
  BY <1>1, <1>2

\* A node step or a request over another connection does no more than that.
LEMMA HeardStep ==
  ASSUME ClientInv, Justified,
         Heard \/ \E r \in Requests : OtherRequest(r)
  PROVE  ClientInv' /\ Justified'
<1>1. \A answer \in {"right", "ended"} : answer \in Answers(served)
  BY DEF Answers
<1>2. served \in Nodes
  BY ClientAssumption
<1> QED
  BY <1>1, <1>2, StreamStep DEF Heard, OtherRequest, Waiting

\* Taking an answer.  When all answers are in and there are too few shares, the
\* streams that brought none have ended, unless a faulty node is among them.
LEMMA JoinStep ==
  ASSUME ClientInv, Justified, NEW m \in Nodes, Join(m)
  PROVE  ClientInv' /\ Justified'
<1>1. /\ UNCHANGED <<ask, asked, stream>>
      /\ joined' = joined \cup {m}
      /\ joined' \subseteq Nodes \cap 1..asked
  BY ClientAssumption DEF Join, ClientInv, Nodes
<1>2. stream[m] \in {"right", "wrong", "misplaced", "unreadable", "ended"}
  BY DEF Join, ClientInv, Nodes
<1>3. CASE stream[m] \in {"misplaced", "unreadable"}
  <2>1. m \in Faulty /\ result' \in {"range", "deserialization"}
    BY <1>3 DEF Join, Outcomes, ClientInv
  <2> QED
    BY <1>1, <1>3, <2>1, ClientAssumption
    DEF ClientInv, Justified, MayFail, Running, Errors
<1>4. CASE stream[m] \in {"right", "wrong", "ended"} /\ Enough(joined')
  <2>1. Enough(joined)'
    BY <1>1, <1>4 DEF Enough, Shares
  <2>2. result' \in recover_secret(joined')
    BY <1>4 DEF Join, Outcomes
  <2>3. result' = "failed" => \E k \in Faulty : stream'[k] = "wrong"
    BY <1>1, <2>2 DEF recover_secret, Shares, ClientInv
  <2>4. result' \in {"masks", "failed"}
    BY <2>2 DEF recover_secret
  <2>5. Justified'
    BY <2>1, <2>3, <2>4 DEF Justified, MayFail, Errors
  <2> QED
    BY <1>1, <2>4, <2>5, ClientAssumption DEF ClientInv, Running, Errors
<1>5. CASE stream[m] \in {"right", "wrong", "ended"} /\ ~Enough(joined')
  <2>1. \A k \in joined' : stream[k] \in {"right", "wrong", "ended"}
    BY <1>1, <1>5 DEF Join, Outcomes, ClientInv
  <2>2. CASE joined' # Nodes
    <3>1. result' = None
      BY <1>5, <2>2 DEF Join, Outcomes
    <3> QED
      BY <1>1, <2>1, <3>1, ClientAssumption
      DEF ClientInv, Justified, MayFail, Join, Running, Errors
  <2>3. CASE joined' = Nodes
    <3> DEFINE Ended == {k \in Nodes : stream[k] = "ended"}
    <3>1. result' = "failed"
      BY <1>5, <2>3 DEF Join, Outcomes
    <3>2. IsFiniteSet(Nodes) /\ Cardinality(Nodes) = n
      BY ClientAssumption, FS_Interval DEF Nodes
    <3>3. Nodes \ Shares(Nodes) = Ended
      BY <2>1, <2>3 DEF Shares
    <3>4. Nodes \cap Shares(Nodes) = Shares(Nodes)
      BY DEF Shares
    <3>5. Cardinality(Ended) = n - Cardinality(Shares(Nodes))
      BY <3>2, <3>3, <3>4, FS_Difference, Zenon
    <3>6. Cardinality(Shares(Nodes)) \in Nat
      BY <3>2, <3>4, FS_Intersection, FS_CardinalityType, Zenon
    <3>7. Cardinality(Shares(Nodes)) < min_shares
      BY <1>5, <2>3, <3>6, ClientAssumption DEF Enough
    <3>8. Cardinality(Ended) > n - min_shares
      BY <3>5, <3>6, <3>7, ClientAssumption
    <3>9. Justified'
      BY <1>1, <3>1, <3>8 DEF Justified, MayFail
    <3> QED
      BY <1>1, <3>1, <3>9, ClientAssumption DEF ClientInv, Running, Errors
  <2> QED
    BY <2>2, <2>3
<1> QED
  BY <1>2, <1>3, <1>4, <1>5

\* What the steps of a call do.
LEMMA ClientStep ==
  ASSUME ClientInv, Justified, [NextClient]_varsClient
  PROVE  ClientInv' /\ Justified'
<1>1. ASSUME NEW r \in Calls, receive_assigned_masks(r)
      PROVE  ClientInv' /\ Justified'
  <2>1. /\ ask' = r /\ asked' = 0 /\ stream' = [m \in Nodes |-> "none"] /\ joined' = {}
        /\ result' = CASE r.start + r.count > u64_MAX -> "overflow"
                       [] r.count = 0 -> "masks"
                       [] OTHER -> None
    BY <1>1 DEF receive_assigned_masks
  <2>2. r.start \in Nat /\ r.count \in Nat /\ u64_MAX \in Nat
    BY ClientAssumption, NodeAssumption
  <2>3. \/ result' = "overflow" /\ r.start + r.count > u64_MAX
        \/ result' = "masks" /\ r.count = 0
        \/ result' = None
    BY <2>1, <2>2
  <2>4. Justified'
    BY <2>1, <2>2, <2>3, ClientAssumption DEF Justified, MayFail, Errors
  <2>5. ClientInv'
    BY <2>1, <2>3, ClientAssumption DEF ClientInv, Errors
  <2> QED
    BY <2>4, <2>5
<1>2. CASE Subscribe
  <2>1. PICK state \in {"open", "refused", "right"} : Subscribed(asked + 1, state)
    BY <1>2 DEF Subscribe
  <2>2. asked + 1 \in Nodes /\ Running
    BY <1>2, ClientAssumption DEF Subscribe, ClientInv, Nodes
  <2>3. CASE state = "refused"
    <3>1. stream'[asked + 1] = "refused" /\ result' = "subscription"
      BY <2>1, <2>2, <2>3 DEF Subscribed, ClientInv
    <3> QED
      BY <2>1, <2>2, <2>3, <3>1, ClientAssumption
      DEF Subscribed, ClientInv, Justified, MayFail, Running, Errors, Nodes
  <2>4. CASE state # "refused"
    <3>1. result' = None
      BY <2>1, <2>4 DEF Subscribed
    <3>2. Justified'
      BY <3>1, ClientAssumption DEF Justified, MayFail
    <3>3. /\ ask' = ask /\ joined' = joined /\ asked' = asked + 1
          /\ stream' = [stream EXCEPT ![asked + 1] = state]
      BY <2>1 DEF Subscribed
    <3>4. /\ \A m \in Nodes : stream'[m] # "refused"
          /\ \A m \in 1..(asked + 1) : stream'[m] # "none"
      BY <2>2, <2>4, <3>3, ClientAssumption DEF ClientInv, Nodes
    <3>5. \A m \in joined : stream'[m] \in {"right", "wrong", "ended"}
      <4>1. asked + 1 \notin joined
        BY DEF ClientInv
      <4> QED
        BY <2>2, <3>3, <4>1 DEF ClientInv
    <3> QED
      BY <2>2, <2>4, <3>1, <3>2, <3>3, <3>4, <3>5, ClientAssumption
      DEF ClientInv, Running, Nodes
  <2> QED
    BY <2>3, <2>4
<1>3. ASSUME NEW m \in Nodes, Answer(m)
      PROVE  ClientInv' /\ Justified'
  BY <1>3, StreamStep, Zenon DEF Answer
<1>4. CASE AddReservations \/ AddShares \/ Lifecycle
  BY <1>4, HeardStep DEF AddReservations, AddShares, Lifecycle
<1>5. CASE UNCHANGED varsClient
  BY <1>5, StreamStep DEF varsClient, client
<1> QED
  BY <1>1, <1>2, <1>3, <1>4, <1>5, JoinStep, HeardStep DEF NextClient

\* A call that goes on: the answers it took were not enough and not all.
GoesOn == Running => ~Enough(joined) /\ joined # Nodes

\* An answer that is taken and is not the last one needed leaves the call waiting;
\* the streams whose answer was taken bring nothing more.
LEMMA GoesOnStep ==
  ASSUME ClientInv, GoesOn, [NextClient]_varsClient
  PROVE  GoesOn'
<1> SUFFICES ASSUME Running'
             PROVE  ~Enough(joined)' /\ joined' # Nodes
  BY DEF GoesOn
<1>1. Nodes # {} /\ min_shares \in Nat \ {0}
  BY ClientAssumption
<1>2. ASSUME NEW r \in Calls, receive_assigned_masks(r)
      PROVE  ~Enough(joined)' /\ joined' # Nodes
  <2>1. Shares(joined)' = {} /\ joined' = {}
    BY <1>2 DEF receive_assigned_masks, Shares
  <2>2. Cardinality(Shares(joined)') = 0
    BY <2>1, FS_EmptySet
  <2>3. ~(0 >= min_shares)
    BY <1>1
  <2> QED
    BY <1>1, <2>1, <2>2, <2>3 DEF Enough
<1>3. ASSUME Running, joined' = joined, \A m \in joined : stream'[m] = stream[m]
      PROVE  ~Enough(joined)' /\ joined' # Nodes
  <2>1. Shares(joined)' = Shares(joined)
    BY <1>3 DEF Shares
  <2> QED
    BY <1>3, <2>1 DEF GoesOn, Enough
<1>4. ASSUME UNCHANGED <<ask, result, joined>>, \A m \in joined : stream[m] # "open",
             \/ stream' = stream
             \/ \E m \in Nodes, answer \in {"right", "wrong", "misplaced", "unreadable", "ended"} :
                  stream[m] = "open" /\ stream' = [stream EXCEPT ![m] = answer]
      PROVE  ~Enough(joined)' /\ joined' # Nodes
  <2>1. Running
    BY <1>4 DEF Running
  <2>2. \A m \in joined : stream'[m] = stream[m]
    BY <1>4 DEF ClientInv
  <2> QED
    BY <1>3, <1>4, <2>1, <2>2
<1>5. Running => \A m \in joined : stream[m] # "open"
  BY DEF ClientInv
<1>6. CASE Subscribe
  <2>1. PICK state \in {"open", "refused", "right"} : Subscribed(asked + 1, state)
    BY <1>6 DEF Subscribe
  <2>2. asked + 1 \notin joined /\ Running
    BY <1>6 DEF ClientInv, Subscribe
  <2> QED
    BY <1>3, <2>1, <2>2 DEF Subscribed, ClientInv
<1>7. ASSUME NEW m \in Nodes, Answer(m)
      PROVE  ~Enough(joined)' /\ joined' # Nodes
  BY <1>4, <1>5, <1>7, Zenon DEF Answer, Answers
<1>8. ASSUME NEW m \in Nodes, Join(m)
      PROVE  ~Enough(joined)' /\ joined' # Nodes
  <2>1. Enough(joined') <=> Enough(joined)'
    BY <1>8 DEF Join, Enough, Shares
  <2>2. result' = None
    BY DEF Running
  <2>3. stream[m] \in {"right", "wrong", "misplaced", "unreadable", "ended"}
    BY <1>8 DEF Join, ClientInv, Nodes
  <2>4. ~Enough(joined') /\ joined' # Nodes
    BY <1>8, <2>2, <2>3, ClientAssumption DEF Join, Outcomes, recover_secret, Errors
  <2> QED
    BY <2>1, <2>4
<1>9. CASE Heard \/ \E r \in Requests : OtherRequest(r)
  <2>1. \/ stream' = stream
        \/ \E answer \in {"right", "ended"} :
             stream[served] = "open" /\ stream' = [stream EXCEPT ![served] = answer]
    BY <1>9 DEF Heard, OtherRequest, Waiting
  <2>2. UNCHANGED <<ask, result, joined>>
    BY <1>9 DEF Heard, OtherRequest
  <2>3. served \in Nodes
    BY ClientAssumption
  <2> QED
    BY <1>4, <1>5, <2>1, <2>2, <2>3 DEF Running
<1>10. CASE UNCHANGED varsClient
  BY <1>4, <1>5, <1>10 DEF varsClient, client, Running
<1> QED
  BY <1>2, <1>6, <1>7, <1>8, <1>9, <1>10
  DEF NextClient, AddReservations, AddShares, Lifecycle

LEMMA ClientInvAlways == SpecClient => [](ClientInv /\ Justified /\ GoesOn)
<1>1. InitClient => ClientInv /\ Justified /\ GoesOn
  BY ClientAssumption DEF InitClient, ClientInv, Justified, GoesOn, Running
<1> QED
  BY <1>1, ClientStep, GoesOnStep, PTL DEF SpecClient

\* A call only fails for a reason: its range leaves u64, a node refused it, a
\* faulty node brought no right share, or too many streams ended; it succeeds on
\* enough shares, and goes on only while it has too few
\* (receive_assigned_masks).
THEOREM FailuresJustified == SpecClient => []ResultJustified
<1>1. ClientInv /\ Justified /\ GoesOn => ResultJustified
  BY DEF Justified, GoesOn, ResultJustified
<1> QED
  BY <1>1, ClientInvAlways, PTL

\* When the nodes that are not faulty are enough for the sharing scheme, a call
\* goes on only while the answer of one of them is still to be taken, or after
\* the stream of one ended: a faulty node is never all it waits for.  The part of
\* Returns that does not depend on fairness (receive_assigned_masks).
THEOREM WaitsForHonest ==
  ASSUME min_shares <= n - Cardinality(Faulty)
  PROVE  SpecClient =>
           [](Running => \E m \in Nodes \ Faulty : m \notin joined \/ stream[m] = "ended")
<1>1. ASSUME ClientInv, GoesOn, Running,
             \A m \in Nodes \ Faulty : m \in joined /\ stream[m] # "ended"
      PROVE  FALSE
  <2>1. /\ IsFiniteSet(Nodes) /\ Cardinality(Nodes) = n
        /\ Faulty \subseteq Nodes
    BY ClientAssumption, FS_Interval DEF Nodes
  <2>2. Nodes \ Faulty \subseteq Shares(joined) /\ Shares(joined) \subseteq Nodes
    BY <1>1 DEF ClientInv, Shares
  <2>3. Cardinality(Nodes \ Faulty) = n - Cardinality(Faulty)
    <3>1. Nodes \cap Faulty = Faulty
      BY <2>1
    <3> QED
      BY <2>1, <3>1, FS_Difference, Zenon
  <2>4. /\ IsFiniteSet(Shares(joined)) /\ IsFiniteSet(Faulty)
        /\ Cardinality(Nodes \ Faulty) <= Cardinality(Shares(joined))
    BY <2>1, <2>2, FS_Subset
  <2>5. Cardinality(Shares(joined)) \in Nat /\ Cardinality(Faulty) \in Nat
    BY <2>4, FS_CardinalityType
  <2>6. Cardinality(Shares(joined)) >= min_shares
    BY <2>3, <2>4, <2>5, ClientAssumption
  <2> QED
    BY <1>1, <2>6 DEF GoesOn, Enough
<1>2. ClientInv /\ GoesOn =>
        (Running => \E m \in Nodes \ Faulty : m \notin joined \/ stream[m] = "ended")
  BY <1>1
<1> QED
  BY <1>2, ClientInvAlways, PTL

\* With a client that asks all nodes, the node does what it does without.
THEOREM NodeOfClient == SpecClient => Spec
<1>1. InitClient => Init
  BY DEF InitClient
<1>2. ClientInv /\ [NextClient]_varsClient => [Next]_vars
  <2> SUFFICES ASSUME ClientInv, [NextClient]_varsClient
               PROVE  [Next]_vars
    OBVIOUS
  <2>1. ASSUME NEW r \in Calls, receive_assigned_masks(r)
        PROVE  UNCHANGED vars
    BY <2>1 DEF receive_assigned_masks
  <2>2. CASE Subscribe
    <3>1. ask \in Requests
      BY <2>2, ClientAssumption DEF Subscribe, Running, ClientInv
    <3> QED
      BY <2>2, <3>1 DEF Subscribe, Next
  <2>3. ASSUME NEW m \in Nodes, Answer(m) \/ Join(m)
        PROVE  UNCHANGED vars
    BY <2>3 DEF Answer, Join, vars
  <2>4. CASE AddReservations
    BY <2>4 DEF AddReservations, Next
  <2>5. CASE AddShares
    BY <2>5 DEF AddShares, Next
  <2>6. CASE Lifecycle
    BY <2>6 DEF Lifecycle, Next
  <2>7. ASSUME NEW r \in Requests, OtherRequest(r)
        PROVE  Next
    BY <2>7 DEF OtherRequest, Next
  <2>8. CASE UNCHANGED varsClient
    BY <2>8 DEF varsClient
  <2> QED
    BY <2>1, <2>2, <2>3, <2>4, <2>5, <2>6, <2>7, <2>8 DEF NextClient
<1> QED
  BY <1>1, <1>2, ClientInvAlways, PTL DEF SpecClient, Spec
================================================================================
