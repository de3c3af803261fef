---------------------------- MODULE NodeMaskShares ----------------------------
(***************************************************************************)
(* One execution on the RPC interface of one MPC node (off-chain/src/      *)
(* lib.rs, node_rpc): the node adds reservations and mask shares in        *)
(* batches as it learns of them, clients ask for the shares of a range of  *)
(* indices, and a request that cannot be answered yet is kept until a      *)
(* batch that touches its client completes it.                             *)
(*                                                                         *)
(* Every operation holds the lock of the execution's state; one that       *)
(* looked the execution up before it was retired and takes the lock after  *)
(* works on state nobody else sees, as if it had run before.               *)
(***************************************************************************)
EXTENDS Integers, FiniteSets

CONSTANTS
  Index,          \* the indices of the execution
  Client,
  None,
  Requests,       \* the [client, start, count] that clients ask for
  Reservations,   \* batches of reservations: functions from indices to clients
  u64_MAX         \* the largest index there can be

ASSUME NodeAssumption ==
  /\ u64_MAX \in Nat
  /\ Index \subseteq 0..u64_MAX
  /\ None \notin Client
  /\ Requests \subseteq [client : Client, start : 0..u64_MAX, count : 0..u64_MAX]
  /\ \A batch \in Reservations :
       /\ DOMAIN batch \subseteq Index
       /\ \A i \in DOMAIN batch : batch[i] \in Client

VARIABLES
  registered,        \* whether the node serves the execution
  index_to_client,   \* per index, the client that reserved it
  mask_shares,       \* indices whose mask share the node has
  assigned_sinks,    \* per client, its pending request
  sent,              \* history: per client, the indices whose share it was sent
  dropped            \* history: requests whose sink an error dropped

vars == <<registered, index_to_client, mask_shares, assigned_sinks, sent, dropped>>

\* NodeRPCExecutionState::new
Init ==
  /\ registered = FALSE
  /\ index_to_client = [i \in Index |-> None]
  /\ mask_shares = {}
  /\ assigned_sinks = [c \in Client |-> None]
  /\ sent = [c \in Client |-> {}]
  /\ dropped = {}

Indices(r) == r.start..(r.start + r.count - 1)

Owner(owners, i) == IF i \in Index THEN owners[i] ELSE None

\* Fault: it is not checked who reserved the index.
Answered_Anyone(r, owners, shares) ==
  /\ r.start + r.count <= u64_MAX
  /\ \A i \in Indices(r) : Owner(owners, i) # None /\ i \in shares

\* assigned_mask_shares_for_client scans the range from its start.  It fails
\* when the range leaves u64 or at an index of somebody else; an index without
\* reservation or share ends the scan before.
Answered(r, owners, shares) ==
  /\ r.start + r.count <= u64_MAX
  /\ \A i \in Indices(r) : Owner(owners, i) = r.client /\ i \in shares

Refused(r, owners, shares) ==
  \/ r.start + r.count > u64_MAX
  \/ \E i \in Indices(r) :
       /\ Owner(owners, i) \notin {None, r.client}
       /\ \A j \in r.start..(i - 1) : Owner(owners, j) = r.client /\ j \in shares

-----------------------------------------------------------------------------
\* The second phase of a batch: the pending request of every touched client is
\* looked at once, in the order of the batch.  The first that is refused ends
\* the batch with an error: its sink is dropped, and so are those of the
\* requests before it that had become complete.
ServeTouched(touched, owners, shares) ==
  LET pending == {c \in touched : assigned_sinks[c] # None}
      ready == {c \in pending : Answered(assigned_sinks[c], owners, shares)}
      refused == {c \in pending : Refused(assigned_sinks[c], owners, shares)}
      Without(gone) == [c \in Client |-> IF c \in gone THEN None ELSE assigned_sinks[c]]
  IN  IF refused = {}
      THEN /\ assigned_sinks' = Without(ready)
           /\ sent' = [c \in Client |-> IF c \in ready
                        THEN sent[c] \cup Indices(assigned_sinks[c]) ELSE sent[c]]
           /\ UNCHANGED dropped
      ELSE \E c \in refused, before \in SUBSET ready :
             /\ assigned_sinks' = Without(before \cup {c})
             /\ dropped' = dropped \cup {assigned_sinks[x] : x \in before \cup {c}}
             /\ UNCHANGED sent

add_assigned_reserved_indices(batch) ==
  /\ registered
  /\ \A i \in DOMAIN batch : index_to_client[i] = None
  /\ index_to_client' = [i \in Index |->
       IF i \in DOMAIN batch THEN batch[i] ELSE index_to_client[i]]
  /\ ServeTouched({batch[i] : i \in DOMAIN batch}, index_to_client', mask_shares)
  /\ UNCHANGED <<registered, mask_shares>>

\* The same for reservations of one client.
add_reserved_indices(c, indices) ==
  LET batch == [i \in indices |-> c]
  IN  batch \in Reservations /\ add_assigned_reserved_indices(batch)

\* Fault: pending requests are only looked at when indices are reserved.
add_mask_shares_NoServe(batch) ==
  /\ registered
  /\ batch \cap mask_shares = {}
  /\ mask_shares' = mask_shares \cup batch
  /\ UNCHANGED <<registered, index_to_client, assigned_sinks, sent, dropped>>

add_mask_shares(batch) ==
  /\ registered
  /\ batch \cap mask_shares = {}
  /\ mask_shares' = mask_shares \cup batch
  /\ ServeTouched({index_to_client[i] : i \in batch} \ {None},
                  index_to_client, mask_shares')
  /\ UNCHANGED <<registered, index_to_client>>

add_mask_share(i) == add_mask_shares({i})

\* A client's request takes the place of the one it may have pending.
receive_assigned_mask_shares(r) ==
  /\ registered
  /\ assigned_sinks' = [assigned_sinks EXCEPT ![r.client] =
       IF \/ Answered(r, index_to_client, mask_shares)
          \/ Refused(r, index_to_client, mask_shares)
       THEN None ELSE r]
  /\ sent' = IF Answered(r, index_to_client, mask_shares)
             THEN [sent EXCEPT ![r.client] = @ \cup Indices(r)] ELSE sent
  /\ UNCHANGED <<registered, index_to_client, mask_shares, dropped>>

register_execution ==
  /\ ~registered
  /\ registered' = TRUE
  /\ UNCHANGED <<index_to_client, mask_shares, assigned_sinks, sent, dropped>>

retire_execution ==
  /\ registered
  /\ registered' = FALSE
  /\ index_to_client' = [i \in Index |-> None]
  /\ mask_shares' = {}
  /\ assigned_sinks' = [c \in Client |-> None]
  /\ sent' = [c \in Client |-> {}]
  /\ dropped' = {}

Next ==
  \/ \E batch \in Reservations : add_assigned_reserved_indices(batch)
  \/ \E c \in Client, indices \in SUBSET Index : add_reserved_indices(c, indices)
  \/ \E batch \in SUBSET Index : add_mask_shares(batch)
  \/ \E i \in Index : add_mask_share(i)
  \/ \E r \in Requests : receive_assigned_mask_shares(r)
  \/ register_execution
  \/ retire_execution

Spec == Init /\ [][Next]_vars

-----------------------------------------------------------------------------
\* Types of the node's state for one execution.
TypeOK ==
  /\ registered \in BOOLEAN
  /\ index_to_client \in [Index -> Client \cup {None}]
  /\ mask_shares \subseteq Index
  /\ assigned_sinks \in [Client -> Requests \cup {None}]
  /\ sent \in [Client -> SUBSET Index]
  /\ dropped \subseteq Requests

\* The share of a mask only ever goes to the client that reserved its index,
\* and that stays so: the reservation of an index is never replaced
\* (assigned_mask_shares_for_client, add_assigned_reserved_indices).
SharesOnlyToReserver ==
  \A c \in Client : \A i \in sent[c] : i \in Index /\ index_to_client[i] = c

\* No wake-up is lost: a request that is still pending is not complete, in
\* whatever order its reservations and its shares were added and its client
\* asked, as long as no batch was cut short by a request it had to refuse:
\* it is enough that add_assigned_reserved_indices and add_mask_shares look at
\* each client they touch, once, when the whole batch is in.
PendingNotReady ==
  \A c \in Client :
    dropped = {} /\ assigned_sinks[c] # None =>
      ~Answered(assigned_sinks[c], index_to_client, mask_shares)
================================================================================
