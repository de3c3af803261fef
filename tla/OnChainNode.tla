------------------------------ MODULE OnChainNode ------------------------------
(***************************************************************************)
(* The RPC interface of an MPC node that works with the on-chain           *)
(* coordinator (on-chain/src/lib.rs, node_rpc).  The node learns from      *)
(* contract events which address reserved which mask index, gets its mask  *)
(* shares from preprocessing, and sends a share to the address that proves *)
(* with a signature over the index that the reservation is its own.  The   *)
(* three come in any order.  Every operation holds the lock throughout.  A  *)
(* failed assertion ends the node's own task, which reports reservations   *)
(* and shares; the listener goes on.                                       *)
(*                                                                         *)
(* A signature is represented by the index it is a valid signature of, by  *)
(* the address that the request names, and by None if it is not valid.     *)
(***************************************************************************)
EXTENDS Integers, FiniteSets

CONSTANTS
  Address,
  Id,             \* TLS identities of clients
  Index,
  None,
  Reservations    \* the [addr, index] the contract may announce

ASSUME OnChainAssumption ==
  /\ Reservations \subseteq [addr : Address, index : Index]
  /\ None \notin Address \cup Index

Signature == Index \cup {None}

VARIABLES
  index_to_client,   \* per index, the address that reserved it
  client_to_index,   \* per address, the index it reserved (last)
  authenticated,     \* addresses whose signature was verified
  sinks,             \* addresses whose subscription is kept
  mask_shares,       \* indices whose share the node has
  ids_and_addrs,     \* the requests: [id, addr, pending, sig]
  sent,              \* history: per address, the indices whose share it got
  panicked           \* an assertion failed

vars == <<index_to_client, client_to_index, authenticated, sinks, mask_shares,
          ids_and_addrs, sent, panicked>>

Init ==
  /\ index_to_client = [i \in Index |-> None]
  /\ client_to_index = [x \in Address |-> None]
  /\ authenticated = {}
  /\ sinks = {}
  /\ mask_shares = {}
  /\ ids_and_addrs = {}
  /\ sent = [x \in Address |-> {}]
  /\ panicked = FALSE

\* verify_client_sig
Verifies(sig, i) == sig = i

\* Fault: nothing is sent when a reservation or a share arrives.
Send_Nothing(addr, i) == sent' = sent

Send(addr, i) ==
  sent' = IF addr \in sinks /\ i \in mask_shares'
          THEN [sent EXCEPT ![addr] = @ \cup {i}] ELSE sent

\* The signature of a request that came before the reservation is verified now,
\* and leaves the entry whether it is good or not.  An entry that has no
\* signature left fails the assertion.
add_reserved_index(addr, i) ==
  /\ ~panicked
  /\ index_to_client[i] = None
  /\ index_to_client' = [index_to_client EXCEPT ![i] = addr]
  /\ client_to_index' = [client_to_index EXCEPT ![addr] = i]
  /\ UNCHANGED <<sinks, mask_shares>>
  /\ \/ /\ \A e \in ids_and_addrs : e.addr # addr
        /\ UNCHANGED <<authenticated, ids_and_addrs, sent, panicked>>
     \/ \E e \in ids_and_addrs :
          /\ e.addr = addr
          /\ panicked' = ~e.pending
          /\ ids_and_addrs' = (ids_and_addrs \ {e}) \cup {[e EXCEPT !.pending = FALSE]}
          /\ IF e.pending /\ Verifies(e.sig, i)
             THEN /\ authenticated' = authenticated \cup {addr}
                  /\ Send(addr, i)
             ELSE UNCHANGED <<authenticated, sent>>

\* Fault: a share is sent before the signature is verified.
add_mask_share_Unverified(i) ==
  /\ ~panicked
  /\ i \notin mask_shares
  /\ mask_shares' = mask_shares \cup {i}
  /\ IF index_to_client[i] # None THEN Send(index_to_client[i], i)
     ELSE UNCHANGED sent
  /\ UNCHANGED <<index_to_client, client_to_index, authenticated, sinks,
                 ids_and_addrs, panicked>>

add_mask_share(i) ==
  /\ ~panicked
  /\ i \notin mask_shares
  /\ mask_shares' = mask_shares \cup {i}
  /\ LET addr == index_to_client[i]
     IN  IF addr \in authenticated THEN Send(addr, i) ELSE UNCHANGED sent
  /\ UNCHANGED <<index_to_client, client_to_index, authenticated, sinks,
                 ids_and_addrs, panicked>>

\* One request per identity and per address is taken, and with the reservation
\* known its signature has to be good.
Rejects(id, addr, sig) ==
  \/ \E e \in ids_and_addrs : e.id = id \/ e.addr = addr
  \/ client_to_index[addr] # None /\ ~Verifies(sig, client_to_index[addr])

\* Any TLS client may name any address.  With the reservation known the
\* signature is verified at once, else it is kept with the request.
receive_mask_share(id, addr, sig) ==
  LET i == client_to_index[addr]
  IN  /\ ~Rejects(id, addr, sig)
      /\ ids_and_addrs' = ids_and_addrs \cup
           {[id |-> id, addr |-> addr, pending |-> i = None, sig |-> sig]}
      /\ authenticated' = IF i = None THEN authenticated
                          ELSE authenticated \cup {addr}
      /\ IF i # None /\ i \in mask_shares
         THEN /\ sent' = [sent EXCEPT ![addr] = @ \cup {i}]
              /\ UNCHANGED sinks
         ELSE /\ sinks' = sinks \cup {addr}
              /\ UNCHANGED sent
      /\ UNCHANGED <<index_to_client, client_to_index, mask_shares, panicked>>

Next ==
  \/ \E r \in Reservations : add_reserved_index(r.addr, r.index)
  \/ \E i \in Index : add_mask_share(i)
  \/ \E id \in Id, addr \in Address, sig \in Signature :
       receive_mask_share(id, addr, sig)

Spec == Init /\ [][Next]_vars

-----------------------------------------------------------------------------
\* Types of the node's state.
TypeOK ==
  /\ index_to_client \in [Index -> Address \cup {None}]
  /\ client_to_index \in [Address -> Index \cup {None}]
  /\ authenticated \subseteq Address
  /\ sinks \subseteq {e.addr : e \in ids_and_addrs}
  /\ mask_shares \subseteq Index
  /\ ids_and_addrs \subseteq
       [id : Id, addr : Address, pending : BOOLEAN, sig : Signature]
  /\ sent \in [Address -> SUBSET Index]
  /\ panicked \in BOOLEAN

\* A share goes only to the address that reserved its index, and only after a
\* request whose signature is good for an index of that address, in whatever
\* order reservation, share and request came (add_reserved_index,
\* add_mask_share, receive_mask_share).
SharesAuthenticated ==
  \A addr \in Address : \A i \in sent[addr] :
    /\ index_to_client[i] = addr
    /\ \E e \in ids_and_addrs :
         e.addr = addr /\ ~e.pending /\ e.sig # None /\ index_to_client[e.sig] = addr

\* No share is forgotten: once an address has reserved an index, proved it, and
\* the share of the index is there, the share has been sent, in whatever order
\* the three came (add_reserved_index, add_mask_share, receive_mask_share).  Of
\* an address with several reservations this is said of the last, and it holds
\* until the assertion of add_reserved_index fails.
SharesDelivered ==
  \A addr \in Address :
    LET i == client_to_index[addr]
    IN  ~panicked /\ i \in mask_shares /\ addr \in authenticated => i \in sent[addr]
================================================================================
