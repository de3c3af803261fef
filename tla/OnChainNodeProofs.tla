--------------------------- MODULE OnChainNodeProofs ---------------------------
(***************************************************************************)
(* SharesAuthenticated for any addresses, identities, indices and events    *)
(* of the contract, also those that reserve several indices for one         *)
(* address.  The invariant adds why it is so: an address is authenticated   *)
(* only through a request whose signature is for an index of its own, and   *)
(* nothing that was reserved is reserved again.  SharesDelivered follows    *)
(* from the same invariant: whichever of reservation, share and signature   *)
(* comes last finds the other two and sends.                                *)
(*                                                                          *)
(* The second part is about executions over the contract, for any number    *)
(* of parties, clients and retries.  The invariant says of every            *)
(* transaction that is not mined what its sender had made sure of when it   *)
(* was sent, and of the rounds what the designated party had made sure of   *)
(* before it called for them; nothing of it is undone before the            *)
(* transaction is mined.  The contract alone would start the program        *)
(* without inputs; that it implements InputCommitment follows from what     *)
(* those who call it had made sure of.                                      *)
(***************************************************************************)
EXTENDS OnChainExecution, FiniteSetTheorems, TLAPS

\* A settled request whose signature is for an index of its address.
Proof(addr) ==
  \E e \in ids_and_addrs :
    e.addr = addr /\ ~e.pending /\ e.sig # None /\ index_to_client[e.sig] = addr

\* The index on file for an address is one it reserved.
OwnIndex ==
  \A addr \in Address :
    client_to_index[addr] # None => index_to_client[client_to_index[addr]] = addr

Authentic == \A addr \in authenticated : Proof(addr)

SentToOwner ==
  \A addr \in Address : \A i \in sent[addr] :
    index_to_client[i] = addr /\ addr \in authenticated

Inv == TypeOK /\ OwnIndex /\ Authentic /\ SentToOwner

\* A reservation settles a request that waits for it.
LEMMA ReserveStep ==
  ASSUME Inv, NEW r \in Reservations, add_reserved_index(r.addr, r.index)
  PROVE  Inv'
<1> DEFINE addr == r.addr
           i == r.index
<1>1. addr \in Address /\ i \in Index /\ None \notin Address /\ None \notin Index
  BY OnChainAssumption
<1>2. /\ index_to_client[i] = None
      /\ index_to_client' = [index_to_client EXCEPT ![i] = addr]
      /\ client_to_index' = [client_to_index EXCEPT ![addr] = i]
      /\ UNCHANGED <<sinks, mask_shares>>
  BY DEF add_reserved_index
<1> HIDE DEF addr, i
<1>3. \A j \in Index : index_to_client[j] # None => index_to_client'[j] = index_to_client[j]
  BY <1>1, <1>2 DEF Inv, TypeOK
<1>4. index_to_client'[i] = addr /\ OwnIndex'
  BY <1>1, <1>2, <1>3 DEF Inv, TypeOK, OwnIndex
<1>5. CASE UNCHANGED <<authenticated, ids_and_addrs, sent, panicked>>
  <2>1. TypeOK'
    BY <1>1, <1>2, <1>5 DEF Inv, TypeOK
  <2>2. Authentic'
    <3>1. \A e \in ids_and_addrs : e.sig # None => e.sig \in Index
      BY DEF Inv, TypeOK, Signature
    <3>2. \A d \in authenticated : Proof(d) /\ d # None
      BY <1>1 DEF Inv, TypeOK, Authentic
    <3> QED
      BY <1>3, <1>5, <3>1, <3>2 DEF Authentic, Proof
  <2>3. SentToOwner'
    BY <1>1, <1>3, <1>5 DEF Inv, TypeOK, SentToOwner
  <2> QED
    BY <1>4, <2>1, <2>2, <2>3 DEF Inv
<1>6. ASSUME NEW e \in ids_and_addrs,
             e.addr = addr,
             panicked' = ~e.pending,
             ids_and_addrs' = (ids_and_addrs \ {e}) \cup {[e EXCEPT !.pending = FALSE]},
             IF e.pending /\ Verifies(e.sig, i)
             THEN authenticated' = authenticated \cup {addr} /\ Send(addr, i)
             ELSE UNCHANGED <<authenticated, sent>>
      PROVE  Inv'
  <2> DEFINE f == [e EXCEPT !.pending = FALSE]
  <2>1. /\ e \in [id : Id, addr : Address, pending : BOOLEAN, sig : Signature]
        /\ f \in [id : Id, addr : Address, pending : BOOLEAN, sig : Signature]
        /\ f.addr = addr /\ f.sig = e.sig /\ f.pending = FALSE
    BY <1>6, Zenon DEF Inv, TypeOK
  <2>2. ids_and_addrs' = (ids_and_addrs \ {e}) \cup {f}
    BY <1>6
  <2>3. \A d \in Address : Proof(d) => Proof(d)'
    <3> SUFFICES ASSUME NEW d \in Address,
                        NEW g \in ids_and_addrs,
                        g.addr = d, ~g.pending, g.sig # None, index_to_client[g.sig] = d
                 PROVE  Proof(d)'
      BY DEF Proof
    <3>1. g.sig \in Index
      BY DEF Inv, TypeOK, Signature
    <3>2. index_to_client'[g.sig] = d
      BY <1>1, <1>3, <3>1
    <3>3. CASE g = e
      BY <1>6, <2>1, <2>2, <3>2, <3>3 DEF Proof
    <3>4. CASE g # e
      BY <2>2, <3>2, <3>4 DEF Proof
    <3> QED
      BY <3>3, <3>4
  <2>4. e.pending /\ Verifies(e.sig, i) => Proof(addr)'
    BY <1>1, <1>4, <2>1, <2>2 DEF Proof, Verifies
  <2> HIDE DEF f
  <2>5. /\ authenticated' \subseteq Address
        /\ authenticated \subseteq authenticated'
    BY <1>1, <1>6 DEF Inv, TypeOK
  <2>6. Authentic'
    BY <1>6, <2>3, <2>4 DEF Inv, TypeOK, Authentic
  <2>7. /\ sent' \in [Address -> SUBSET Index]
        /\ \A d \in Address : \A j \in sent'[d] :
             j \in sent[d] \/ (d = addr /\ j = i /\ addr \in authenticated')
    BY <1>1, <1>6 DEF Inv, TypeOK, Send
  <2>8. SentToOwner'
    BY <1>1, <1>3, <1>4, <2>5, <2>7 DEF Inv, TypeOK, SentToOwner
  <2>9. {x.addr : x \in ids_and_addrs} \subseteq {x.addr : x \in ids_and_addrs'}
    BY <1>6, <2>1, <2>2
  <2>10. TypeOK'
    <3>1. /\ index_to_client' \in [Index -> Address \cup {None}]
          /\ client_to_index' \in [Address -> Index \cup {None}]
      BY <1>1, <1>2 DEF Inv, TypeOK
    <3>2. ids_and_addrs' \subseteq [id : Id, addr : Address, pending : BOOLEAN, sig : Signature]
      BY <2>1, <2>2 DEF Inv, TypeOK
    <3>3. panicked' \in BOOLEAN
      BY <1>6
    <3>4. sinks' \subseteq {x.addr : x \in ids_and_addrs'} /\ mask_shares' \subseteq Index
      BY <1>2, <2>9, ZenonT(30) DEF Inv, TypeOK
    <3> QED
      BY <2>5, <2>7, <3>1, <3>2, <3>3, <3>4 DEF TypeOK
  <2> QED
    BY <1>4, <2>6, <2>8, <2>10 DEF Inv
<1> QED
  BY <1>5, <1>6 DEF add_reserved_index, addr, i

\* A share goes out to the owner of its index, if it is authenticated.
LEMMA ShareStep ==
  ASSUME Inv, NEW i \in Index, add_mask_share(i)
  PROVE  Inv'
<1>1. /\ UNCHANGED <<index_to_client, client_to_index, authenticated, sinks,
                     ids_and_addrs, panicked>>
      /\ mask_shares' = mask_shares \cup {i}
  BY DEF add_mask_share
<1>2. /\ sent' \in [Address -> SUBSET Index]
      /\ \A d \in Address : \A j \in sent'[d] :
           j \in sent[d] \/ (j = i /\ index_to_client[i] = d /\ d \in authenticated)
  BY DEF add_mask_share, Send, Inv, TypeOK
<1>3. TypeOK'
  BY <1>1, <1>2 DEF Inv, TypeOK
<1>4. OwnIndex' /\ Authentic'
  BY <1>1 DEF Inv, OwnIndex, Authentic, Proof
<1>5. SentToOwner'
  BY <1>1, <1>2 DEF Inv, SentToOwner
<1> QED
  BY <1>3, <1>4, <1>5 DEF Inv

\* A request is verified at once when its reservation is known.
LEMMA ReceiveStep ==
  ASSUME Inv, NEW id \in Id, NEW addr \in Address, NEW sig \in Signature,
         receive_mask_share(id, addr, sig)
  PROVE  Inv'
<1> DEFINE i == client_to_index[addr]
           e == [id |-> id, addr |-> addr, pending |-> i = None, sig |-> sig]
<1>1. /\ i = None \/ sig = i
      /\ ids_and_addrs' = ids_and_addrs \cup {e}
      /\ authenticated' = IF i = None THEN authenticated ELSE authenticated \cup {addr}
      /\ UNCHANGED <<index_to_client, client_to_index, mask_shares, panicked>>
  BY DEF receive_mask_share, Rejects, Verifies
<1>2. /\ e \in [id : Id, addr : Address, pending : BOOLEAN, sig : Signature]
      /\ e.addr = addr /\ e.sig = sig /\ (e.pending <=> i = None)
  BY Zenon
<1>3. /\ sent' \in [Address -> SUBSET Index]
      /\ \A d \in Address : \A j \in sent'[d] :
           j \in sent[d] \/ (j = i /\ i # None /\ d = addr)
      /\ sinks' \subseteq sinks \cup {addr}
  BY DEF receive_mask_share, Inv, TypeOK
<1>4. i # None => index_to_client[i] = addr
  BY DEF Inv, OwnIndex
<1> HIDE DEF i, e
<1>5. TypeOK'
  BY <1>1, <1>2, <1>3 DEF Inv, TypeOK
<1>6. OwnIndex'
  BY <1>1 DEF Inv, OwnIndex
<1>7. Authentic'
  <2>1. i # None => Proof(addr)'
    BY <1>1, <1>2, <1>4 DEF Proof
  <2>2. \A d \in authenticated : Proof(d)'
    BY <1>1 DEF Inv, Authentic, Proof
  <2> QED
    BY <1>1, <2>1, <2>2 DEF Authentic
<1>8. SentToOwner'
  BY <1>1, <1>3, <1>4 DEF Inv, SentToOwner
<1> QED
  BY <1>5, <1>6, <1>7, <1>8, ZenonT(30) DEF Inv

-----------------------------------------------------------------------------
\* The invariant holds in every state of the node.
THEOREM InductiveInvariant == Spec => []Inv
<1>1. Init => Inv
  BY Zenon DEF Init, Inv, TypeOK, OwnIndex, Authentic, SentToOwner
<1>2. Inv /\ [Next]_vars => Inv'
  <2>1. Inv /\ UNCHANGED vars => Inv'
    BY DEF vars, Inv, TypeOK, OwnIndex, Authentic, Proof, SentToOwner
  <2> QED
    BY <2>1, ReserveStep, ShareStep, ReceiveStep DEF Next
<1> QED
  BY <1>1, <1>2, PTL DEF Spec

\* A mask share only ever goes to the address that reserved its index, after a
\* signature of that address was verified, in whatever order reservation, share
\* and request arrive (add_reserved_index, add_mask_share, receive_mask_share).
THEOREM AuthenticatedShares == Spec => []SharesAuthenticated
<1>1. Inv => SharesAuthenticated
  BY DEF Inv, SentToOwner, Authentic, Proof, SharesAuthenticated
<1> QED
  BY <1>1, InductiveInvariant, PTL

-----------------------------------------------------------------------------
\* An address has at most one request.
OneRequest == \A e, f \in ids_and_addrs : e.addr = f.addr => e = f

\* Whoever waits for a reservation has a subscription.
Listening == \A e \in ids_and_addrs : e.pending => e.addr \in sinks

\* An address that proved its reservation has the share or waits for it.
Promised ==
  ~panicked =>
    \A addr \in authenticated :
      \/ client_to_index[addr] \in sent[addr]
      \/ client_to_index[addr] \notin mask_shares /\ addr \in sinks

Delivery == OneRequest /\ Listening /\ Promised

\* An address whose request is pending is not authenticated yet.
LEMMA PendingUnproved ==
  ASSUME Inv, OneRequest, NEW e \in ids_and_addrs, e.pending
  PROVE  e.addr \notin authenticated
BY DEF Inv, Authentic, Proof, OneRequest

\* A reservation either meets no request of its address, or sends what the
\* settled request was waiting for, or fails the assertion.
LEMMA ReserveDelivers ==
  ASSUME Inv, Delivery, NEW r \in Reservations, add_reserved_index(r.addr, r.index)
  PROVE  Delivery'
<1> DEFINE addr == r.addr
           i == r.index
<1>1. addr \in Address /\ i \in Index
  BY OnChainAssumption
<1>2. /\ client_to_index' = [client_to_index EXCEPT ![addr] = i]
      /\ UNCHANGED <<sinks, mask_shares>>
      /\ ~panicked
  BY DEF add_reserved_index
<1> HIDE DEF addr, i
<1>3. /\ client_to_index'[addr] = i
      /\ \A d \in Address \ {addr} : client_to_index'[d] = client_to_index[d]
  BY <1>1, <1>2 DEF Inv, TypeOK
<1>4. CASE /\ \A e \in ids_and_addrs : e.addr # addr
           /\ UNCHANGED <<authenticated, ids_and_addrs, sent, panicked>>
  <2>1. OneRequest' /\ Listening'
    BY <1>2, <1>4 DEF Delivery, OneRequest, Listening
  <2>2. addr \notin authenticated
    BY <1>4 DEF Inv, Authentic, Proof
  <2>3. Promised'
    BY <1>2, <1>3, <1>4, <2>2 DEF Inv, TypeOK, Delivery, Promised
  <2> QED
    BY <2>1, <2>3 DEF Delivery
<1>5. ASSUME NEW e \in ids_and_addrs,
             e.addr = addr,
             panicked' = ~e.pending,
             ids_and_addrs' = (ids_and_addrs \ {e}) \cup {[e EXCEPT !.pending = FALSE]},
             IF e.pending /\ Verifies(e.sig, i)
             THEN authenticated' = authenticated \cup {addr} /\ Send(addr, i)
             ELSE UNCHANGED <<authenticated, sent>>
      PROVE  Delivery'
  <2> DEFINE f == [e EXCEPT !.pending = FALSE]
  <2>1. ids_and_addrs' = (ids_and_addrs \ {e}) \cup {f} /\ f.addr = addr /\ ~f.pending
    BY <1>5 DEF Inv, TypeOK
  <2> HIDE DEF f
  <2>2. OneRequest'
    BY <1>5, <2>1 DEF Delivery, OneRequest
  <2>3. Listening'
    BY <1>2, <2>1 DEF Delivery, Listening
  <2>4. Promised'
    <3> SUFFICES ASSUME e.pending, NEW d \in authenticated'
                 PROVE  \/ client_to_index'[d] \in sent'[d]
                        \/ client_to_index'[d] \notin mask_shares' /\ d \in sinks'
      BY <1>5, Zenon DEF Promised
    <3>1. addr \in sinks /\ addr \notin authenticated
      BY <1>5, PendingUnproved DEF Delivery, Listening
    <3>2. CASE d = addr
      <4>1. Send(addr, i)
        BY <1>5, <3>1, <3>2
      <4>2. i \in mask_shares => i \in sent'[addr]
        BY <1>1, <1>2, <3>1, <4>1, ZenonT(30) DEF Send, Inv, TypeOK
      <4> QED
        BY <1>2, <1>3, <3>1, <3>2, <4>2
    <3>3. CASE d # addr
      <4>1. d \in authenticated /\ d \in Address
        BY <1>5, <3>3 DEF Inv, TypeOK
      <4>2. sent'[d] = sent[d]
        BY <1>1, <1>5, <3>3, <4>1 DEF Send, Inv, TypeOK
      <4> QED
        BY <1>2, <1>3, <3>3, <4>1, <4>2 DEF Delivery, Promised
    <3> QED
      BY <3>2, <3>3
  <2> QED
    BY <2>2, <2>3, <2>4 DEF Delivery
<1> QED
  BY <1>4, <1>5 DEF add_reserved_index, addr, i

\* A share reaches the subscription of the address that proved its index.
LEMMA ShareDelivers ==
  ASSUME Inv, Delivery, NEW i \in Index, add_mask_share(i)
  PROVE  Delivery'
<1>1. /\ UNCHANGED <<index_to_client, client_to_index, authenticated, sinks,
                     ids_and_addrs, panicked>>
      /\ mask_shares' = mask_shares \cup {i}
      /\ ~panicked
  BY DEF add_mask_share
<1>2. OneRequest' /\ Listening'
  BY <1>1 DEF Delivery, OneRequest, Listening
<1>3. \A d \in Address : sent[d] \subseteq sent'[d]
  BY DEF add_mask_share, Send, Inv, TypeOK
<1>4. ASSUME NEW d \in authenticated, client_to_index[d] = i, d \in sinks
      PROVE  i \in sent'[d]
  <2>1. d \in Address /\ index_to_client[i] = d
    BY <1>4, OnChainAssumption DEF Inv, TypeOK, OwnIndex
  <2>2. Send(d, i)
    BY <1>4, <2>1 DEF add_mask_share
  <2> QED
    BY <1>1, <1>4, <2>1, <2>2 DEF Send, Inv, TypeOK
<1>5. Promised'
  BY <1>1, <1>3, <1>4 DEF Inv, TypeOK, Delivery, Promised
<1> QED
  BY <1>2, <1>5 DEF Delivery

\* A request is answered at once or leaves a subscription.
LEMMA ReceiveDelivers ==
  ASSUME Inv, Delivery, NEW id \in Id, NEW addr \in Address, NEW sig \in Signature,
         receive_mask_share(id, addr, sig)
  PROVE  Delivery'
<1> DEFINE i == client_to_index[addr]
           e == [id |-> id, addr |-> addr, pending |-> i = None, sig |-> sig]
<1>1. /\ \A f \in ids_and_addrs : f.addr # addr
      /\ ids_and_addrs' = ids_and_addrs \cup {e}
      /\ authenticated' = IF i = None THEN authenticated ELSE authenticated \cup {addr}
      /\ UNCHANGED <<index_to_client, client_to_index, mask_shares, panicked>>
  BY DEF receive_mask_share, Rejects
<1>2. e.addr = addr /\ (e.pending <=> i = None)
  BY Zenon
<1>3. /\ \A d \in Address : sent[d] \subseteq sent'[d]
      /\ sinks \subseteq sinks'
      /\ i # None /\ i \in mask_shares => i \in sent'[addr]
      /\ i = None \/ i \notin mask_shares => addr \in sinks'
  BY DEF receive_mask_share, Inv, TypeOK
<1> HIDE DEF e
<1>4. OneRequest'
  BY <1>1, <1>2 DEF Delivery, OneRequest
<1>5. Listening'
  BY <1>1, <1>2, <1>3 DEF Delivery, Listening
<1>6. addr \notin authenticated
  BY <1>1 DEF Inv, Authentic, Proof
<1>7. Promised'
  BY <1>1, <1>3, <1>6 DEF Inv, TypeOK, Delivery, Promised
<1> QED
  BY <1>4, <1>5, <1>7, ZenonT(30) DEF Delivery

LEMMA DeliveryAlways == Spec => []Delivery
<1>1. Init => Delivery
  BY DEF Init, Delivery, OneRequest, Listening, Promised
<1>2. Inv /\ Delivery /\ [Next]_vars => Delivery'
  <2>1. Delivery /\ UNCHANGED vars => Delivery'
    BY DEF vars, Delivery, OneRequest, Listening, Promised
  <2> QED
    BY <2>1, ReserveDelivers, ShareDelivers, ReceiveDelivers DEF Next
<1> QED
  BY <1>1, <1>2, InductiveInvariant, PTL DEF Spec

\* No share is forgotten, whichever way reservations, shares and requests come:
\* an address that proved its reservation has been sent the share or still has a
\* subscription when the share comes (add_reserved_index, add_mask_share,
\* receive_mask_share).
THEOREM DeliveredShares == Spec => []SharesDelivered
<1>1. Delivery => SharesDelivered
  BY DEF Delivery, Promised, SharesDelivered
<1> QED
  BY <1>1, DeliveryAlways, PTL

-----------------------------------------------------------------------------
Calls == {"round", "reserveMaskIndex", "submitMaskedInput", "sendOutputShares"}

Transactions ==
  [from : Actor, call : Calls, arg : Int \cup Index \cup Address]

\* The clients have the output shares of every party.
AllSent ==
  recipients # None /\ \A addr \in recipients : output_shares[addr] = Party

\* What the sender of a transaction has made sure of.
Justified(a, tx) ==
  /\ tx.from = a
  /\ \/ /\ tx.call = "round"
        /\ tx.arg \in Int /\ tx.arg <= round + 1
        /\ tx.arg >= MPCExecution => received
        /\ tx.arg >= ProgramFinished => AllSent
     \/ /\ tx.call = "reserveMaskIndex"
        /\ a \in Address /\ tx.arg \in Index
     \/ /\ tx.call = "submitMaskedInput"
        /\ a \in Address /\ tx.arg \in Index
        /\ reserved[tx.arg] = a /\ round >= InputCollection
     \/ /\ tx.call = "sendOutputShares"
        /\ a \in Party /\ tx.arg \in Address
        /\ recipients # None /\ tx.arg \in recipients /\ round >= OutputDistribution

Pending ==
  \A a \in Actor : \A k \in 1..Len(mempool[a]) : Justified(a, mempool[a][k])

Types ==
  /\ round \in Int
  /\ reserved \in [Index -> Address \cup {None}]
  /\ inputs \subseteq Index
  /\ output_shares \in [Address -> SUBSET Party]
  /\ mempool \in [Actor -> Seq(Transactions)]
  /\ addr_to_i # None => addr_to_i \in [Index -> Address \cup {None}]
  /\ recipients # None => recipients \subseteq Address

\* What the designated party was given agrees with the contract.
Given ==
  /\ addr_to_i # None =>
       \A i \in Index : addr_to_i[i] # None => reserved[i] = addr_to_i[i]
  /\ addr_to_i # None /\ ~broken => addr_to_i = reserved /\ ReservedIndices = Index
  /\ received => inputs = Index
  /\ \A i \in Index : index_to_client[i] # None => reserved[i] = index_to_client[i]

RoundsEarned ==
  /\ round >= MPCExecution => received
  /\ round >= ProgramFinished => AllSent

ContractInv == Types /\ Pending /\ Given /\ RoundsEarned

\* A reservation on the contract stays, and so does everything a transaction was
\* sent for.
Keeps ==
  /\ round' \in Int /\ round <= round'
  /\ \A i \in Index : reserved[i] # None => reserved'[i] = reserved[i]
  /\ received => received'
  /\ recipients # None => recipients' = recipients
  /\ AllSent => AllSent'

LEMMA KeptJustified ==
  ASSUME Types, Keeps, NEW a \in Actor, NEW tx, Justified(a, tx)
  PROVE  Justified(a, tx)'
<1>1. CASE tx.call = "round"
  BY <1>1 DEF Justified, Types, Keeps
<1>2. CASE tx.call = "reserveMaskIndex"
  BY <1>2 DEF Justified
<1>3. CASE tx.call = "submitMaskedInput"
  <2>1. /\ tx.from = a /\ a \in Address /\ tx.arg \in Index
        /\ reserved[tx.arg] = a /\ round >= InputCollection
    BY <1>3 DEF Justified
  <2>2. a # None
    BY <2>1, OnChainAssumption
  <2>3. reserved'[tx.arg] = a /\ round' >= InputCollection
    BY <2>1, <2>2 DEF Keeps, Types, InputCollection
  <2> QED
    BY <1>3, <2>1, <2>3 DEF Justified
<1>4. CASE tx.call = "sendOutputShares"
  BY <1>4 DEF Justified, Types, Keeps, OutputDistribution
<1> QED
  BY <1>1, <1>2, <1>3, <1>4 DEF Justified

\* A transaction that its sender has reasons for joins the pending ones.
LEMMA SendTxStep ==
  ASSUME ContractInv, NEW a \in Actor, NEW tx \in Transactions,
         Justified(a, tx), SendTx(tx)
  PROVE  ContractInv'
<1>1. /\ tx.from = a
      /\ mempool' = [mempool EXCEPT ![a] = Append(mempool[a], tx)]
      /\ UNCHANGED <<vars, contract, waits>>
  BY DEF SendTx, Justified
<1>2. mempool[a] \in Seq(Transactions)
  BY DEF ContractInv, Types
<1>3. Types'
  BY <1>1, <1>2 DEF ContractInv, Types, contract, waits
<1>4. Pending'
  <2> SUFFICES ASSUME NEW b \in Actor, NEW k \in 1..Len(mempool[b])'
               PROVE  Justified(b, mempool[b][k])'
    BY Zenon DEF Pending
  <2>1. PICK x : x = mempool'[b][k] /\ Justified(b, x)
    <3>1. CASE b # a
      BY <1>1, <3>1, ZenonT(30) DEF ContractInv, Types, Pending
    <3>2. CASE b = a /\ k <= Len(mempool[a])
      BY <1>1, <1>2, <3>2 DEF ContractInv, Types, Pending
    <3>3. CASE b = a /\ ~(k <= Len(mempool[a]))
      BY <1>1, <1>2, <3>3 DEF ContractInv, Types
    <3> QED
      BY <3>1, <3>2, <3>3, ZenonT(30)
  <2>2. Justified(b, x)'
    BY <1>1, <2>1, ZenonT(30) DEF Justified, AllSent, contract, waits
  <2> QED
    BY <2>1, <2>2, ZenonT(30)
<1>5. Given' /\ RoundsEarned'
  BY <1>1 DEF ContractInv, Given, RoundsEarned, AllSent, ReservedIndices, contract, waits,
              vars
<1> QED
  BY <1>3, <1>4, <1>5 DEF ContractInv

LEMMA AcceptsCases ==
  ASSUME NEW tx
  PROVE  /\ tx.call = "round" => (Accepts(tx) <=> tx.arg = round + 1)
         /\ tx.call = "reserveMaskIndex" =>
              (Accepts(tx) <=> round = InputMaskReservation /\ reserved[tx.arg] = None)
         /\ tx.call = "submitMaskedInput" =>
              (Accepts(tx) <=> /\ round = InputCollection
                               /\ reserved[tx.arg] = tx.from
                               /\ tx.arg \notin inputs)
         /\ tx.call = "sendOutputShares" =>
              (Accepts(tx) <=> /\ round = OutputDistribution
                               /\ tx.from \notin output_shares[tx.arg])
BY ZenonT(30) DEF Accepts

\* What a transaction does to the contract undoes nothing, and a round is reached
\* with what was made sure of before.
LEMMA ExecuteStep ==
  ASSUME ContractInv, NEW a \in Actor, NEW tx, Justified(a, tx),
         Accepts(tx), Execute(tx), UNCHANGED <<vars, waits>>
  PROVE  /\ Keeps
         /\ round' \in Int
         /\ reserved' \in [Index -> Address \cup {None}]
         /\ inputs' \subseteq Index
         /\ output_shares' \in [Address -> SUBSET Party]
         /\ Given' /\ RoundsEarned'
<1> USE AcceptsCases
<1>0. UNCHANGED <<index_to_client, addr_to_i, broken, received, recipients>>
  BY ZenonT(30) DEF vars, waits
<1>1. CASE tx.call = "round"
  <2>1. round' = round + 1 /\ tx.arg = round + 1 /\ UNCHANGED <<reserved, inputs, output_shares>>
    BY <1>1, ZenonT(30) DEF Execute
  <2>2. Keeps /\ AllSent' = AllSent
    BY <1>0, <2>1 DEF Keeps, ContractInv, Types, AllSent
  <2>3. RoundsEarned'
    BY <1>0, <1>1, <2>1, <2>2, ZenonT(30) DEF RoundsEarned, Justified
  <2> QED
    BY <1>0, <2>1, <2>2, <2>3 DEF ContractInv, Types, Given, ReservedIndices
<1>2. CASE tx.call = "reserveMaskIndex"
  <2>1. /\ tx.from = a /\ a \in Address /\ tx.arg \in Index
        /\ reserved[tx.arg] = None
        /\ reserved' = [reserved EXCEPT ![tx.arg] = a]
        /\ UNCHANGED <<round, inputs, output_shares>>
    BY <1>2, ZenonT(30) DEF Execute, Justified
  <2>2. reserved' \in [Index -> Address \cup {None}]
    BY <2>1, ZenonT(30) DEF ContractInv, Types
  <2>3. \A i \in Index : reserved[i] # None => reserved'[i] = reserved[i]
    BY <2>1 DEF ContractInv, Types
  <2>4. addr_to_i = None \/ broken
    BY <2>1, ZenonT(30) DEF ContractInv, Given, ReservedIndices
  <2>5. Given'
    <3>1. addr_to_i # None =>
            \A i \in Index : addr_to_i[i] # None => reserved'[i] = addr_to_i[i]
      BY <2>3 DEF ContractInv, Given
    <3>2. \A i \in Index : index_to_client[i] # None => reserved'[i] = index_to_client[i]
      BY <2>3, ZenonT(30) DEF ContractInv, Given
    <3> QED
      BY <1>0, <2>1, <2>4, <3>1, <3>2, ZenonT(30) DEF ContractInv, Given
  <2>6. Keeps /\ RoundsEarned'
    BY <1>0, <2>1, <2>3, SMTT(30) DEF Keeps, RoundsEarned, AllSent, ContractInv, Types
  <2> QED
    BY <2>1, <2>2, <2>5, <2>6 DEF ContractInv, Types
<1>3. CASE tx.call = "submitMaskedInput"
  <2>1. /\ tx.arg \in Index
        /\ inputs' = inputs \cup {tx.arg}
        /\ UNCHANGED <<round, reserved, output_shares>>
    BY <1>3, ZenonT(30) DEF Execute, Justified
  <2> QED
    BY <1>0, <2>1
    DEF ContractInv, Types, Keeps, Given, RoundsEarned, AllSent, ReservedIndices
<1>4. CASE tx.call = "sendOutputShares"
  <2>1. /\ tx.from = a /\ a \in Party /\ tx.arg \in Address
        /\ output_shares' = [output_shares EXCEPT ![tx.arg] = @ \cup {a}]
        /\ UNCHANGED <<round, reserved, inputs>>
    BY <1>4 DEF Execute, Justified
  <2>2. /\ output_shares' \in [Address -> SUBSET Party]
        /\ \A addr \in Address : output_shares[addr] = Party => output_shares'[addr] = Party
    BY <2>1 DEF ContractInv, Types
  <2>3. AllSent => AllSent'
    BY <1>0, <2>2 DEF AllSent, ContractInv, Types
  <2> QED
    BY <1>0, <2>1, <2>2, <2>3, SMTT(30)
    DEF ContractInv, Types, Keeps, Given, RoundsEarned, ReservedIndices
<1> QED
  BY <1>1, <1>2, <1>3, <1>4, ZenonT(30) DEF Justified

\* The transaction at the head is one that its sender had reasons for.
LEMMA HeadJustified ==
  ASSUME ContractInv, NEW a \in Actor, mempool[a] # <<>>
  PROVE  /\ Justified(a, Head(mempool[a]))
         /\ Tail(mempool[a]) \in Seq(Transactions)
         /\ Len(Tail(mempool[a])) = Len(mempool[a]) - 1
         /\ Len(mempool[a]) \in Nat
         /\ \A k \in 1..Len(Tail(mempool[a])) : Tail(mempool[a])[k] = mempool[a][k + 1]
<1>1. mempool[a] \in Seq(Transactions)
  BY DEF ContractInv, Types
<1>2. Len(mempool[a]) \in Nat \ {0}
  BY <1>1
<1>3. Head(mempool[a]) = mempool[a][1]
  BY <1>1
<1> QED
  BY <1>1, <1>2, <1>3 DEF ContractInv, Pending

LEMMA MineStep ==
  ASSUME ContractInv, NEW a \in Actor, Mine(a)
  PROVE  ContractInv'
<1> DEFINE tx == Head(mempool[a])
<1>1. /\ mempool[a] # <<>>
      /\ mempool' = [mempool EXCEPT ![a] = Tail(mempool[a])]
      /\ IF Accepts(tx) THEN Execute(tx) ELSE UNCHANGED contract
      /\ UNCHANGED <<vars, waits>>
  BY DEF Mine
<1>2. Justified(a, tx)
  BY <1>1, HeadJustified
<1> HIDE DEF tx
<1>3. /\ Keeps
      /\ round' \in Int
      /\ reserved' \in [Index -> Address \cup {None}]
      /\ inputs' \subseteq Index
      /\ output_shares' \in [Address -> SUBSET Party]
      /\ Given' /\ RoundsEarned'
  <2>1. CASE Accepts(tx)
    BY <1>1, <1>2, <2>1, ExecuteStep, ZenonT(30)
  <2>2. CASE ~Accepts(tx)
    <3>1. UNCHANGED contract
      BY <1>1, <2>2, ZenonT(30)
    <3> QED
      BY <1>1, <3>1 DEF ContractInv, Types, Keeps, Given, RoundsEarned, AllSent,
                        ReservedIndices, contract, vars, waits
  <2> QED
    BY <2>1, <2>2
<1>4. Types'
  <2>1. mempool' \in [Actor -> Seq(Transactions)]
    BY <1>1, HeadJustified, ZenonT(30) DEF ContractInv, Types
  <2> QED
    BY <1>1, <1>3, <2>1, ZenonT(30) DEF ContractInv, Types, waits
<1>5. Pending'
  <2> SUFFICES ASSUME NEW b \in Actor, NEW k \in 1..Len(mempool[b])'
               PROVE  Justified(b, mempool[b][k])'
    BY DEF Pending
  <2>1. PICK x : x = mempool'[b][k] /\ Justified(b, x)
    <3>1. CASE b # a
      BY <1>1, <3>1, ZenonT(30) DEF ContractInv, Types, Pending
    <3>2. CASE b = a
      BY <1>1, <3>2, HeadJustified DEF ContractInv, Types, Pending
    <3> QED
      BY <3>1, <3>2, ZenonT(30)
  <2>2. Justified(b, x)'
    BY <1>3, <2>1, KeptJustified DEF ContractInv
  <2> QED
    BY <2>1, <2>2 DEF Justified
<1> QED
  BY <1>3, <1>4, <1>5 DEF ContractInv

\* A step that concerns neither the contract nor what its callers know.
LEMMA QuietStep ==
  ASSUME ContractInv, UNCHANGED <<contract, mempool, waits, index_to_client>>
  PROVE  ContractInv'
<1>1. UNCHANGED <<round, reserved, inputs, output_shares, addr_to_i, broken, received,
                  recipients>>
  BY ZenonT(30) DEF contract, waits
<1>2. Types' /\ Given' /\ RoundsEarned'
  BY <1>1, ZenonT(30) DEF ContractInv, Types, Given, RoundsEarned, AllSent, ReservedIndices
<1>3. Pending'
  BY <1>1 DEF ContractInv, Pending, Justified, AllSent
<1> QED
  BY <1>2, <1>3 DEF ContractInv

\* A step of the designated party or of its node.
LEMMA DesignatedStepKeeps ==
  ASSUME Inv, ContractInv, DesignatedStep
  PROVE  ContractInv'
<1>1. CASE wait_for_indices
  <2>1. /\ addr_to_i = None
        /\ UNCHANGED <<round, reserved, inputs, output_shares, mempool, received,
                       recipients, index_to_client>>
    BY <1>1 DEF wait_for_indices, contract, calls, vars
  <2>2. /\ addr_to_i' \in [Index -> Address \cup {None}]
        /\ \A i \in Index : addr_to_i'[i] # None => reserved[i] = addr_to_i'[i]
        /\ broken' \/ (addr_to_i' = reserved /\ Enough(ReservedIndices))
    BY <1>1 DEF wait_for_indices, EnoughIndices, ContractInv, Types
  <2>3. Enough(ReservedIndices) => ReservedIndices = Index
    BY ExecutionAssumption, FS_Subset, ZenonT(30) DEF Enough, n_inputs, ReservedIndices
  <2>4. Types' /\ Given' /\ RoundsEarned'
    BY <2>1, <2>2, <2>3, ZenonT(30)
    DEF ContractInv, Types, Given, RoundsEarned, AllSent, ReservedIndices
  <2>5. Pending'
    BY <2>1 DEF ContractInv, Pending, Justified, AllSent
  <2> QED
    BY <2>4, <2>5 DEF ContractInv
<1>2. CASE wait_for_inputs
  <2>1. /\ received' = TRUE
        /\ Enough(inputs)
        /\ UNCHANGED <<round, reserved, inputs, output_shares, mempool, addr_to_i, broken,
                       recipients, index_to_client>>
    BY <1>2, ZenonT(30) DEF wait_for_inputs, contract, calls, vars
  <2>2. inputs = Index
    BY <2>1, ExecutionAssumption, FS_Subset, ZenonT(30) DEF Enough, n_inputs, ContractInv, Types
  <2>3. Types' /\ Given' /\ RoundsEarned'
    BY <2>1, <2>2, ZenonT(30)
    DEF ContractInv, Types, Given, RoundsEarned, AllSent, ReservedIndices
  <2>4. Pending'
    BY <2>1 DEF ContractInv, Pending, Justified, AllSent
  <2> QED
    BY <2>3, <2>4 DEF ContractInv
<1>3. CASE ReadClients
  <2>1. /\ recipients = None
        /\ recipients' = {e.addr : e \in {e \in ids_and_addrs : ~e.pending}}
        /\ UNCHANGED <<round, reserved, inputs, output_shares, mempool, addr_to_i, broken,
                       received, index_to_client>>
    BY <1>3, Zenon DEF ReadClients, contract, calls, vars
  <2>2. recipients' \subseteq Address
    BY <2>1 DEF Inv, TypeOK
  <2>3. ~AllSent
    BY <2>1, ZenonT(30) DEF AllSent
  <2>4. Types' /\ Given' /\ RoundsEarned'
    BY <2>1, <2>2, <2>3, ZenonT(30)
    DEF ContractInv, Types, Given, RoundsEarned, ReservedIndices
  <2>5. Pending'
    BY <2>1, <2>3 DEF ContractInv, Pending, Justified
  <2> QED
    BY <2>4, <2>5 DEF ContractInv
<1>4. ASSUME NEW i \in Index, ReportIndex(i)
      PROVE  ContractInv'
  <2>1. /\ addr_to_i # None /\ addr_to_i[i] # None
        /\ index_to_client' = [index_to_client EXCEPT ![i] = addr_to_i[i]]
        /\ UNCHANGED <<round, reserved, inputs, output_shares, mempool, addr_to_i, broken,
                       received, recipients>>
    BY <1>4, ZenonT(30) DEF ReportIndex, add_reserved_index, contract, calls, waits
  <2>2. Types' /\ RoundsEarned' /\ Pending'
    BY <2>1 DEF ContractInv, Types, RoundsEarned, AllSent, Pending, Justified
  <2>3. Given'
    BY <2>1, ZenonT(30) DEF ContractInv, Types, Given, Inv, TypeOK, ReservedIndices
  <2> QED
    BY <2>2, <2>3 DEF ContractInv
<1>5. ASSUME NEW i \in Index, ReportShare(i)
      PROVE  ContractInv'
  BY <1>5, QuietStep DEF ReportShare, add_mask_share, calls
<1> QED
  BY <1>1, <1>2, <1>3, <1>4, <1>5 DEF DesignatedStep

LEMMA TxFields ==
  ASSUME NEW a \in Actor, NEW call \in Calls, NEW arg \in Int \cup Index \cup Address
  PROVE  /\ Tx(a, call, arg) \in Transactions
         /\ Tx(a, call, arg).from = a
         /\ Tx(a, call, arg).call = call
         /\ Tx(a, call, arg).arg = arg
BY DEF Tx, Transactions

\* A client or another address reserves or submits.
LEMMA AddressSends ==
  ASSUME ContractInv, NEW a \in Address, NEW i \in Index,
         NEW call \in {"reserveMaskIndex", "submitMaskedInput"},
         SendTx(Tx(a, call, i))
  PROVE  ContractInv'
<1> DEFINE tx == Tx(a, call, i)
<1>1. tx \in Transactions /\ tx.from = a /\ tx.call = call /\ tx.arg = i /\ a \in Actor
  <2>1. a \in Actor
    BY DEF Actor
  <2>2. i \in Int \cup Index \cup Address
    OBVIOUS
  <2>3. call \in Calls
    BY DEF Calls
  <2> QED
    BY <2>1, <2>2, <2>3, TxFields
<1>2. Accepts(tx)
  BY ZenonT(30) DEF SendTx
<1> HIDE DEF tx
<1>3. Justified(a, tx)
  BY <1>1, <1>2, AcceptsCases DEF Justified, InputCollection, ContractInv, Types
<1> QED
  BY <1>1, <1>3, SendTxStep DEF tx

LEMMA RequestQuiet ==
  ASSUME ContractInv, NEW id, NEW addr, NEW sig,
         receive_mask_share(id, addr, sig), UNCHANGED <<contract, calls, waits>>
  PROVE  ContractInv'
BY QuietStep DEF receive_mask_share, calls

LEMMA ContractStep ==
  ASSUME Inv, ContractInv, NextExecution
  PROVE  ContractInv'
<1>1. ASSUME NEW r \in ORDERED_ROUNDS, trigger_round(r)
      PROVE  ContractInv'
  <2> DEFINE tx == Tx(designated, "round", r)
  <2>1. /\ tx \in Transactions /\ tx.from = designated /\ tx.call = "round" /\ tx.arg = r
        /\ designated \in Actor /\ r \in Int /\ r <= ProgramFinished
    <3>1. designated \in Actor
      BY ExecutionAssumption, ZenonT(30) DEF Actor
    <3>2. r \in Int /\ r <= ProgramFinished
      BY DEF ORDERED_ROUNDS, Preprocessing, ProgramFinished
    <3>3. r \in Int \cup Index \cup Address
      BY <3>2
    <3>4. "round" \in Calls
      BY DEF Calls
    <3> QED
      BY <3>1, <3>2, <3>3, <3>4, TxFields
  <2>2. SendTx(tx) /\ ReadyFor(r)
    BY <1>1 DEF trigger_round
  <2>3. Accepts(tx)
    BY <2>2 DEF SendTx
  <2> HIDE DEF tx
  <2>4. r = round + 1
    BY <2>1, <2>3, AcceptsCases, ZenonT(30)
  <2>5. (r >= MPCExecution => received) /\ (r >= ProgramFinished => AllSent)
    BY <2>1, <2>2, <2>4
    DEF ReadyFor, AllSent, ContractInv, RoundsEarned, Types, MPCExecution, ProgramFinished
  <2>6. Justified(designated, tx)
    BY <2>1, <2>4, <2>5 DEF Justified, ContractInv, Types
  <2> QED
    BY <2>1, <2>2, <2>6, SendTxStep
<1>2. ASSUME NEW p \in Party, NEW addr \in Address, send_output_shares(p, addr)
      PROVE  ContractInv'
  <2> DEFINE tx == Tx(p, "sendOutputShares", addr)
  <2>1. /\ tx \in Transactions /\ tx.from = p /\ tx.call = "sendOutputShares" /\ tx.arg = addr
        /\ p \in Actor
    <3>1. p \in Actor
      BY DEF Actor
    <3>2. addr \in Int \cup Index \cup Address
      OBVIOUS
    <3>3. "sendOutputShares" \in Calls
      BY DEF Calls
    <3> QED
      BY <3>1, <3>2, <3>3, TxFields
  <2>2. SendTx(tx) /\ recipients # None /\ addr \in recipients
    BY <1>2 DEF send_output_shares
  <2>3. Accepts(tx)
    BY <2>2, ZenonT(30) DEF SendTx
  <2> HIDE DEF tx
  <2>4. Justified(p, tx)
    BY <2>1, <2>2, <2>3, AcceptsCases DEF Justified, OutputDistribution
  <2> QED
    BY <2>1, <2>2, <2>4, SendTxStep
<1>3. ASSUME NEW c \in Honest, ClientStep(c)
      PROVE  ContractInv'
  <2>1. c \in Address /\ index_of[c] \in Index
    BY ExecutionAssumption, ZenonT(30)
  <2>2. ASSUME NEW call \in {"reserveMaskIndex", "submitMaskedInput"},
               SendOrFail(Tx(c, call, index_of[c]))
        PROVE  ContractInv'
    <3>1. CASE Accepts(Tx(c, call, index_of[c]))
      BY <2>1, <2>2, <3>1, AddressSends DEF SendOrFail
    <3>2. CASE ~Accepts(Tx(c, call, index_of[c]))
      BY <2>2, <3>2, QuietStep DEF SendOrFail, calls, vars
    <3> QED
      BY <3>1, <3>2
  <2>3. CASE reserve_mask_index(c) \/ send_masked_input(c)
    BY <2>2, <2>3 DEF reserve_mask_index, send_masked_input
  <2>4. CASE receive_mask(c)
    <3>1. CASE receive_mask_share(tls_id[c], c, index_of[c])
      BY <2>4, <3>1, RequestQuiet, ZenonT(30) DEF receive_mask
    <3>2. CASE UNCHANGED vars
      BY <2>4, <3>2, QuietStep DEF receive_mask, calls, vars
    <3> QED
      BY <2>4, <3>1, <3>2, ZenonT(30) DEF receive_mask
  <2>5. CASE MaskReceived(c) \/ obtain_outputs(c)
    BY <2>5, QuietStep DEF MaskReceived, obtain_outputs, calls, vars
  <2> QED
    BY <1>3, <2>3, <2>4, <2>5 DEF ClientStep
<1>4. ASSUME NEW addr \in Address \ Honest, OtherCall(addr)
      PROVE  ContractInv'
  BY <1>4, AddressSends DEF OtherCall
<1>5. ASSUME NEW id \in OtherId, NEW addr \in Address, OtherRequest(id, addr)
      PROVE  ContractInv'
  BY <1>5, RequestQuiet, ZenonT(30) DEF OtherRequest
<1>6. CASE GiveUp
  BY <1>6, QuietStep DEF GiveUp, vars
<1> QED
  BY <1>1, <1>2, <1>3, <1>4, <1>5, <1>6, MineStep, DesignatedStepKeeps DEF NextExecution

\* To the node, an execution is a behaviour of the node.
LEMMA NodeSteps ==
  ASSUME ContractInv, [NextExecution]_varsExecution
  PROVE  [Next]_vars
<1>1. CASE UNCHANGED varsExecution
  BY <1>1, ZenonT(30) DEF varsExecution
<1>2. ASSUME NEW i \in Index, ReportIndex(i)
      PROVE  Next
  <2>1. addr_to_i[i] \in Address /\ add_reserved_index(addr_to_i[i], i)
    BY <1>2, ZenonT(30) DEF ReportIndex, ContractInv, Types
  <2> DEFINE r == [addr |-> addr_to_i[i], index |-> i]
  <2>2. r \in Reservations /\ r.addr = addr_to_i[i] /\ r.index = i
    BY <2>1, ExecutionAssumption, ZenonT(30)
  <2> HIDE DEF r
  <2> QED
    BY <2>1, <2>2, ZenonT(30) DEF Next
<1>3. CASE DesignatedStep
  BY <1>2, <1>3
  DEF DesignatedStep, wait_for_indices, wait_for_inputs, ReadClients, ReportShare, Next
<1>4. ASSUME NEW c \in Honest, ClientStep(c)
      PROVE  [Next]_vars
  <2>1. c \in Address /\ tls_id[c] \in Id /\ index_of[c] \in Index
    BY ExecutionAssumption, ZenonT(30)
  <2>2. CASE receive_mask(c)
    BY <2>1, <2>2 DEF receive_mask, Next, Signature
  <2>3. CASE ~receive_mask(c)
    BY <1>4, <2>3, Zenon
    DEF ClientStep, reserve_mask_index, send_masked_input, MaskReceived,
                      obtain_outputs, SendOrFail, SendTx
  <2> QED
    BY <2>2, <2>3
<1>5. ASSUME NEW id \in OtherId, NEW addr \in Address, OtherRequest(id, addr)
      PROVE  Next
  <2>1. id \in Id /\ OtherSignature(addr) \subseteq Signature
    BY DEF OtherId, OtherSignature, Signature
  <2> QED
    BY <1>5, <2>1 DEF OtherRequest, Next
<1>6. ASSUME NEW a \in Actor, Mine(a)
      PROVE  UNCHANGED vars
  BY <1>6 DEF Mine
<1>7. ASSUME NEW r, trigger_round(r)
      PROVE  UNCHANGED vars
  BY <1>7 DEF trigger_round, SendTx
<1>8. ASSUME NEW p, NEW addr, send_output_shares(p, addr)
      PROVE  UNCHANGED vars
  BY <1>8 DEF send_output_shares, SendTx
<1>9. ASSUME NEW addr, OtherCall(addr)
      PROVE  UNCHANGED vars
  BY <1>9 DEF OtherCall, SendTx
<1>10. CASE GiveUp
  BY <1>10 DEF GiveUp
<1> QED
  BY <1>1, <1>3, <1>4, <1>5, <1>6, <1>7, <1>8, <1>9, <1>10, ZenonT(30) DEF NextExecution

\* The invariants of the node and of the contract hold in every execution.
THEOREM ExecutionInvariant == SpecExecution => [](Inv /\ ContractInv)
<1>1. InitExecution => Inv /\ ContractInv
  <2> SUFFICES ASSUME InitExecution
               PROVE  Inv /\ ContractInv
    OBVIOUS
  <2>1. Inv
    BY Zenon DEF InitExecution, Init, Inv, TypeOK, OwnIndex, Authentic, SentToOwner
  <2>2. Types
    BY DEF InitExecution, Types, Idle
  <2>3. Pending
    BY DEF InitExecution, Pending
  <2>4. Given /\ RoundsEarned
    BY DEF InitExecution, Init, Given, RoundsEarned, Idle, MPCExecution, ProgramFinished
  <2> QED
    BY <2>1, <2>2, <2>3, <2>4 DEF ContractInv
<1>2. (Inv /\ ContractInv) /\ [NextExecution]_varsExecution => (Inv /\ ContractInv)'
  <2> SUFFICES ASSUME Inv, ContractInv, [NextExecution]_varsExecution
               PROVE  Inv' /\ ContractInv'
    OBVIOUS
  <2>1. [Next]_vars
    BY NodeSteps, ZenonT(30)
  <2>2. Inv /\ UNCHANGED vars => Inv'
    BY DEF vars, Inv, TypeOK, OwnIndex, Authentic, Proof, SentToOwner
  <2>3. Inv'
    BY <2>1, <2>2, ReserveStep, ShareStep, ReceiveStep DEF Next
  <2>4. UNCHANGED varsExecution => ContractInv'
    BY QuietStep DEF varsExecution, vars, calls
  <2> QED
    BY <2>3, <2>4, ContractStep
<1> QED
  BY <1>1, <1>2, PTL DEF SpecExecution

\* Whatever parties and clients do over the contract, the node behaves as
\* OnChainNode says, so that its theorems hold in every execution
\* (add_reserved_index, add_mask_share, receive_mask_share).
THEOREM NodeOfExecution == SpecExecution => Spec
<1>1. InitExecution => Init
  BY DEF InitExecution
<1>2. ContractInv /\ [NextExecution]_varsExecution => [Next]_vars
  BY NodeSteps
<1> QED
  BY <1>1, <1>2, ExecutionInvariant, PTL DEF SpecExecution, Spec

\* What is said of the node holds in an execution over the contract, whatever the
\* contract announces and the addresses ask for: shares go to their owners only,
\* and none is forgotten (add_reserved_index, add_mask_share, receive_mask_share).
THEOREM SharesOfExecution == SpecExecution => [](SharesAuthenticated /\ SharesDelivered)
BY NodeOfExecution, AuthenticatedShares, DeliveredShares, PTL

\* The designated party goes on with the contract's reservations and with all the
\* inputs, and the node sends shares only to the addresses that reserved them on
\* the contract (wait_for_indices, wait_for_inputs, add_reserved_index).
THEOREM CompleteResults == SpecExecution => []ResultsComplete
<1>1. Inv /\ ContractInv => ResultsComplete
  <2> SUFFICES ASSUME Inv, ContractInv
               PROVE  ResultsComplete
    BY ZenonT(30)
  <2>1. \A addr \in Address : \A i \in sent[addr] : reserved[i] = addr
    BY OnChainAssumption, ZenonT(30) DEF Inv, TypeOK, SentToOwner, ContractInv, Given
  <2> QED
    BY <2>1 DEF ContractInv, Given, ResultsComplete
<1> QED
  BY <1>1, ExecutionInvariant, PTL

\* What is pending goes away only by being mined.
LEMMA OnlyMined ==
  ASSUME ContractInv, NextExecution, NEW a \in Actor,
         mempool[a] # <<>>, mempool'[a] = <<>>
  PROVE  Mine(a)
<1>1. ASSUME NEW tx, SendTx(tx)
      PROVE  FALSE
  <2>1. mempool \in [Actor -> Seq(Transactions)]
    BY DEF ContractInv, Types
  <2>2. mempool[a] \in Seq(Transactions \cup {tx})
    BY <2>1
  <2>3. Append(mempool[a], tx) # <<>>
    BY <2>2
  <2>4. mempool' = [mempool EXCEPT ![tx.from] = Append(mempool[tx.from], tx)]
    BY <1>1 DEF SendTx
  <2> QED
    BY <2>1, <2>3, <2>4, ZenonT(30)
<1>2. ASSUME NEW b \in Actor, Mine(b)
      PROVE  Mine(a)
  <2>1. CASE a = b
    BY <1>2, <2>1, ZenonT(30)
  <2>2. CASE a # b
    BY <1>2, <2>2 DEF Mine, ContractInv, Types
  <2> QED
    BY <2>1, <2>2
<1>3. mempool' # mempool
  OBVIOUS
<1>4. ~DesignatedStep /\ ~GiveUp
  BY <1>3 DEF DesignatedStep, wait_for_indices, wait_for_inputs, ReadClients, ReportIndex,
              ReportShare, GiveUp, calls
<1>5. ~\E c \in Honest : ClientStep(c)
  BY <1>1, <1>3, ZenonT(30)
  DEF ClientStep, reserve_mask_index, send_masked_input, receive_mask,
                    MaskReceived, obtain_outputs, SendOrFail, calls
<1>6. /\ ~\E addr \in Address \ Honest : OtherCall(addr)
      /\ ~\E id \in OtherId, addr \in Address : OtherRequest(id, addr)
  BY <1>1, <1>3, ZenonT(30) DEF OtherCall, OtherRequest, calls
<1>7. /\ ~\E r \in ORDERED_ROUNDS : trigger_round(r)
      /\ ~\E p \in Party, addr \in Address : send_output_shares(p, addr)
  BY <1>1 DEF trigger_round, send_output_shares
<1> QED
  BY <1>2, <1>4, <1>5, <1>6, <1>7 DEF NextExecution

LEMMA DoneCases ==
  ASSUME NEW tx
  PROVE  /\ tx.call = "round" => (Done(tx)' <=> round' >= tx.arg)
         /\ tx.call = "reserveMaskIndex" => (Done(tx)' <=> reserved'[tx.arg] = tx.from)
         /\ tx.call = "submitMaskedInput" => (Done(tx)' <=> tx.arg \in inputs')
         /\ tx.call = "sendOutputShares" => (Done(tx)' <=> tx.from \in output_shares'[tx.arg])
BY Zenon DEF Done

\* A justified transaction has been done once it is mined, unless it is a
\* reservation that lost its index.
LEMMA DoneWhenMined ==
  ASSUME ContractInv, NEW a \in Actor, NEW tx, Justified(a, tx), Ok(tx, Accepts(tx)),
         IF Accepts(tx) THEN Execute(tx) ELSE UNCHANGED contract
  PROVE  Done(tx)'
<1>1. CASE tx.call = "round"
  <2>1. tx.arg \in Int /\ round \in Int /\ tx.arg <= round + 1
    BY <1>1 DEF Justified, ContractInv, Types
  <2>2. CASE Accepts(tx)
    BY <1>1, <2>1, <2>2, DoneCases, SMTT(30) DEF Execute
  <2>3. CASE ~Accepts(tx)
    <3>1. UNCHANGED contract
      BY <2>3, Zenon
    <3>2. round' = round
      BY <3>1 DEF contract
    <3>3. tx.arg # round + 1
      BY <1>1, <2>3, AcceptsCases, Zenon
    <3>4. round' >= tx.arg
      BY <2>1, <3>2, <3>3
    <3> QED
      BY <1>1, <3>4, DoneCases, Zenon
  <2> QED
    BY <2>2, <2>3, ZenonT(30)
<1>2. CASE tx.call = "reserveMaskIndex"
  <2>1. Accepts(tx) /\ tx.arg \in Index
    BY <1>2 DEF Ok, Justified
  <2> QED
    BY <1>2, <2>1, DoneCases, Zenon DEF Execute, ContractInv, Types
<1>3. CASE tx.call = "submitMaskedInput"
  <2>1. tx.arg \in Index /\ reserved[tx.arg] = tx.from /\ round >= InputCollection
    BY <1>3 DEF Justified
  <2>2. CASE Accepts(tx)
    BY <1>3, <2>2, DoneCases, ZenonT(30) DEF Execute
  <2>3. CASE ~Accepts(tx)
    <3>1. tx.arg \in inputs \/ round >= MPCExecution
      BY <1>3, <2>1, <2>3, AcceptsCases
      DEF ContractInv, Types, InputCollection, MPCExecution
    <3>2. tx.arg \in inputs
      BY <2>1, <3>1 DEF ContractInv, Given, RoundsEarned
    <3> QED
      BY <1>3, <2>3, <3>2, DoneCases, ZenonT(30) DEF contract
  <2> QED
    BY <2>2, <2>3
<1>4. CASE tx.call = "sendOutputShares"
  <2>1. /\ tx.from = a /\ a \in Party /\ tx.arg \in Address
        /\ recipients # None /\ tx.arg \in recipients /\ round >= OutputDistribution
    BY <1>4, ZenonT(30) DEF Justified
  <2>2. CASE Accepts(tx)
    BY <1>4, <2>1, <2>2, DoneCases, ZenonT(30) DEF Execute, ContractInv, Types
  <2>3. CASE ~Accepts(tx)
    <3>1. tx.from \in output_shares[tx.arg] \/ round >= ProgramFinished
      <4>1. round # OutputDistribution \/ tx.from \in output_shares[tx.arg]
        BY <1>4, <2>3, AcceptsCases, ZenonT(30)
      <4>2. round \in Int
        BY ZenonT(30) DEF ContractInv, Types
      <4> QED
        BY <2>1, <4>1, <4>2 DEF OutputDistribution, ProgramFinished
    <3>2. tx.from \in output_shares[tx.arg]
      BY <2>1, <3>1 DEF ContractInv, RoundsEarned, AllSent
    <3> QED
      BY <1>4, <2>3, <3>2, DoneCases, ZenonT(30) DEF contract
  <2> QED
    BY <2>2, <2>3
<1> QED
  BY <1>1, <1>2, <1>3, <1>4 DEF Justified

\* The call of an actor whose transaction is mined returns Ok only if what was
\* asked for has been done, also where the receipt is not looked at: what is
\* reverted by then had been done before (trigger_round, reserve_mask_index,
\* send_masked_input, send_output_shares).
THEOREM OkIsDone == SpecExecution => OkMeansDone
<1> DEFINE OkStep ==
      \A a \in Actor : \A tx \in {mempool[a][k] : k \in DOMAIN mempool[a]} :
        Awaited(a) /\ mempool'[a] = <<>> /\ Ok(tx, Accepts(tx)) => Done(tx)'
<1>1. ContractInv /\ [NextExecution]_varsExecution => [OkStep]_varsExecution
  <2> SUFFICES ASSUME ContractInv, NextExecution,
                      NEW a \in Actor,
                      NEW tx \in {mempool[a][k] : k \in DOMAIN mempool[a]},
                      Awaited(a), mempool'[a] = <<>>, Ok(tx, Accepts(tx))
               PROVE  Done(tx)'
    BY DEF varsExecution
  <2>1. mempool[a] \in Seq(Transactions) /\ Len(mempool[a]) = 1
    BY DEF ContractInv, Types, Awaited
  <2>2. mempool[a] # <<>> /\ tx = mempool[a][1] /\ tx = Head(mempool[a])
    BY <2>1
  <2>3. Mine(a)
    BY <2>2, OnlyMined, ZenonT(30)
  <2>4. Justified(a, tx)
    BY <2>2, HeadJustified
  <2>5. IF Accepts(tx) THEN Execute(tx) ELSE UNCHANGED contract
    BY <2>2, <2>3 DEF Mine
  <2> QED
    BY <2>4, <2>5, DoneWhenMined, ZenonT(30)
<1> QED
  BY <1>1, ExecutionInvariant, PTL DEF SpecExecution, OkMeansDone

\* The contract changes only when a transaction is mined.
LEMMA ContractMined ==
  ASSUME NextExecution
  PROVE  UNCHANGED contract \/ \E a \in Actor : Mine(a)
<1>1. ASSUME NEW tx, SendTx(tx)
      PROVE  UNCHANGED contract
  BY <1>1 DEF SendTx
<1>2. DesignatedStep \/ GiveUp => UNCHANGED contract
  BY DEF DesignatedStep, wait_for_indices, wait_for_inputs, ReadClients, ReportIndex,
         ReportShare, GiveUp
<1>3. (\E c \in Honest : ClientStep(c)) => UNCHANGED contract
  BY <1>1, ZenonT(30) DEF ClientStep, reserve_mask_index, send_masked_input, receive_mask,
                    MaskReceived, obtain_outputs, SendOrFail
<1>4. /\ (\E addr \in Address \ Honest : OtherCall(addr)) => UNCHANGED contract
      /\ (\E id \in OtherId, addr \in Address : OtherRequest(id, addr)) => UNCHANGED contract
  BY <1>1, ZenonT(30) DEF OtherCall, OtherRequest
<1>5. /\ (\E r \in ORDERED_ROUNDS : trigger_round(r)) => UNCHANGED contract
      /\ (\E p \in Party, addr \in Address : send_output_shares(p, addr)) =>
           UNCHANGED contract
  BY <1>1, ZenonT(30) DEF trigger_round, send_output_shares
<1> QED
  BY <1>2, <1>3, <1>4, <1>5 DEF NextExecution

\* There are inputs only from the collection on, and for reserved indices only.
InputsOwned ==
  /\ round < InputCollection => inputs = {}
  /\ \A i \in inputs : reserved[i] # None

\* The four things a transaction may do to the contract.
LEMMA MinedCases ==
  ASSUME ContractInv, NEW a \in Actor, Mine(a)
  PROVE  \/ UNCHANGED contract
         \/ /\ round' = round + 1
            /\ round' >= MPCExecution => inputs = Index
            /\ UNCHANGED <<reserved, inputs>>
         \/ \E i \in Index :
              /\ a \in Address
              /\ round = InputMaskReservation /\ reserved[i] = None
              /\ reserved' = [reserved EXCEPT ![i] = a]
              /\ UNCHANGED <<round, inputs>>
         \/ \E i \in Index :
              /\ a \in Address
              /\ round = InputCollection /\ reserved[i] = a /\ i \notin inputs
              /\ inputs' = inputs \cup {i}
              /\ UNCHANGED <<round, reserved>>
         \/ UNCHANGED <<round, reserved, inputs>>
<1> DEFINE tx == Head(mempool[a])
<1>1. /\ mempool[a] # <<>>
      /\ IF Accepts(tx) THEN Execute(tx) ELSE UNCHANGED contract
  BY DEF Mine
<1>2. Justified(a, tx)
  BY <1>1, HeadJustified
<1> HIDE DEF tx
<1>3. CASE ~Accepts(tx)
  BY <1>1, <1>3, ZenonT(30)
<1>4. CASE Accepts(tx)
  <2>0. Execute(tx)
    BY <1>1, <1>4, ZenonT(30)
  <2>1. CASE tx.call = "round"
    <3>1. tx.arg = round + 1 /\ (tx.arg >= MPCExecution => received)
      BY <1>2, <1>4, <2>1, AcceptsCases DEF Justified
    <3>2. round' = tx.arg /\ UNCHANGED <<reserved, inputs>>
      BY <2>0, <2>1 DEF Execute
    <3> QED
      BY <3>1, <3>2, ZenonT(30) DEF ContractInv, Given
  <2>2. CASE tx.call = "reserveMaskIndex"
    <3>1. tx.from = a /\ a \in Address /\ tx.arg \in Index
      BY <1>2, <2>2, ZenonT(30) DEF Justified
    <3>2. round = InputMaskReservation /\ reserved[tx.arg] = None
      BY <1>4, <2>2, AcceptsCases
    <3>3. reserved' = [reserved EXCEPT ![tx.arg] = a] /\ UNCHANGED <<round, inputs>>
      BY <2>0, <2>2, <3>1, ZenonT(30) DEF Execute
    <3> QED
      BY <3>1, <3>2, <3>3, Zenon
  <2>3. CASE tx.call = "submitMaskedInput"
    <3>1. tx.from = a /\ a \in Address /\ tx.arg \in Index
      BY <1>2, <2>3, ZenonT(30) DEF Justified
    <3>2. round = InputCollection /\ reserved[tx.arg] = a /\ tx.arg \notin inputs
      BY <1>4, <2>3, <3>1, AcceptsCases, ZenonT(30)
    <3>3. inputs' = inputs \cup {tx.arg} /\ UNCHANGED <<round, reserved>>
      BY <2>0, <2>3, ZenonT(30) DEF Execute
    <3> QED
      BY <3>1, <3>2, <3>3
  <2>4. CASE tx.call = "sendOutputShares"
    BY <2>0, <2>4, ZenonT(30) DEF Execute
  <2> QED
    BY <1>2, <2>1, <2>2, <2>3, <2>4 DEF Justified
<1> QED
  BY <1>3, <1>4

LEMMA InputsOwnedStep ==
  ASSUME ContractInv, InputsOwned, [NextExecution]_varsExecution
  PROVE  InputsOwned'
<1>1. CASE UNCHANGED <<round, reserved, inputs>>
  BY <1>1, ZenonT(30) DEF InputsOwned
<1>2. ASSUME NEW a \in Actor, Mine(a), ~UNCHANGED <<round, reserved, inputs>>
      PROVE  InputsOwned'
  <2>0. /\ round \in Int /\ reserved \in [Index -> Address \cup {None}]
        /\ inputs \subseteq Index
    BY Zenon DEF ContractInv, Types
  <2>1. CASE round' = round + 1 /\ UNCHANGED <<reserved, inputs>>
    BY <2>0, <2>1 DEF InputsOwned, InputCollection
  <2>2. ASSUME NEW i \in Index, a \in Address, round = InputMaskReservation,
               reserved' = [reserved EXCEPT ![i] = a], UNCHANGED <<round, inputs>>
        PROVE  InputsOwned'
    <3>1. inputs = {}
      BY <2>2 DEF InputsOwned, InputMaskReservation, InputCollection
    <3> QED
      BY <2>2, <3>1, Zenon DEF InputsOwned
  <2>3. ASSUME NEW i \in Index, a \in Address, round = InputCollection, reserved[i] = a,
               inputs' = inputs \cup {i}, UNCHANGED <<round, reserved>>
        PROVE  InputsOwned'
    <3>1. ~(round' < InputCollection)
      BY <2>3 DEF InputCollection
    <3> QED
      BY <2>3, <3>1, OnChainAssumption, ZenonT(30) DEF InputsOwned
  <2> QED
    BY <1>2, <2>1, <2>2, <2>3, MinedCases, ZenonT(30) DEF contract
<1> QED
  BY <1>1, <1>2, ContractMined DEF varsExecution, contract

\* A transaction that is mined is a step of the promise or changes nothing of it.
LEMMA MinedCommits ==
  ASSUME ContractInv, InputsOwned, NEW a \in Actor, Mine(a)
  PROVE  [Commitment!Next]_(Commitment!commitment)
<1> DEFINE input == [i \in Index |-> IF i \in inputs THEN reserved[i] ELSE None]
<1>0. /\ round \in Int /\ reserved \in [Index -> Address \cup {None}]
      /\ inputs \subseteq Index
  BY DEF ContractInv, Types
<1>1. CASE UNCHANGED <<round, reserved, inputs>>
  BY <1>1 DEF Commitment!commitment
<1>2. CASE /\ round' = round + 1
           /\ round' >= MPCExecution => inputs = Index
           /\ UNCHANGED <<reserved, inputs>>
  <2>1. CASE round' < InputCollection \/ round > InputCollection
    BY <1>0, <1>2, <2>1 DEF Commitment!commitment, InputCollection
  <2>2. CASE round' = InputCollection
    BY <1>0, <1>2, <2>2, SMTT(30) DEF Commitment!Next, Commitment!Collect, InputCollection
  <2>3. CASE round = InputCollection
    <3>1. inputs = Index
      BY <1>2, <2>3 DEF InputCollection, MPCExecution
    <3>2. \A i \in Index : input[i] # None
      BY <3>1 DEF InputsOwned
    <3> QED
      BY <1>2, <2>3, <3>2 DEF Commitment!Next, Commitment!Run, InputCollection
  <2> QED
    BY <1>0, <1>2, <2>1, <2>2, <2>3 DEF InputCollection
<1>3. ASSUME NEW i \in Index, a \in Address,
             round = InputMaskReservation, reserved[i] = None,
             reserved' = [reserved EXCEPT ![i] = a], UNCHANGED <<round, inputs>>
      PROVE  Commitment!Next
  <2>1. inputs = {}
    BY <1>3 DEF InputsOwned, InputMaskReservation, InputCollection
  <2>2. input' = input
    BY <1>3, <2>1
  <2>3. reserved' = [j \in Index |-> IF j \in {i} THEN a ELSE reserved[j]]
    BY <1>0, <1>3, Zenon
  <2>4. \A j \in {i} : reserved[j] = None /\ [k \in Index |-> None][j] \in {None, a}
    BY <1>3
  <2>5. round < InputCollection
    BY <1>3 DEF InputMaskReservation, InputCollection
  <2>6. Commitment!Take(a, {i})
    BY <1>3, <2>2, <2>3, <2>4, <2>5, ZenonT(30)
    DEF Commitment!Take, InputMaskReservation, InputCollection
  <2> QED
    BY <1>3, <2>6 DEF Commitment!Next
<1>4. ASSUME NEW i \in Index, a \in Address,
             round = InputCollection, reserved[i] = a, i \notin inputs,
             inputs' = inputs \cup {i}, UNCHANGED <<round, reserved>>
      PROVE  Commitment!Next
  <2>1. input' = [j \in Index |-> IF j \in {i} THEN a ELSE input[j]]
    BY <1>0, <1>4, ZenonT(30)
  <2>2. Commitment!Fill(a, {i})
    BY <1>4, <2>1 DEF Commitment!Fill, InputCollection
  <2> QED
    BY <1>4, <2>2, ZenonT(30) DEF Commitment!Next
<1> QED
  BY <1>1, <1>2, <1>3, <1>4, MinedCases, ZenonT(30) DEF contract

\* An execution over the contract, with any number of parties, clients, indices and
\* repeated calls, keeps the promise that CoordinatorExecution keeps: an index is
\* filled by the address that took it, and the program starts on all the inputs,
\* which stay as they are.  The contract does not ask for them; that the designated
\* party did is known of every call for the round that may still be mined
\* (wait_for_inputs, trigger_round, send_masked_input).
THEOREM CommitmentOnChain == SpecExecution => KeepsCommitment
<1>1. InitExecution => InputsOwned /\ Commitment!Init
  BY DEF InitExecution, InputsOwned, Commitment!Init, Commitment!Free, Idle, InputCollection
<1>2. ContractInv /\ InputsOwned /\ [NextExecution]_varsExecution => InputsOwned'
  BY InputsOwnedStep
<1>3. ContractInv /\ InputsOwned /\ [NextExecution]_varsExecution =>
        [Commitment!Next]_(Commitment!commitment)
  <2> SUFFICES ASSUME ContractInv, InputsOwned, [NextExecution]_varsExecution
               PROVE  [Commitment!Next]_(Commitment!commitment)
    OBVIOUS
  <2>1. CASE UNCHANGED contract
    BY <2>1 DEF contract, Commitment!commitment
  <2> QED
    BY <2>1, ContractMined, MinedCommits DEF varsExecution
<1> QED
  BY <1>1, <1>2, <1>3, ExecutionInvariant, PTL DEF SpecExecution, KeepsCommitment,
     Commitment!Spec
================================================================================
