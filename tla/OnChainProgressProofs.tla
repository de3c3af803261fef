------------------------- MODULE OnChainProgressProofs -------------------------
(***************************************************************************)
(* SomebodyCan for any number of parties, clients, indices and other        *)
(* addresses.  The designated party waits for the clients, they for it and  *)
(* its node, the node for both.  That no such circle closes rests on what   *)
(* each of them knows of the others:                                        *)
(*                                                                          *)
(*   - an actor that waits for a transaction has one in the mempool, and    *)
(*     while the tries for a round are counted a call for it is there       *)
(*     (CallsInv);                                                          *)
(*   - a request waits at the node just until its reservation is known, an  *)
(*     honest client is authenticated then, and the assertion of the node   *)
(*     only fails on a second index of an address (RequestsInv);            *)
(*   - how far a client is, is also what the contract and the node know,    *)
(*     and the node rejects it only if somebody else asked in its name      *)
(*     (ClientsInv);                                                        *)
(*   - the clients that are sent outputs include every honest client that   *)
(*     has its index (Served).                                              *)
(***************************************************************************)
EXTENDS OnChainNodeProofs

\* The transactions of an actor that are not mined.
Txs(a) == {mempool[a][k] : k \in 1..Len(mempool[a])}

LEMMA SendTxs ==
  ASSUME ContractInv, NEW tx \in Transactions, SendTx(tx)
  PROVE  /\ Txs(tx.from)' = Txs(tx.from) \cup {tx}
         /\ mempool'[tx.from] # <<>>
         /\ \A b \in Actor : b # tx.from => Txs(b)' = Txs(b) /\ mempool'[b] = mempool[b]
         /\ mempool[tx.from] = <<>> => Len(mempool'[tx.from]) = 1 /\ mempool'[tx.from][1] = tx
         /\ awaiting' = awaiting \cup {tx.from}
         /\ tx.from \notin awaiting
         /\ Accepts(tx)
<1> DEFINE old == mempool[tx.from]
           new == mempool'[tx.from]
<1>1. /\ mempool \in [Actor -> Seq(Transactions)]
      /\ tx.from \in Actor
      /\ old \in Seq(Transactions)
  BY Zenon DEF ContractInv, Types, Transactions
<1>2. mempool' = [mempool EXCEPT ![tx.from] = Append(old, tx)]
  BY DEF SendTx
<1>3. new = Append(old, tx)
  BY <1>1, <1>2
<1>4. \A b \in Actor : b # tx.from => mempool'[b] = mempool[b]
  BY <1>1, <1>2
<1> HIDE DEF old, new
<1>5. /\ Len(new) = Len(old) + 1
      /\ Len(old) \in Nat
      /\ new[Len(old) + 1] = tx
      /\ \A k \in 1..Len(old) : new[k] = old[k]
      /\ new # <<>>
      /\ old = <<>> => Len(old) = 0
  BY <1>1, <1>3
<1>6. {new[k] : k \in 1..Len(new)} = {old[k] : k \in 1..Len(old)} \cup {tx}
  <2>1. \A k \in 1..Len(new) : k = Len(old) + 1 \/ k \in 1..Len(old)
    BY <1>5
  <2>2. \A k \in 1..Len(old) : k \in 1..Len(new)
    BY <1>5
  <2>3. Len(old) + 1 \in 1..Len(new)
    BY <1>5
  <2> QED
    BY <1>5, <2>1, <2>2, <2>3, Zenon
<1> QED
  <2>1. awaiting' = awaiting \cup {tx.from} /\ tx.from \notin awaiting /\ Accepts(tx)
    BY Zenon DEF SendTx
  <2>2. Txs(tx.from)' = Txs(tx.from) \cup {tx}
    BY <1>6, Zenon DEF Txs, old, new
  <2>3. \A b \in Actor : b # tx.from => Txs(b)' = Txs(b) /\ mempool'[b] = mempool[b]
    BY <1>4 DEF Txs
  <2>4. new # <<>> /\ (old = <<>> => Len(new) = 1 /\ new[1] = tx)
    BY <1>5
  <2> QED
    BY <2>1, <2>2, <2>3, <2>4, Zenon DEF old, new

LEMMA MineTxs ==
  ASSUME ContractInv, NEW a \in Actor, Mine(a)
  PROVE  /\ Head(mempool[a]) \in Txs(a)
         /\ Txs(a)' \subseteq Txs(a)
         /\ Txs(a) \subseteq Txs(a)' \cup {Head(mempool[a])}
         /\ \A b \in Actor : b # a => Txs(b)' = Txs(b) /\ mempool'[b] = mempool[b]
         /\ mempool[a] # <<>>
         /\ mempool'[a] = <<>> <=> Len(mempool[a]) = 1
         /\ Len(mempool[a]) = 1 => Head(mempool[a]) = mempool[a][1]
<1> DEFINE old == mempool[a]
           new == mempool'[a]
<1>1. /\ mempool \in [Actor -> Seq(Transactions)]
      /\ old \in Seq(Transactions)
      /\ old # <<>>
      /\ mempool' = [mempool EXCEPT ![a] = Tail(old)]
  BY DEF ContractInv, Types, Mine
<1>2. new = Tail(old) /\ \A b \in Actor : b # a => mempool'[b] = mempool[b]
  BY <1>1
<1> HIDE DEF old, new
<1>3. /\ Len(old) \in Nat \ {0}
      /\ Len(new) = Len(old) - 1
      /\ \A k \in 1..Len(new) : new[k] = old[k + 1]
      /\ Head(old) = old[1]
      /\ new \in Seq(Transactions)
  BY <1>1, <1>2
<1>4. new = <<>> <=> Len(old) = 1
  BY <1>3
<1>5. Head(old) \in {old[k] : k \in 1..Len(old)}
  BY <1>3
<1>6. {new[k] : k \in 1..Len(new)} \subseteq {old[k] : k \in 1..Len(old)}
  <2> SUFFICES ASSUME NEW k \in 1..Len(new)
               PROVE  new[k] \in {old[j] : j \in 1..Len(old)}
    BY Zenon
  <2>1. k + 1 \in 1..Len(old)
    BY <1>3
  <2>2. new[k] = old[k + 1]
    BY <1>3, Zenon
  <2> QED
    BY <2>1, <2>2, Zenon
<1>7. {old[k] : k \in 1..Len(old)} \subseteq {new[k] : k \in 1..Len(new)} \cup {Head(old)}
  <2> SUFFICES ASSUME NEW k \in 1..Len(old)
               PROVE  old[k] \in {new[j] : j \in 1..Len(new)} \cup {Head(old)}
    BY Zenon
  <2>1. CASE k = 1
    BY <1>3, <2>1, Zenon
  <2>2. CASE k # 1
    <3>1. \E j \in 1..Len(new) : j + 1 = k
      <4>1. k - 1 \in 1..Len(new) /\ (k - 1) + 1 = k
        BY <1>3, <2>2
      <4> QED
        BY <4>1, Zenon
    <3> QED
      BY <1>3, <3>1, ZenonT(30)
  <2> QED
    BY <2>1, <2>2, Zenon
<1>8. /\ Head(mempool[a]) \in Txs(a)
      /\ Txs(a)' \subseteq Txs(a)
      /\ Txs(a) \subseteq Txs(a)' \cup {Head(mempool[a])}
  BY <1>5, <1>6, <1>7, Zenon DEF Txs, old, new
<1>9. \A b \in Actor : b # a => Txs(b)' = Txs(b) /\ mempool'[b] = mempool[b]
  BY <1>2 DEF Txs
<1>10. /\ mempool[a] # <<>>
       /\ mempool'[a] = <<>> <=> Len(mempool[a]) = 1
       /\ Len(mempool[a]) = 1 => Head(mempool[a]) = mempool[a][1]
  BY <1>1, <1>3, <1>4, Zenon DEF old, new
<1> QED
  BY <1>8, <1>9, <1>10, Zenon

\* What a step may do to the calls under way.
LEMMA CallSteps ==
  ASSUME [NextExecution]_varsExecution
  PROVE  \/ UNCHANGED <<contract, calls>>
         \/ GiveUp
         \/ \E a \in Actor : Mine(a)
         \/ \E r \in ORDERED_ROUNDS : trigger_round(r)
         \/ \E p \in Party, addr \in Address :
              SendTx(Tx(p, "sendOutputShares", addr)) /\ UNCHANGED tries
         \/ \E c \in Honest :
              /\ \/ At(c, "start") /\ SendTx(Tx(c, "reserveMaskIndex", index_of[c]))
                 \/ At(c, "masked") /\ SendTx(Tx(c, "submitMaskedInput", index_of[c]))
              /\ UNCHANGED tries
         \/ \E addr \in Address \ Honest, i \in Index,
               call \in {"reserveMaskIndex", "submitMaskedInput"} :
              SendTx(Tx(addr, call, i)) /\ UNCHANGED tries
<1>1. CASE UNCHANGED varsExecution
  BY <1>1 DEF varsExecution
<1>2. CASE DesignatedStep
  BY <1>2 DEF DesignatedStep, wait_for_indices, wait_for_inputs, ReadClients, ReportIndex,
              ReportShare
<1>3. ASSUME NEW c \in Honest, ClientStep(c)
      PROVE  \/ UNCHANGED <<contract, calls>>
             \/ /\ \/ At(c, "start") /\ SendTx(Tx(c, "reserveMaskIndex", index_of[c]))
                   \/ At(c, "masked") /\ SendTx(Tx(c, "submitMaskedInput", index_of[c]))
                /\ UNCHANGED tries
  BY <1>3, ZenonT(30) DEF ClientStep, reserve_mask_index, send_masked_input, receive_mask,
                    MaskReceived, obtain_outputs, SendOrFail
<1>4. ASSUME NEW addr \in Address \ Honest, OtherCall(addr)
      PROVE  \E i \in Index, call \in {"reserveMaskIndex", "submitMaskedInput"} :
               SendTx(Tx(addr, call, i)) /\ UNCHANGED tries
  BY <1>4, Zenon DEF OtherCall
<1>5. ASSUME NEW p \in Party, NEW addr \in Address, send_output_shares(p, addr)
      PROVE  SendTx(Tx(p, "sendOutputShares", addr)) /\ UNCHANGED tries
  BY <1>5, Zenon DEF send_output_shares
<1>6. ASSUME NEW id, NEW addr, OtherRequest(id, addr)
      PROVE  UNCHANGED <<contract, calls>>
  BY <1>6, Zenon DEF OtherRequest
<1> QED
  BY <1>1, <1>2, <1>3, <1>4, <1>5, <1>6, ZenonT(30) DEF NextExecution

\* The node of the designated party knows all the reservations it was given.
Reported ==
  /\ addr_to_i # None
  /\ \A i \in Index : addr_to_i[i] # None => index_to_client[i] # None

\* Calls under way: who waits has a transaction, and a call for a round was ready
\* for it.
CallsInv ==
  /\ awaiting \subseteq Actor
  /\ \A a \in awaiting : mempool[a] # <<>>
  /\ tries \in Nat
  /\ tries > 0 =>
       \E tx \in Txs(designated) : tx.call = "round" /\ tx.arg = round + 1
  /\ \A a \in Actor : \A tx \in Txs(a) :
       tx.call = "round" =>
         tx.arg \in ORDERED_ROUNDS /\ (tx.arg >= InputCollection => Reported)
  /\ round \in Round
  /\ round >= InputCollection => Reported

\* What the party was given does not change, and its node forgets nothing.
LEMMA ReportedStays ==
  ASSUME Inv, ContractInv, [NextExecution]_varsExecution, Reported
  PROVE  Reported'
<1>1. addr_to_i' = addr_to_i
  <2>1. ASSUME NEW tx, SendTx(tx)
        PROVE  addr_to_i' = addr_to_i
    BY <2>1 DEF SendTx, waits
  <2>2. CASE DesignatedStep
    BY <2>2 DEF DesignatedStep, wait_for_indices, wait_for_inputs, ReadClients, ReportIndex,
                ReportShare, waits, Reported
  <2>3. ASSUME NEW c \in Honest, ClientStep(c)
        PROVE  addr_to_i' = addr_to_i
    BY <2>1, <2>3, ZenonT(30) DEF ClientStep, reserve_mask_index, send_masked_input, receive_mask,
                      MaskReceived, obtain_outputs, SendOrFail, waits
  <2>4. ASSUME NEW id, NEW addr, OtherCall(addr) \/ OtherRequest(id, addr)
        PROVE  addr_to_i' = addr_to_i
    BY <2>1, <2>4, ZenonT(30) DEF OtherCall, OtherRequest, waits
  <2> QED
    BY <2>1, <2>2, <2>3, <2>4
    DEF NextExecution, Mine, trigger_round, GiveUp, send_output_shares, varsExecution, waits
<1>2. \A i \in Index : index_to_client[i] # None => index_to_client'[i] # None
  <2>1. ASSUME NEW r \in Reservations, add_reserved_index(r.addr, r.index)
        PROVE  \A i \in Index : index_to_client[i] # None => index_to_client'[i] # None
    BY <2>1, OnChainAssumption DEF add_reserved_index, Inv, TypeOK
  <2>2. [Next]_vars
    BY NodeSteps
  <2> QED
    BY <2>1, <2>2 DEF Next, add_mask_share, receive_mask_share, vars
<1> QED
  BY <1>1, <1>2 DEF Reported

\* A transaction that is sent and calls for no round.
LEMMA SendCalls ==
  ASSUME ContractInv, CallsInv, NEW tx \in Transactions, SendTx(tx),
         tx.call # "round", UNCHANGED tries, Reported => Reported'
  PROVE  CallsInv'
<1>1. tx.from \in Actor /\ UNCHANGED <<round>> /\ designated \in Actor
  BY ExecutionAssumption, ZenonT(30) DEF Transactions, SendTx, contract, Actor
<1>2. \A a \in Actor : Txs(a) \subseteq Txs(a)' /\ Txs(a)' \subseteq Txs(a) \cup {tx}
  BY <1>1, SendTxs
<1>3. awaiting' \subseteq Actor /\ \A a \in awaiting' : mempool'[a] # <<>>
  BY <1>1, SendTxs DEF CallsInv
<1>4. tries' > 0 =>
        \E x \in Txs(designated)' : x.call = "round" /\ x.arg = round' + 1
  BY <1>1, <1>2 DEF CallsInv
<1>5. \A a \in Actor : \A x \in Txs(a)' :
        x.call = "round" =>
          x.arg \in ORDERED_ROUNDS /\ (x.arg >= InputCollection => Reported')
  BY <1>2 DEF CallsInv
<1> QED
  BY <1>1, <1>3, <1>4, <1>5 DEF CallsInv

\* A call for a round, made when the party is ready for it.
LEMMA TriggerCalls ==
  ASSUME ContractInv, CallsInv, NEW r \in ORDERED_ROUNDS, trigger_round(r),
         Reported => Reported'
  PROVE  CallsInv'
<1> DEFINE tx == Tx(designated, "round", r)
<1>1. /\ tx \in Transactions /\ tx.from = designated /\ tx.call = "round" /\ tx.arg = r
      /\ designated \in Actor
  <2>1. designated \in Actor /\ "round" \in Calls
    BY ExecutionAssumption, ZenonT(30) DEF Actor, Calls
  <2>2. r \in Int
    BY DEF ORDERED_ROUNDS, Preprocessing, ProgramFinished
  <2>3. r \in Int \cup Index \cup Address
    BY <2>2
  <2> QED
    BY <2>1, <2>3, TxFields
<1>2. SendTx(tx) /\ ReadyFor(r) /\ tries' = tries + 1 /\ round' = round
  BY DEF trigger_round, SendTx, contract
<1>3. Accepts(tx)
  BY <1>2 DEF SendTx
<1> HIDE DEF tx
<1>4. r = round + 1
  BY <1>1, <1>3, AcceptsCases
<1>5. r >= InputCollection => Reported
  BY <1>2, <1>4
  DEF ReadyFor, Reported, CallsInv, Round, Idle, ProgramFinished, InputCollection
<1>6. /\ Txs(designated)' = Txs(designated) \cup {tx}
      /\ \A a \in Actor : Txs(a)' \subseteq Txs(a) \cup {tx}
  BY <1>1, <1>2, SendTxs
<1>7. awaiting' \subseteq Actor /\ \A a \in awaiting' : mempool'[a] # <<>>
  BY <1>1, <1>2, SendTxs DEF CallsInv
<1>8. tries' \in Nat /\ \E x \in Txs(designated)' : x.call = "round" /\ x.arg = round' + 1
  BY <1>1, <1>2, <1>4, <1>6 DEF CallsInv
<1>9. \A a \in Actor : \A x \in Txs(a)' :
        x.call = "round" =>
          x.arg \in ORDERED_ROUNDS /\ (x.arg >= InputCollection => Reported')
  BY <1>1, <1>5, <1>6 DEF CallsInv
<1> QED
  BY <1>2, <1>7, <1>8, <1>9 DEF CallsInv

\* A transaction is mined.  The one that is called for is accepted when it comes.
LEMMA MineCalls ==
  ASSUME ContractInv, CallsInv, NEW a \in Actor, Mine(a), Reported => Reported'
  PROVE  CallsInv'
<1> DEFINE tx == Head(mempool[a])
<1>1. /\ tx \in Txs(a)
      /\ \A b \in Actor : Txs(b)' \subseteq Txs(b) /\ Txs(b) \subseteq Txs(b)' \cup {tx}
      /\ tries' = IF round' = round THEN tries ELSE 0
      /\ IF Accepts(tx) THEN Execute(tx) ELSE UNCHANGED contract
  BY MineTxs, Zenon DEF Mine
<1>2. awaiting' \subseteq Actor /\ \A b \in awaiting' : mempool'[b] # <<>>
  <2>1. awaiting' = IF Awaited(a) THEN awaiting \ {a} ELSE awaiting
    BY DEF Mine
  <2>2. a \in awaiting' => mempool'[a] # <<>>
    BY <2>1, MineTxs DEF Awaited
  <2> QED
    BY <2>1, <2>2, MineTxs DEF CallsInv
<1> HIDE DEF tx
<1>3. \/ round' = round /\ ~(tx.call = "round" /\ tx.arg = round + 1)
      \/ tx.call = "round" /\ round' = tx.arg /\ tx.arg = round + 1
  <2>1. CASE Accepts(tx) /\ tx.call = "round"
    <3>1. Execute(tx)
      BY <1>1, <2>1, Zenon
    <3> QED
      BY <2>1, <3>1, AcceptsCases DEF Execute
  <2>2. CASE Accepts(tx) /\ tx.call # "round"
    <3>1. Execute(tx)
      BY <1>1, <2>2, Zenon
    <3> QED
      BY <2>2, <3>1 DEF Execute
  <2>3. CASE ~Accepts(tx)
    <3>1. UNCHANGED contract
      BY <1>1, <2>3, Zenon
    <3> QED
      BY <2>3, <3>1, AcceptsCases DEF contract
  <2> QED
    BY <2>1, <2>2, <2>3
<1>4. round' \in Round /\ (round' >= InputCollection => Reported')
  BY <1>1, <1>3 DEF CallsInv, Round, ORDERED_ROUNDS, Idle, Preprocessing
<1>5. tries' \in Nat /\ (tries' > 0 => round' = round /\ tries' = tries)
  BY <1>1 DEF CallsInv
<1>6. tries' > 0 =>
        \E x \in Txs(designated)' : x.call = "round" /\ x.arg = round' + 1
  <2> SUFFICES ASSUME tries' > 0
               PROVE  \E x \in Txs(designated)' : x.call = "round" /\ x.arg = round' + 1
    OBVIOUS
  <2>1. PICK x \in Txs(designated) : x.call = "round" /\ x.arg = round + 1
    BY <1>5 DEF CallsInv
  <2>2. round \in Int
    BY DEF ContractInv, Types
  <2>3. x # tx
    BY <1>3, <1>5, <2>1, <2>2
  <2>4. x \in Txs(designated)'
    BY <1>1, <2>1, <2>3, ExecutionAssumption, ZenonT(30) DEF Actor
  <2> QED
    BY <1>5, <2>1, <2>4
<1>7. \A b \in Actor : \A x \in Txs(b)' :
        x.call = "round" =>
          x.arg \in ORDERED_ROUNDS /\ (x.arg >= InputCollection => Reported')
  BY <1>1 DEF CallsInv
<1> QED
  BY <1>2, <1>4, <1>5, <1>6, <1>7 DEF CallsInv

LEMMA CallsStep ==
  ASSUME Inv, ContractInv, CallsInv, [NextExecution]_varsExecution
  PROVE  CallsInv'
<1>1. Reported => Reported'
  BY ReportedStays
<1>2. CASE UNCHANGED <<contract, mempool, tries>> /\ awaiting' \subseteq awaiting
  <2>1. \A a \in Actor : Txs(a)' = Txs(a)
    BY <1>2 DEF Txs
  <2>2. round' = round /\ designated \in Actor
    BY <1>2, ExecutionAssumption, ZenonT(30) DEF contract, Actor
  <2> QED
    BY <1>1, <1>2, <2>1, <2>2 DEF CallsInv
<1>3. CASE UNCHANGED <<contract, calls>> \/ GiveUp
  BY <1>2, <1>3 DEF GiveUp, calls
<1>4. ASSUME NEW p \in Party, NEW addr \in Address,
             SendTx(Tx(p, "sendOutputShares", addr)), UNCHANGED tries
      PROVE  CallsInv'
  <2>1. p \in Actor /\ addr \in Int \cup Index \cup Address /\ "sendOutputShares" \in Calls
    BY DEF Actor, Calls
  <2> QED
    BY <1>1, <1>4, <2>1, TxFields, SendCalls
<1>5. ASSUME NEW addr \in Address, NEW i \in Index,
             NEW call \in {"reserveMaskIndex", "submitMaskedInput"},
             SendTx(Tx(addr, call, i)), UNCHANGED tries
      PROVE  CallsInv'
  <2>1. addr \in Actor /\ i \in Int \cup Index \cup Address /\ call \in Calls
    BY DEF Actor, Calls
  <2>2. Tx(addr, call, i) \in Transactions /\ Tx(addr, call, i).call # "round"
    BY <2>1, TxFields
  <2> QED
    BY <1>1, <1>5, <2>2, SendCalls
<1>6. \A c \in Honest : c \in Address /\ index_of[c] \in Index
  BY ExecutionAssumption, ZenonT(30)
<1> QED
  BY <1>1, <1>3, <1>4, <1>5, <1>6, CallSteps, MineCalls, TriggerCalls

-----------------------------------------------------------------------------
\* What a step may do to the node.
LEMMA NodeChanges ==
  ASSUME [NextExecution]_varsExecution
  PROVE  \/ UNCHANGED vars
         \/ /\ \/ \E i \in Index : ReportIndex(i) \/ ReportShare(i)
               \/ \E c \in Honest : receive_mask(c)
               \/ \E id \in OtherId, addr \in Address, sig \in Signature :
                    receive_mask_share(id, addr, sig)
            /\ UNCHANGED contract
<1>1. ASSUME NEW tx, SendTx(tx)
      PROVE  UNCHANGED vars
  BY <1>1 DEF SendTx
<1>2. CASE DesignatedStep
  BY <1>2, Zenon DEF DesignatedStep, wait_for_indices, wait_for_inputs, ReadClients, ReportIndex,
              ReportShare
<1>3. ASSUME NEW c \in Honest, ClientStep(c)
      PROVE  UNCHANGED vars \/ (receive_mask(c) /\ UNCHANGED contract)
  BY <1>1, <1>3, ZenonT(30) DEF ClientStep, reserve_mask_index, send_masked_input, receive_mask,
                    MaskReceived, obtain_outputs, SendOrFail
<1>4. ASSUME NEW id \in OtherId, NEW addr \in Address, OtherRequest(id, addr)
      PROVE  /\ \E sig \in Signature : receive_mask_share(id, addr, sig)
             /\ UNCHANGED contract
  <2>1. OtherSignature(addr) \subseteq Signature
    BY DEF OtherSignature, Signature
  <2> QED
    BY <1>4, <2>1, Zenon DEF OtherRequest
<1>5. ASSUME \/ UNCHANGED varsExecution
             \/ GiveUp
             \/ \E addr \in Address \ Honest : OtherCall(addr)
             \/ \E a \in Actor : Mine(a)
             \/ \E r \in ORDERED_ROUNDS : trigger_round(r)
             \/ \E p \in Party, addr \in Address : send_output_shares(p, addr)
      PROVE  UNCHANGED vars
  BY <1>1, <1>5, Zenon DEF varsExecution, GiveUp, OtherCall, Mine, trigger_round,
                           send_output_shares
<1> QED
  BY <1>2, <1>3, <1>4, <1>5, ZenonT(30) DEF NextExecution

\* Reservations and inputs stay on the contract, and shares stay sent.
LEMMA Monotone ==
  ASSUME Inv, ContractInv, [NextExecution]_varsExecution
  PROVE  /\ \A i \in Index : reserved[i] # None => reserved'[i] = reserved[i]
         /\ inputs \subseteq inputs'
         /\ \A addr \in Address : sent[addr] \subseteq sent'[addr]
<1>1. /\ \A i \in Index : reserved[i] # None => reserved'[i] = reserved[i]
      /\ inputs \subseteq inputs'
  <2>1. CASE UNCHANGED contract
    BY <2>1 DEF contract
  <2>2. ASSUME NEW a \in Actor, Mine(a)
        PROVE  /\ \A i \in Index : reserved[i] # None => reserved'[i] = reserved[i]
               /\ inputs \subseteq inputs'
    BY <2>1, <2>2, MinedCases DEF ContractInv, Types
  <2> QED
    BY <2>1, <2>2, ContractMined DEF varsExecution
<1>2. \A addr \in Address : sent[addr] \subseteq sent'[addr]
  <2>1. [Next]_vars
    BY NodeSteps
  <2>2. ASSUME NEW r \in Reservations, add_reserved_index(r.addr, r.index)
        PROVE  \A addr \in Address : sent[addr] \subseteq sent'[addr]
    BY <2>2, OnChainAssumption DEF add_reserved_index, Send, Inv, TypeOK
  <2>3. ASSUME NEW i \in Index, add_mask_share(i)
        PROVE  \A addr \in Address : sent[addr] \subseteq sent'[addr]
    BY <2>3 DEF add_mask_share, Send, Inv, TypeOK
  <2>4. ASSUME NEW id \in Id, NEW x \in Address, NEW sig \in Signature,
               receive_mask_share(id, x, sig)
        PROVE  \A addr \in Address : sent[addr] \subseteq sent'[addr]
    BY <2>4 DEF receive_mask_share, Inv, TypeOK
  <2> QED
    BY <2>1, <2>2, <2>3, <2>4 DEF Next, vars
<1> QED
  BY <1>1, <1>2

\* An honest client reserves no index but its own.
OwnOnly == \A c \in Honest : \A i \in Index : reserved[i] = c => i = index_of[c]

\* Two indices of one address.
Double == \E i, j \in Index : i # j /\ reserved[i] # None /\ reserved[i] = reserved[j]

\* Requests at the node: under the TLS identity of an honest client there are only
\* requests of honest clients for themselves; a request waits just until the
\* reservation is known, and an honest client that asked itself is authenticated
\* then; and the assertion only fails on a second index of an address.
RequestsInv ==
  /\ \A e \in ids_and_addrs :
       e.id \notin OtherId => e.addr \in Honest /\ e.id = tls_id[e.addr]
  /\ \A e \in ids_and_addrs : e.pending <=> client_to_index[e.addr] = None
  /\ \A i \in Index :
       index_to_client[i] # None => client_to_index[index_to_client[i]] # None
  /\ \A c \in Honest : \A e \in ids_and_addrs : e.addr = c /\ e.id = tls_id[c] =>
       /\ e.sig = index_of[c]
       /\ client_to_index[c] # None => c \in authenticated
  /\ panicked => Double

\* The node is told of a reservation.
LEMMA ReportRequests ==
  ASSUME Inv, ContractInv, OneRequest, OwnOnly, RequestsInv,
         NEW i \in Index, ReportIndex(i), UNCHANGED contract
  PROVE  RequestsInv'
<1> DEFINE addr == addr_to_i[i]
<1>1. /\ addr \in Address /\ addr # None
      /\ reserved[i] = addr
      /\ add_reserved_index(addr, i)
  BY OnChainAssumption DEF ReportIndex, ContractInv, Types, Given
<1> HIDE DEF addr
<1>2. /\ index_to_client[i] = None
      /\ index_to_client' = [index_to_client EXCEPT ![i] = addr]
      /\ client_to_index' = [client_to_index EXCEPT ![addr] = i]
      /\ ~panicked
      /\ i # None
  BY <1>1, OnChainAssumption DEF add_reserved_index
<1>3. /\ client_to_index'[addr] = i
      /\ \A x \in Address : x # addr => client_to_index'[x] = client_to_index[x]
      /\ \A j \in Index : index_to_client[j] \in Address \cup {None}
      /\ index_to_client'[i] = addr
      /\ \A j \in Index : j # i => index_to_client'[j] = index_to_client[j]
  BY <1>1, <1>2 DEF Inv, TypeOK
<1>4. \A j \in Index :
        index_to_client'[j] # None => client_to_index'[index_to_client'[j]] # None
  BY <1>2, <1>3 DEF RequestsInv
<1>5. \A e \in ids_and_addrs : e.addr \in Address
  BY DEF Inv, TypeOK
<1>6. CASE /\ \A e \in ids_and_addrs : e.addr # addr
           /\ UNCHANGED <<authenticated, ids_and_addrs, sent, panicked>>
  <2>1. \A e \in ids_and_addrs : client_to_index'[e.addr] = client_to_index[e.addr]
    BY <1>3, <1>5, <1>6, Zenon
  <2>2. ~panicked'
    BY <1>2, <1>6, Zenon
  <2>3. \A e \in ids_and_addrs :
          e.id \notin OtherId => e.addr \in Honest /\ e.id = tls_id[e.addr]
    BY Zenon DEF RequestsInv
  <2>4. \A e \in ids_and_addrs : e.pending <=> client_to_index'[e.addr] = None
    BY <2>1, ZenonT(30) DEF RequestsInv
  <2>5. \A c \in Honest : \A e \in ids_and_addrs : e.addr = c /\ e.id = tls_id[c] =>
          /\ e.sig = index_of[c]
          /\ client_to_index'[c] # None => c \in authenticated
    BY <2>1, ZenonT(30) DEF RequestsInv
  <2> QED
    BY <1>4, <1>6, <2>2, <2>3, <2>4, <2>5, ZenonT(30) DEF RequestsInv
<1>7. ASSUME NEW e \in ids_and_addrs,
             e.addr = addr,
             panicked' = ~e.pending,
             ids_and_addrs' = (ids_and_addrs \ {e}) \cup {[e EXCEPT !.pending = FALSE]},
             IF e.pending /\ Verifies(e.sig, i)
             THEN /\ authenticated' = authenticated \cup {addr}
                  /\ Send(addr, i)
             ELSE UNCHANGED <<authenticated, sent>>
      PROVE  RequestsInv'
  <2> DEFINE f == [e EXCEPT !.pending = FALSE]
  <2>1. e \in [id : Id, addr : Address, pending : BOOLEAN, sig : Signature]
    BY DEF Inv, TypeOK
  <2>2. f.id = e.id /\ f.addr = addr /\ f.pending = FALSE /\ f.sig = e.sig
    BY <1>7, <2>1
  <2> HIDE DEF f
  <2>3. \A g \in ids_and_addrs' : g = f \/ (g \in ids_and_addrs /\ g.addr # addr)
    BY <1>7 DEF OneRequest, f
  <2>4. authenticated \subseteq authenticated'
    BY <1>7
  <2>5. \A g \in ids_and_addrs' :
          g.id \notin OtherId => g.addr \in Honest /\ g.id = tls_id[g.addr]
    BY <1>7, <2>2, <2>3 DEF RequestsInv
  <2>6. \A g \in ids_and_addrs' : g.pending <=> client_to_index'[g.addr] = None
    BY <1>2, <1>3, <1>5, <2>2, <2>3 DEF RequestsInv
  <2>7. addr \in Honest /\ e.id = tls_id[addr] =>
          e.sig = index_of[addr] /\ addr \in authenticated'
    <3> SUFFICES ASSUME addr \in Honest, e.id = tls_id[addr]
                 PROVE  e.sig = index_of[addr] /\ addr \in authenticated'
      OBVIOUS
    <3>1. e.sig = index_of[addr] /\ i = index_of[addr]
      BY <1>1, <1>7 DEF RequestsInv, OwnOnly
    <3>2. CASE e.pending
      BY <1>7, <3>1, <3>2 DEF Verifies
    <3>3. CASE ~e.pending
      BY <1>7, <2>4, <3>3, ZenonT(30) DEF RequestsInv
    <3> QED
      BY <3>1, <3>2, <3>3
  <2>8. \A c \in Honest : \A g \in ids_and_addrs' : g.addr = c /\ g.id = tls_id[c] =>
          /\ g.sig = index_of[c]
          /\ client_to_index'[c] # None => c \in authenticated'
    BY <1>3, <1>5, <2>2, <2>3, <2>4, <2>7 DEF RequestsInv
  <2>9. panicked' => Double'
    <3> SUFFICES ASSUME ~e.pending PROVE Double'
      BY <1>7, ZenonT(30)
    <3>1. client_to_index[addr] # None
      BY <1>7 DEF RequestsInv
    <3> DEFINE j == client_to_index[addr]
    <3>2. j \in Index /\ index_to_client[j] = addr
      BY <1>1, <3>1 DEF Inv, TypeOK, OwnIndex
    <3>3. j # i /\ reserved[j] = addr
      BY <1>1, <1>2, <3>2, ZenonT(30) DEF ContractInv, Given
    <3> QED
      BY <1>1, <3>2, <3>3 DEF Double, contract
  <2> QED
    BY <1>4, <2>5, <2>6, <2>8, <2>9 DEF RequestsInv
<1> QED
  BY <1>1, <1>6, <1>7 DEF add_reserved_index

\* A request arrives.
LEMMA ReceiveRequests ==
  ASSUME Inv, RequestsInv, NEW id \in Id, NEW addr \in Address, NEW sig \in Signature,
         \/ id \in OtherId
         \/ addr \in Honest /\ id = tls_id[addr] /\ sig = index_of[addr],
         receive_mask_share(id, addr, sig), UNCHANGED contract
  PROVE  RequestsInv'
<1> DEFINE f == [id |-> id, addr |-> addr,
                 pending |-> client_to_index[addr] = None, sig |-> sig]
<1>1. /\ ids_and_addrs' = ids_and_addrs \cup {f}
      /\ authenticated' = IF client_to_index[addr] = None THEN authenticated
                          ELSE authenticated \cup {addr}
      /\ UNCHANGED <<index_to_client, client_to_index, panicked>>
      /\ \A e \in ids_and_addrs : e.addr # addr
  BY DEF receive_mask_share, Rejects
<1>2. /\ f.id = id /\ f.addr = addr /\ f.sig = sig
      /\ f.pending <=> client_to_index[addr] = None
  BY Zenon
<1> HIDE DEF f
<1>3. Double' <=> Double
  BY ZenonT(30) DEF Double, contract
<1>4. \A c \in Honest : tls_id[c] \notin OtherId
  BY DEF OtherId
<1>5. \A c \in Honest : \A e \in ids_and_addrs' : e.addr = c /\ e.id = tls_id[c] =>
        /\ e.sig = index_of[c]
        /\ client_to_index'[c] # None => c \in authenticated'
  <2>1. authenticated \subseteq authenticated'
    BY <1>1
  <2>2. addr \in Honest /\ id = tls_id[addr] =>
          /\ f.sig = index_of[addr]
          /\ client_to_index'[addr] # None => addr \in authenticated'
    BY <1>1, <1>2, <1>4
  <2> QED
    BY <1>1, <1>2, <2>1, <2>2, ZenonT(30) DEF RequestsInv
<1>6. \A e \in ids_and_addrs' :
        e.id \notin OtherId => e.addr \in Honest /\ e.id = tls_id[e.addr]
  BY <1>1, <1>2, ZenonT(30) DEF RequestsInv
<1> QED
  BY <1>1, <1>2, <1>3, <1>5, <1>6, ZenonT(30) DEF RequestsInv

LEMMA RequestsStep ==
  ASSUME Inv, ContractInv, OneRequest, OwnOnly, RequestsInv,
         [NextExecution]_varsExecution
  PROVE  RequestsInv'
<1>1. CASE UNCHANGED vars
  <2>1. Double => Double'
    BY Monotone, ZenonT(30) DEF Double
  <2> QED
    BY <1>1, <2>1 DEF vars, RequestsInv
<1>2. ASSUME NEW i \in Index, ReportShare(i), UNCHANGED contract
      PROVE  RequestsInv'
  <2>1. Double' <=> Double
    BY <1>2 DEF Double, contract
  <2> QED
    BY <1>2, <2>1 DEF ReportShare, add_mask_share, RequestsInv
<1>3. ASSUME NEW c \in Honest, receive_mask(c), UNCHANGED contract
      PROVE  RequestsInv'
  <2>1. c \in Address /\ index_of[c] \in Index /\ tls_id[c] \in Id
    BY ExecutionAssumption, ZenonT(30)
  <2>2. index_of[c] \in Signature
    BY <2>1 DEF Signature
  <2>3. CASE receive_mask_share(tls_id[c], c, index_of[c])
    BY <1>3, <2>1, <2>2, <2>3, ReceiveRequests, ZenonT(30)
  <2> QED
    BY <1>1, <1>3, <2>3, ZenonT(30) DEF receive_mask
<1>4. \A id \in OtherId : id \in Id
  BY DEF OtherId
<1> QED
  BY <1>1, <1>2, <1>3, <1>4, NodeChanges, ReportRequests, ReceiveRequests, ZenonT(30)

-----------------------------------------------------------------------------
Stages ==
  {"start", "reserved", "asked", "masked", "submitted", "done", "failed", "rejected"}

\* An honest client has one transaction under way or none.
CallOf(c) ==
  \/ c \notin awaiting /\ mempool[c] = <<>>
  \/ /\ c \in awaiting
     /\ Len(mempool[c]) = 1
     /\ \/ stage[c] = "start" /\ mempool[c][1] = Tx(c, "reserveMaskIndex", index_of[c])
        \/ stage[c] = "masked" /\ mempool[c][1] = Tx(c, "submitMaskedInput", index_of[c])

\* It asked the node itself.
Asked(c) == \E e \in ids_and_addrs : e.addr = c /\ e.id = tls_id[c]

\* There is a request in its name or under its identity, but not both.
Blocked(c) == \E e \in ids_and_addrs : ~(e.addr = c <=> e.id = tls_id[c])

\* How far it is, is also what the contract and the node know.
StageOf(c) ==
  /\ stage[c] \in Stages
  /\ stage[c] \in {"reserved", "rejected", "asked", "masked", "submitted", "done"} =>
       reserved[index_of[c]] = c
  /\ stage[c] \in {"start", "reserved"} => ~Asked(c)
  /\ stage[c] = "asked" => Asked(c)
  /\ stage[c] = "rejected" => Blocked(c)
  /\ stage[c] \in {"masked", "submitted", "done"} => index_of[c] \in sent[c]
  /\ stage[c] \in {"submitted", "done"} => index_of[c] \in inputs
  /\ reserved[index_of[c]] = c /\ index_of[c] \in inputs => index_of[c] \in sent[c]

ClientsInv ==
  /\ DOMAIN stage = Honest
  /\ \A c \in Honest : CallOf(c) /\ StageOf(c)
  /\ OwnOnly

\* A step that does not concern the client.
LEMMA ClientKept ==
  ASSUME Inv, ContractInv, ClientsInv, [NextExecution]_varsExecution,
         NEW c \in Honest,
         mempool'[c] = mempool[c], stage'[c] = stage[c],
         c \in awaiting' <=> c \in awaiting,
         Asked(c)' <=> Asked(c), Blocked(c) => Blocked(c)',
         \A i \in Index : reserved'[i] = c => reserved[i] = c,
         reserved[index_of[c]] = c /\ index_of[c] \in inputs' => index_of[c] \in inputs
  PROVE  /\ CallOf(c)' /\ StageOf(c)'
         /\ \A i \in Index : reserved'[i] = c => i = index_of[c]
<1>1. c \in Address /\ index_of[c] \in Index /\ c # None
  BY ExecutionAssumption, OnChainAssumption, ZenonT(30)
<1>2. CallOf(c)'
  BY DEF ClientsInv, CallOf
<1>3. /\ sent[c] \subseteq sent'[c] /\ inputs \subseteq inputs'
      /\ reserved'[index_of[c]] = c <=> reserved[index_of[c]] = c
  BY <1>1, Monotone, ZenonT(30)
<1>4. StageOf(c)'
  BY <1>3, ZenonT(30) DEF ClientsInv, StageOf
<1> QED
  BY <1>2, <1>4, ZenonT(30) DEF ClientsInv, OwnOnly

\* What a transaction of somebody else does to it.
LEMMA MineOther ==
  ASSUME Inv, ContractInv, ClientsInv, [NextExecution]_varsExecution,
         NEW c \in Honest, NEW a \in Actor, Mine(a), a # c
  PROVE  /\ CallOf(c)' /\ StageOf(c)'
         /\ \A i \in Index : reserved'[i] = c => i = index_of[c]
<1>1. c \in Address /\ c \in Actor /\ index_of[c] \in Index
  BY ExecutionAssumption, ZenonT(30) DEF Actor
<1>2. mempool'[c] = mempool[c]
  BY <1>1, MineTxs, ZenonT(30)
<1>3. stage'[c] = stage[c] /\ (c \in awaiting' <=> c \in awaiting)
  BY DEF Mine, ClientsInv
<1>4. (Asked(c)' <=> Asked(c)) /\ (Blocked(c) => Blocked(c)')
  BY ZenonT(30) DEF Mine, vars, Asked, Blocked
<1>5. /\ \A i \in Index : reserved'[i] = c => reserved[i] = c
      /\ reserved[index_of[c]] = c /\ index_of[c] \in inputs' => index_of[c] \in inputs
  BY <1>1, MinedCases DEF ContractInv, Types, contract
<1> QED
  BY <1>2, <1>3, <1>4, <1>5, ClientKept, ZenonT(30)

\* Its own transaction is mined, and the call returns.
LEMMA MineOwn ==
  ASSUME Inv, ContractInv, InputsOwned, ClientsInv, [NextExecution]_varsExecution,
         NEW c \in Honest, Mine(c)
  PROVE  /\ CallOf(c)' /\ StageOf(c)'
         /\ \A i \in Index : reserved'[i] = c => i = index_of[c]
<1> DEFINE tx == Head(mempool[c])
<1>1. c \in Address /\ c \in Actor /\ index_of[c] \in Index /\ c # None
  BY ExecutionAssumption, OnChainAssumption, ZenonT(30) DEF Actor
<1>2. c \in awaiting /\ Len(mempool[c]) = 1 /\ tx = mempool[c][1] /\ mempool'[c] = <<>>
  BY <1>1, MineTxs, ZenonT(30) DEF ClientsInv, CallOf
<1>3. /\ awaiting' = awaiting \ {c}
      /\ stage' = [stage EXCEPT ![c] = Returned(tx, Accepts(tx))]
      /\ IF Accepts(tx) THEN Execute(tx) ELSE UNCHANGED contract
      /\ Asked(c)' <=> Asked(c)
  BY <1>2, ZenonT(30) DEF Mine, Awaited, vars, Asked
<1>4. Justified(c, tx)
  BY <1>1, <1>2, HeadJustified, MineTxs, ZenonT(30)
<1>5. stage'[c] = Returned(tx, Accepts(tx)) /\ CallOf(c)'
  BY <1>2, <1>3, ZenonT(30) DEF ClientsInv, CallOf
<1>6. \/ stage[c] = "start" /\ tx = Tx(c, "reserveMaskIndex", index_of[c])
      \/ stage[c] = "masked" /\ tx = Tx(c, "submitMaskedInput", index_of[c])
  BY <1>2 DEF ClientsInv, CallOf
<1> HIDE DEF tx
<1>7. CASE stage[c] = "start" /\ tx = Tx(c, "reserveMaskIndex", index_of[c])
  <2>1. tx.from = c /\ tx.call = "reserveMaskIndex" /\ tx.arg = index_of[c]
    BY <1>7, ZenonT(30) DEF Tx
  <2>2. CASE Accepts(tx)
    <3>1. Execute(tx)
      BY <1>3, <2>2, Zenon
    <3>2. /\ reserved' = [reserved EXCEPT ![index_of[c]] = c]
          /\ inputs' = inputs
      BY <2>1, <3>1, ZenonT(30) DEF Execute
    <3>3. reserved[index_of[c]] = None
      BY <2>1, <2>2, AcceptsCases, ZenonT(30)
    <3>4. stage'[c] = "reserved"
      BY <1>5, <2>1, <2>2, ZenonT(30) DEF Returned, Ok
    <3>5. reserved'[index_of[c]] = c /\ \A i \in Index : reserved'[i] = c => i = index_of[c]
      BY <1>1, <3>2 DEF ContractInv, Types, ClientsInv, OwnOnly
    <3>6. index_of[c] \notin inputs'
      BY <3>2, <3>3, ZenonT(30) DEF InputsOwned
    <3> QED
      BY <1>3, <1>5, <1>7, <3>4, <3>5, <3>6, ZenonT(30) DEF ClientsInv, StageOf, Stages
  <2>3. CASE ~Accepts(tx)
    <3>1. UNCHANGED contract
      BY <1>3, <2>3, Zenon
    <3>2. stage'[c] = "failed"
      BY <1>5, <2>1, <2>3, ZenonT(30) DEF Returned, Ok
    <3>3. sent[c] \subseteq sent'[c]
      BY <1>1, Monotone, ZenonT(30)
    <3> QED
      BY <1>5, <3>1, <3>2, <3>3 DEF contract, ClientsInv, StageOf, Stages, OwnOnly
  <2> QED
    BY <2>2, <2>3, ZenonT(30)
<1>8. CASE stage[c] = "masked" /\ tx = Tx(c, "submitMaskedInput", index_of[c])
  <2>1. tx.from = c /\ tx.call = "submitMaskedInput" /\ tx.arg = index_of[c]
    BY <1>8, ZenonT(30) DEF Tx
  <2>2. Ok(tx, Accepts(tx))
    BY <2>1 DEF Ok
  <2>3. index_of[c] \in inputs'
    BY <1>1, <1>3, <1>4, <2>1, <2>2, DoneWhenMined, DoneCases, ZenonT(30)
  <2>4. stage'[c] = "submitted"
    BY <1>5, <2>1, <2>2, ZenonT(30) DEF Returned
  <2>5. reserved[index_of[c]] = c /\ index_of[c] \in sent[c]
    BY <1>8, ZenonT(30) DEF ClientsInv, StageOf
  <2>6. reserved'[index_of[c]] = c /\ index_of[c] \in sent'[c]
    BY <1>1, <2>5, Monotone
  <2>7. reserved' = reserved
    BY <1>3, <2>1, Zenon DEF Execute, contract
  <2> QED
    BY <1>5, <2>3, <2>4, <2>6, <2>7, ZenonT(30) DEF ClientsInv, StageOf, Stages, OwnOnly
<1> QED
  BY <1>6, <1>7, <1>8, ZenonT(30)

\* A step that leaves the contract and the client alone.
LEMMA ClientQuiet ==
  ASSUME Inv, ContractInv, ClientsInv, [NextExecution]_varsExecution,
         NEW c \in Honest, UNCHANGED contract,
         mempool'[c] = mempool[c], stage'[c] = stage[c],
         c \in awaiting' <=> c \in awaiting,
         Asked(c)' <=> Asked(c), Blocked(c) => Blocked(c)'
  PROVE  /\ CallOf(c)' /\ StageOf(c)'
         /\ \A i \in Index : reserved'[i] = c => i = index_of[c]
BY ClientKept, ZenonT(30) DEF contract

\* The transaction of another actor.
LEMMA SendOther ==
  ASSUME Inv, ContractInv, ClientsInv, [NextExecution]_varsExecution,
         NEW c \in Honest, NEW tx \in Transactions, SendTx(tx), tx.from # c
  PROVE  /\ CallOf(c)' /\ StageOf(c)'
         /\ \A i \in Index : reserved'[i] = c => i = index_of[c]
<1>1. c \in Actor
  BY ExecutionAssumption, ZenonT(30) DEF Actor
<1>2. mempool'[c] = mempool[c] /\ (c \in awaiting' <=> c \in awaiting)
  BY <1>1, SendTxs
<1>3. UNCHANGED <<contract, stage, ids_and_addrs>>
  BY ZenonT(30) DEF SendTx, vars
<1>4. (Asked(c)' <=> Asked(c)) /\ (Blocked(c) => Blocked(c)')
  BY <1>3, ZenonT(30) DEF Asked, Blocked
<1>5. stage'[c] = stage[c] /\ UNCHANGED contract
  BY <1>3
<1> QED
  BY <1>2, <1>4, <1>5, ClientQuiet, ZenonT(30)

\* The client's own transaction, for what its stage is.
LEMMA SendOwn ==
  ASSUME Inv, ContractInv, ClientsInv, [NextExecution]_varsExecution, NEW c \in Honest,
         NEW call \in {"reserveMaskIndex", "submitMaskedInput"},
         At(c, IF call = "reserveMaskIndex" THEN "start" ELSE "masked"),
         SendOrFail(Tx(c, call, index_of[c]))
  PROVE  /\ CallOf(c)' /\ StageOf(c)'
         /\ \A i \in Index : reserved'[i] = c => i = index_of[c]
<1> DEFINE tx == Tx(c, call, index_of[c])
<1>1. /\ c \in Actor /\ c \in Address /\ index_of[c] \in Index /\ call \in Calls
      /\ index_of[c] \in Int \cup Index \cup Address
  BY ExecutionAssumption, ZenonT(30) DEF Actor, Calls
<1>2. tx \in Transactions /\ tx.from = c
  <2>1. ASSUME NEW i \in Int \cup Index \cup Address
        PROVE  Tx(c, call, i) \in Transactions /\ Tx(c, call, i).from = c
    BY <1>1, TxFields, SMTT(30)
  <2> QED
    BY <1>1, <2>1, Zenon
<1>3. c \notin awaiting /\ mempool[c] = <<>>
  BY ZenonT(30) DEF At, ClientsInv, CallOf
<1>4. CASE Accepts(tx)
  <2>1. SendTx(tx)
    BY <1>4, Zenon DEF SendOrFail
  <2>2. UNCHANGED <<contract, stage, sent, ids_and_addrs>>
    BY <2>1, ZenonT(30) DEF SendTx, vars
  <2>3. c \in awaiting' /\ Len(mempool'[c]) = 1 /\ mempool'[c][1] = tx
    <3>1. mempool[tx.from] = <<>>
      BY <1>2, <1>3
    <3>2. /\ awaiting' = awaiting \cup {tx.from}
          /\ Len(mempool'[tx.from]) = 1 /\ mempool'[tx.from][1] = tx
      BY <1>2, <2>1, <3>1, SendTxs, ZenonT(30)
    <3> QED
      BY <1>2, <3>2, ZenonT(30)
  <2>4. CallOf(c)'
    BY <2>2, <2>3, ZenonT(30) DEF CallOf, At
  <2>5. StageOf(c)'
    BY <2>2, ZenonT(30) DEF ClientsInv, StageOf, Asked, Blocked, contract
  <2> QED
    BY <2>2, <2>4, <2>5 DEF ClientsInv, OwnOnly, contract
<1>5. CASE ~Accepts(tx)
  <2>1. stage' = [stage EXCEPT ![c] = "failed"] /\ UNCHANGED <<vars, contract, calls>>
    BY <1>2, <1>5, Zenon DEF SendOrFail, Proceed
  <2>2. stage'[c] = "failed"
    BY <2>1 DEF ClientsInv
  <2>3. UNCHANGED <<reserved, inputs, sent, mempool, awaiting>>
    BY <2>1, ZenonT(30) DEF vars, contract, calls
  <2>4. CallOf(c)'
    BY <1>3, <2>3, ZenonT(30) DEF CallOf
  <2>5. StageOf(c)'
    BY <2>2, <2>3, ZenonT(30) DEF ClientsInv, StageOf, Stages
  <2> QED
    BY <2>3, <2>4, <2>5 DEF ClientsInv, OwnOnly
<1> QED
  BY <1>4, <1>5, ZenonT(30)

\* What an honest client does moves it from one stage to the next.
LEMMA ClientOwn ==
  ASSUME Inv, ContractInv, ClientsInv, [NextExecution]_varsExecution,
         NEW c \in Honest, ClientStep(c)
  PROVE  /\ CallOf(c)' /\ StageOf(c)'
         /\ \A i \in Index : reserved'[i] = c => i = index_of[c]
<1>1. c \in Address /\ index_of[c] \in Index
  BY ExecutionAssumption, ZenonT(30)
<1>2. CASE reserve_mask_index(c)
  BY <1>2, SendOwn, ZenonT(30) DEF reserve_mask_index
<1>3. CASE send_masked_input(c)
  BY <1>3, SendOwn, ZenonT(30) DEF send_masked_input
<1>4. CASE receive_mask(c) \/ MaskReceived(c) \/ obtain_outputs(c)
  <2>1. UNCHANGED <<contract, calls>> /\ c \notin awaiting
    BY <1>4, ZenonT(30) DEF receive_mask, MaskReceived, obtain_outputs, At
  <2>2. CallOf(c)'
    BY <2>1 DEF ClientsInv, CallOf, calls
  <2>3. UNCHANGED <<reserved, inputs>>
    BY <2>1 DEF contract
  <2>4. sent[c] \subseteq sent'[c]
    BY <1>1, Monotone, ZenonT(30)
  <2>5. ASSUME receive_mask(c)
        PROVE  StageOf(c)'
    <3>1. stage[c] = "reserved"
      BY <2>5, ZenonT(30) DEF receive_mask, At
    <3>2. CASE receive_mask_share(tls_id[c], c, index_of[c]) /\ Proceed(c, "asked")
      <4> DEFINE e == [id |-> tls_id[c], addr |-> c,
                       pending |-> client_to_index[c] = None, sig |-> index_of[c]]
      <4>1. e \in ids_and_addrs' /\ e.addr = c /\ e.id = tls_id[c]
        BY <3>2 DEF receive_mask_share
      <4> HIDE DEF e
      <4>2. Asked(c)'
        BY <4>1, ZenonT(30) DEF Asked
      <4>3. stage'[c] = "asked"
        BY <3>2, ZenonT(30) DEF Proceed, ClientsInv
      <4> QED
        BY <2>3, <2>4, <3>1, <4>2, <4>3, ZenonT(30) DEF ClientsInv, StageOf, Stages
    <3>3. CASE /\ Rejects(tls_id[c], c, index_of[c])
               /\ Proceed(c, "rejected")
               /\ UNCHANGED vars
      <4>1. client_to_index[c] \in {None, index_of[c]}
        <5> SUFFICES ASSUME client_to_index[c] # None
                     PROVE  client_to_index[c] = index_of[c]
          BY ZenonT(30)
        <5>1. client_to_index[c] \in Index /\ index_to_client[client_to_index[c]] = c
          BY <1>1, ZenonT(30) DEF Inv, TypeOK, OwnIndex
        <5>2. c # None
          BY <1>1, OnChainAssumption, ZenonT(30)
        <5>3. reserved[client_to_index[c]] = c
          BY <5>1, <5>2, ZenonT(30) DEF ContractInv, Given
        <5> QED
          BY <5>1, <5>3, ZenonT(30) DEF ClientsInv, OwnOnly
      <4>2. \E e \in ids_and_addrs : e.id = tls_id[c] \/ e.addr = c
        BY <3>3, <4>1, ZenonT(30) DEF Rejects, Verifies
      <4>3. ~Asked(c)
        BY <3>1, ZenonT(30) DEF ClientsInv, StageOf
      <4>4. Blocked(c)
        BY <4>2, <4>3, ZenonT(30) DEF Asked, Blocked
      <4>5. Blocked(c)'
        BY <3>3, <4>4, ZenonT(30) DEF Blocked, vars
      <4>6. stage'[c] = "rejected"
        BY <3>3, ZenonT(30) DEF Proceed, ClientsInv
      <4> QED
        BY <2>3, <2>4, <3>1, <4>5, <4>6, ZenonT(30) DEF ClientsInv, StageOf, Stages
    <3> QED
      BY <2>5, <3>2, <3>3, ZenonT(30) DEF receive_mask
  <2>6. ASSUME MaskReceived(c)
        PROVE  StageOf(c)'
    <3>1. stage[c] = "asked" /\ stage'[c] = "masked" /\ index_of[c] \in sent[c]
      BY <2>6, ZenonT(30) DEF MaskReceived, At, Proceed, ClientsInv
    <3> QED
      BY <2>3, <2>4, <3>1, ZenonT(30) DEF ClientsInv, StageOf, Stages
  <2>7. ASSUME obtain_outputs(c)
        PROVE  StageOf(c)'
    <3>1. stage[c] = "submitted" /\ stage'[c] = "done"
      BY <2>7 DEF obtain_outputs, At, Proceed, ClientsInv
    <3> QED
      BY <2>3, <2>4, <3>1, ZenonT(30) DEF ClientsInv, StageOf, Stages
  <2>8. StageOf(c)'
    BY <1>4, <2>5, <2>6, <2>7, ZenonT(30)
  <2> QED
    BY <2>2, <2>3, <2>8, ZenonT(30) DEF ClientsInv, OwnOnly
<1> QED
  BY <1>2, <1>3, <1>4, ZenonT(30) DEF ClientStep

\* Only the client itself makes its request, and no request is forgotten.
LEMMA RequestsOf ==
  ASSUME Inv, ContractInv, [NextExecution]_varsExecution, NEW c \in Honest, ~receive_mask(c)
  PROVE  (Asked(c)' <=> Asked(c)) /\ (Blocked(c) => Blocked(c)')
<1>1. ASSUME NEW i \in Index, ReportIndex(i)
      PROVE  (Asked(c)' <=> Asked(c)) /\ (Blocked(c) => Blocked(c)')
  <2>1. CASE ids_and_addrs' = ids_and_addrs
    BY <2>1, ZenonT(30) DEF Asked, Blocked
  <2>2. ASSUME NEW f \in ids_and_addrs,
               ids_and_addrs' = (ids_and_addrs \ {f}) \cup {[f EXCEPT !.pending = FALSE]}
        PROVE  (Asked(c)' <=> Asked(c)) /\ (Blocked(c) => Blocked(c)')
    <3> DEFINE g == [f EXCEPT !.pending = FALSE]
    <3>1. g.addr = f.addr /\ g.id = f.id
      BY DEF Inv, TypeOK
    <3> HIDE DEF g
    <3>2. ids_and_addrs' = (ids_and_addrs \ {f}) \cup {g}
      BY <2>2 DEF g
    <3>3. Asked(c)' <=> Asked(c)
      BY <3>1, <3>2 DEF Asked
    <3>4. Blocked(c) => Blocked(c)'
      BY <3>1, <3>2 DEF Blocked
    <3> QED
      BY <3>3, <3>4
  <2> QED
    BY <1>1, <2>1, <2>2 DEF ReportIndex, add_reserved_index
<1>2. ASSUME NEW id, NEW addr, NEW sig, addr # c \/ id # tls_id[c],
             receive_mask_share(id, addr, sig)
      PROVE  (Asked(c)' <=> Asked(c)) /\ (Blocked(c) => Blocked(c)')
  <2> DEFINE f == [id |-> id, addr |-> addr, pending |-> client_to_index[addr] = None,
                   sig |-> sig]
  <2>1. ids_and_addrs' = ids_and_addrs \cup {f} /\ f.addr = addr /\ f.id = id
    BY <1>2 DEF receive_mask_share
  <2> HIDE DEF f
  <2> QED
    BY <1>2, <2>1, ZenonT(30) DEF Asked, Blocked
<1>3. CASE ids_and_addrs' = ids_and_addrs
  BY <1>3, ZenonT(30) DEF Asked, Blocked
<1>4. ASSUME NEW i \in Index, ReportShare(i)
      PROVE  ids_and_addrs' = ids_and_addrs
  BY <1>4 DEF ReportShare, add_mask_share
<1>5. ASSUME NEW d \in Honest, receive_mask(d)
      PROVE  (Asked(c)' <=> Asked(c)) /\ (Blocked(c) => Blocked(c)')
  <2>1. d # c
    BY <1>5, Zenon
  <2> QED
    BY <1>2, <1>3, <1>5, <2>1, ZenonT(30) DEF receive_mask, vars
<1>6. ASSUME NEW id \in OtherId, NEW addr, NEW sig, receive_mask_share(id, addr, sig)
      PROVE  (Asked(c)' <=> Asked(c)) /\ (Blocked(c) => Blocked(c)')
  <2>1. id # tls_id[c]
    BY DEF OtherId
  <2> QED
    BY <1>2, <1>6, <2>1, ZenonT(30)
<1>7. UNCHANGED vars => ids_and_addrs' = ids_and_addrs
  BY ZenonT(30) DEF vars
<1> QED
  BY <1>1, <1>3, <1>4, <1>5, <1>6, <1>7, NodeChanges, ZenonT(30)

\* Only what a client does, and what is mined for it, moves it.
LEMMA StageMoves ==
  ASSUME [NextExecution]_varsExecution
  PROVE  \/ stage' = stage
         \/ \E c \in Honest :
              /\ ClientStep(c) \/ Mine(c)
              /\ \E s : stage' = [stage EXCEPT ![c] = s]
<1>1. ASSUME NEW c \in Honest, ClientStep(c)
      PROVE  stage' = stage \/ \E s : stage' = [stage EXCEPT ![c] = s]
  <2>1. ASSUME NEW call, SendOrFail(Tx(c, call, index_of[c]))
        PROVE  stage' = stage \/ \E s : stage' = [stage EXCEPT ![c] = s]
    <3>1. Tx(c, call, index_of[c]).from = c
      BY DEF Tx
    <3> QED
      BY <2>1, <3>1, Zenon DEF SendOrFail, SendTx, Proceed
  <2> QED
    BY <1>1, <2>1, Zenon
    DEF ClientStep, reserve_mask_index, receive_mask, MaskReceived, send_masked_input,
        obtain_outputs, Proceed
<1>2. ASSUME NEW a \in Actor, Mine(a)
      PROVE  \/ stage' = stage
             \/ a \in Honest /\ \E s : stage' = [stage EXCEPT ![a] = s]
  BY <1>2, Zenon DEF Mine
<1>3. CASE DesignatedStep \/ UNCHANGED varsExecution \/ GiveUp
  BY <1>3 DEF DesignatedStep, wait_for_indices, wait_for_inputs, ReadClients, ReportIndex,
              ReportShare, varsExecution, GiveUp
<1>4. ASSUME NEW id, NEW addr, OtherCall(addr) \/ OtherRequest(id, addr)
      PROVE  stage' = stage
  BY <1>4, Zenon DEF OtherCall, OtherRequest, SendTx
<1>5. ASSUME \/ \E r \in ORDERED_ROUNDS : trigger_round(r)
             \/ \E p \in Party, addr \in Address : send_output_shares(p, addr)
      PROVE  stage' = stage
  BY <1>5, ZenonT(30) DEF trigger_round, send_output_shares, SendTx
<1> QED
  BY <1>1, <1>2, <1>3, <1>4, <1>5, ZenonT(30) DEF NextExecution

LEMMA ClientsStep ==
  ASSUME Inv, ContractInv, InputsOwned, ClientsInv, [NextExecution]_varsExecution
  PROVE  ClientsInv'
<1>1. ASSUME NEW c \in Honest
      PROVE  /\ CallOf(c)' /\ StageOf(c)'
             /\ \A i \in Index : reserved'[i] = c => i = index_of[c]
  <2>0. c \in Actor /\ c # designated /\ designated \in Actor /\ c \notin Party
    BY ExecutionAssumption, ZenonT(30) DEF Actor
  <2>1. CASE ClientStep(c)
    BY <2>1, ClientOwn, ZenonT(30)
  <2>2. CASE Mine(c)
    BY <2>2, MineOwn, ZenonT(30)
  <2>3. CASE ~ClientStep(c) /\ ~Mine(c)
    <3>1. stage'[c] = stage[c]
      BY <2>3, StageMoves, ZenonT(30) DEF ClientsInv
    <3>2. (Asked(c)' <=> Asked(c)) /\ (Blocked(c) => Blocked(c)')
      BY <2>3, RequestsOf, ZenonT(30) DEF ClientStep
    <3>3. CASE UNCHANGED <<contract, calls>>
      BY <3>1, <3>2, <3>3, ClientQuiet, ZenonT(30) DEF calls
    <3>4. CASE GiveUp
      BY <2>0, <3>1, <3>2, <3>4, ClientQuiet, ZenonT(30) DEF GiveUp
    <3>5. ASSUME NEW a \in Actor, Mine(a)
          PROVE  /\ CallOf(c)' /\ StageOf(c)'
                 /\ \A i \in Index : reserved'[i] = c => i = index_of[c]
      BY <2>3, <3>5, MineOther, ZenonT(30)
    <3>6. ASSUME NEW r \in ORDERED_ROUNDS, trigger_round(r)
          PROVE  /\ CallOf(c)' /\ StageOf(c)'
                 /\ \A i \in Index : reserved'[i] = c => i = index_of[c]
      <4>1. r \in Int \cup Index \cup Address /\ "round" \in Calls
        BY DEF ORDERED_ROUNDS, Preprocessing, InputMaskReservation, InputCollection,
               MPCExecution, OutputDistribution, ProgramFinished, Calls
      <4>2. SendTx(Tx(designated, "round", r))
        BY <3>6, ZenonT(30) DEF trigger_round
      <4> QED
        <5>1. /\ Tx(designated, "round", r) \in Transactions
              /\ Tx(designated, "round", r).from = designated
          BY <2>0, <4>1, TxFields, SMTT(30)
        <5>2. Tx(designated, "round", r).from # c
          BY <2>0, <5>1, Zenon
        <5> QED
          BY <4>2, <5>1, <5>2, SendOther, ZenonT(30)
    <3>7. ASSUME NEW p \in Party, NEW addr \in Address,
                 SendTx(Tx(p, "sendOutputShares", addr))
          PROVE  /\ CallOf(c)' /\ StageOf(c)'
                 /\ \A i \in Index : reserved'[i] = c => i = index_of[c]
      <4>1. p \in Actor /\ addr \in Int \cup Index \cup Address /\ "sendOutputShares" \in Calls
        BY DEF Actor, Calls
      <4> QED
        <5>1. /\ Tx(p, "sendOutputShares", addr) \in Transactions
              /\ Tx(p, "sendOutputShares", addr).from = p
          BY <4>1, TxFields, SMTT(30)
        <5>2. Tx(p, "sendOutputShares", addr).from # c
          BY <2>0, <5>1, Zenon
        <5> QED
          BY <3>7, <5>1, <5>2, SendOther, ZenonT(30)
    <3>8. ASSUME NEW d \in Address, d # c, NEW i \in Index,
                 NEW call \in {"reserveMaskIndex", "submitMaskedInput"}, SendTx(Tx(d, call, i))
          PROVE  /\ CallOf(c)' /\ StageOf(c)'
                 /\ \A j \in Index : reserved'[j] = c => j = index_of[c]
      <4>1. d \in Actor /\ i \in Int \cup Index \cup Address /\ call \in Calls
        BY ZenonT(30) DEF Actor, Calls
      <4> QED
        <5>1. Tx(d, call, i) \in Transactions /\ Tx(d, call, i).from = d
          BY <4>1, TxFields, SMTT(30)
        <5>2. Tx(d, call, i).from # c
          BY <3>8, <5>1, Zenon
        <5> QED
          BY <3>8, <5>1, <5>2, SendOther, ZenonT(30)
    <3>9. ASSUME UNCHANGED tries,
                 NEW call \in {"reserveMaskIndex", "submitMaskedInput"},
                 At(c, IF call = "reserveMaskIndex" THEN "start" ELSE "masked"),
                 SendTx(Tx(c, call, index_of[c]))
          PROVE  /\ CallOf(c)' /\ StageOf(c)'
                 /\ \A i \in Index : reserved'[i] = c => i = index_of[c]
      <4>1. SendOrFail(Tx(c, call, index_of[c]))
        BY <3>9, ZenonT(30) DEF SendOrFail, SendTx
      <4> QED
        BY <3>9, <4>1, SendOwn, ZenonT(30)
    <3>10. ASSUME NEW d \in Honest, UNCHANGED tries,
                  \/ At(d, "start") /\ SendTx(Tx(d, "reserveMaskIndex", index_of[d]))
                  \/ At(d, "masked") /\ SendTx(Tx(d, "submitMaskedInput", index_of[d]))
           PROVE  /\ CallOf(c)' /\ StageOf(c)'
                  /\ \A i \in Index : reserved'[i] = c => i = index_of[c]
      <4>1. d \in Address /\ index_of[d] \in Index
        BY ExecutionAssumption, ZenonT(30)
      <4>2. CASE d = c
        BY <3>9, <3>10, <4>2, ZenonT(30)
      <4>3. CASE d # c
        BY <3>8, <3>10, <4>1, <4>3, ZenonT(30)
      <4> QED
        BY <4>2, <4>3
    <3>11. ASSUME NEW d \in Address \ Honest, NEW i \in Index,
                  NEW call \in {"reserveMaskIndex", "submitMaskedInput"}, SendTx(Tx(d, call, i))
           PROVE  /\ CallOf(c)' /\ StageOf(c)'
                  /\ \A j \in Index : reserved'[j] = c => j = index_of[c]
      BY <3>8, <3>11
    <3> QED
      BY <3>3, <3>4, <3>5, <3>6, <3>7, <3>10, <3>11, CallSteps, ZenonT(30)
  <2> QED
    BY <2>1, <2>2, <2>3
<1>2. DOMAIN stage' = Honest
  BY StageMoves DEF ClientsInv
<1> QED
  BY <1>1, <1>2, ZenonT(30) DEF ClientsInv, OwnOnly

-----------------------------------------------------------------------------
\* Nothing is reserved before the round for it, and the clients that are sent
\* outputs include every honest client that has its index.
Served ==
  /\ round < InputMaskReservation => \A i \in Index : reserved[i] = None
  /\ recipients # None =>
       /\ round >= OutputDistribution
       /\ \A c \in Honest : reserved[index_of[c]] = c => c \in recipients

LEMMA RecipientsRead ==
  ASSUME [NextExecution]_varsExecution
  PROVE  recipients' = recipients \/ ReadClients
<1>1. ASSUME NEW tx, SendTx(tx)
      PROVE  recipients' = recipients
  BY <1>1, ZenonT(30) DEF SendTx, waits
<1>2. CASE DesignatedStep
  BY <1>2 DEF DesignatedStep, wait_for_indices, wait_for_inputs, ReportIndex, ReportShare,
              waits
<1>3. ASSUME NEW c \in Honest, ClientStep(c)
      PROVE  recipients' = recipients
  BY <1>1, <1>3, ZenonT(30) DEF ClientStep, reserve_mask_index, send_masked_input,
                    receive_mask, MaskReceived, obtain_outputs, SendOrFail, waits
<1>4. ASSUME NEW id, NEW addr, OtherCall(addr) \/ OtherRequest(id, addr)
      PROVE  recipients' = recipients
  BY <1>1, <1>4, ZenonT(30) DEF OtherCall, OtherRequest, waits
<1> QED
  BY <1>1, <1>2, <1>3, <1>4, ZenonT(30)
  DEF NextExecution, Mine, trigger_round, GiveUp, send_output_shares, varsExecution, waits

LEMMA ServedStep ==
  ASSUME Inv, ContractInv, ClientsInv, Served, [NextExecution]_varsExecution
  PROVE  Served'
<1>1. CASE UNCHANGED contract /\ recipients' = recipients
  BY <1>1, ZenonT(30) DEF Served, contract
<1>2. CASE ReadClients
  <2>1. /\ UNCHANGED contract /\ round >= OutputDistribution
        /\ recipients' = {e.addr : e \in {e \in ids_and_addrs : ~e.pending}}
    BY <1>2, ZenonT(30) DEF ReadClients, wait_for_round
  <2>2. inputs = Index
    <3>1. round >= MPCExecution
      BY <2>1 DEF ContractInv, Types, OutputDistribution, MPCExecution
    <3> QED
      BY <3>1, Zenon DEF ContractInv, RoundsEarned, Given
  <2>3. ASSUME NEW c \in Honest, reserved[index_of[c]] = c
        PROVE  c \in recipients'
    <3>1. c \in Address /\ index_of[c] \in Index
      BY ExecutionAssumption, ZenonT(30)
    <3>2. index_of[c] \in sent[c]
      BY <2>2, <2>3, <3>1, ZenonT(30) DEF ClientsInv, StageOf
    <3>3. Proof(c)
      BY <3>1, <3>2, ZenonT(30) DEF Inv, SentToOwner, Authentic
    <3> QED
      BY <2>1, <3>3, ZenonT(30) DEF Proof
  <2> QED
    BY <2>1, <2>3, ZenonT(30) DEF Served, contract
<1>3. ASSUME NEW a \in Actor, Mine(a), ~UNCHANGED contract
      PROVE  Served'
  <2>1. recipients' = recipients
    BY <1>3, ZenonT(30) DEF Mine, waits
  <2>2. CASE UNCHANGED <<round, reserved>>
    BY <2>1, <2>2, ZenonT(30) DEF Served
  <2>3. CASE round' = round + 1 /\ UNCHANGED reserved
    BY <2>1, <2>3 DEF Served, ContractInv, Types, InputMaskReservation, OutputDistribution
  <2>4. CASE round = InputMaskReservation /\ UNCHANGED round
    BY <2>1, <2>4 DEF Served, InputMaskReservation, OutputDistribution
  <2> QED
    BY <1>3, <2>2, <2>3, <2>4, MinedCases, ZenonT(30)
<1> QED
  BY <1>1, <1>2, <1>3, RecipientsRead, ContractMined, ZenonT(30) DEF varsExecution

\* The clients of an execution that can come to its end: there are indices to wait
\* for, every index is meant for an honest client, no two of them share a TLS
\* identity, and the call for a round is sent at all.
Complete ==
  /\ Index # {}
  /\ \A i \in Index : \E c \in Honest : index_of[c] = i
  /\ \A c, d \in Honest : tls_id[c] = tls_id[d] => c = d
  /\ MaxTries \in Nat \ {0}

\* Once indices can be reserved and no client is left at the start, each has its
\* own, and the assertion of the node has not failed.
LEMMA AllReserved ==
  ASSUME Complete, ContractInv, RequestsInv, ClientsInv,
         \A c \in Honest : stage[c] \notin {"start", "failed"}
  PROVE  /\ \A c \in Honest : reserved[index_of[c]] = c
         /\ ReservedIndices = Index
         /\ ~panicked
<1>1. \A c \in Honest : c \in Address /\ index_of[c] \in Index /\ c # None
  BY ExecutionAssumption, OnChainAssumption, ZenonT(30)
<1>2. \A c \in Honest : reserved[index_of[c]] = c
  BY ZenonT(30) DEF ClientsInv, StageOf, Stages
<1>3. \A i \in Index : \E c \in Honest : i = index_of[c] /\ reserved[i] = c
  BY <1>2 DEF Complete
<1>4. ReservedIndices = Index
  BY <1>1, <1>3 DEF ReservedIndices
<1>5. ~Double
  BY <1>3 DEF Double, ClientsInv, OwnOnly
<1> QED
  BY <1>2, <1>4, <1>5, ZenonT(30) DEF RequestsInv

\* From the collection of the inputs on the node knows every reservation, and a
\* client that can do nothing has submitted its input.
LEMMA AllSubmitted ==
  ASSUME Complete, Inv, ContractInv, Delivery, CallsInv, RequestsInv, ClientsInv,
         \A c \in Honest : stage[c] \notin {"start", "failed"} /\ ~Impersonated(c),
         round >= InputCollection, ~broken, awaiting = {}, mask_shares = Index,
         \A c \in Honest : ~ClientCan(c)
  PROVE  /\ \A c \in Honest : stage[c] \in {"submitted", "done"}
         /\ inputs = Index
<1>1. ASSUME NEW c \in Honest
      PROVE  stage[c] \in {"submitted", "done"}
  <2>1. c \in Address /\ index_of[c] \in Index /\ c # None /\ c \notin awaiting
    BY ExecutionAssumption, OnChainAssumption, ZenonT(30)
  <2>2. reserved[index_of[c]] = c /\ ~panicked
    BY AllReserved, ZenonT(30)
  <2>3. index_to_client[index_of[c]] = c
    <3>1. addr_to_i = reserved /\ addr_to_i # None /\ Reported
      BY DEF ContractInv, Given, CallsInv, Reported
    <3>2. index_to_client[index_of[c]] # None
      BY <2>1, <2>2, <3>1, ZenonT(30) DEF Reported
    <3> QED
      BY <2>1, <2>2, <3>2, ZenonT(30) DEF ContractInv, Given
  <2>4. client_to_index[c] = index_of[c]
    <3>1. client_to_index[c] # None
      BY <2>1, <2>3, ZenonT(30) DEF RequestsInv
    <3>2. client_to_index[c] \in Index /\ index_to_client[client_to_index[c]] = c
      BY <2>1, <3>1, ZenonT(30) DEF Inv, TypeOK, OwnIndex
    <3>3. reserved[client_to_index[c]] = c
      BY <2>1, <3>2, ZenonT(30) DEF ContractInv, Given
    <3> QED
      BY <3>2, <3>3, ZenonT(30) DEF ClientsInv, OwnOnly
  <2>5. stage[c] \notin {"reserved", "rejected"}
    <3>1. stage[c] # "reserved"
      BY <2>1, ZenonT(30) DEF ClientCan, At
    <3>2. ASSUME Blocked(c)
          PROVE  FALSE
      <4>1. PICK e \in ids_and_addrs : ~(e.addr = c <=> e.id = tls_id[c])
        BY <3>2, ZenonT(30) DEF Blocked
      <4>2. e.id = tls_id[c] /\ e.addr # c
        BY <4>1, ZenonT(30) DEF Impersonated
      <4>3. e.addr \in Honest /\ e.id = tls_id[e.addr]
        BY <4>2, ZenonT(30) DEF RequestsInv, OtherId
      <4> QED
        BY <4>2, <4>3, ZenonT(30) DEF Complete
    <3> QED
      BY <3>1, <3>2, ZenonT(30) DEF ClientsInv, StageOf
  <2>6. stage[c] # "asked"
    <3> SUFFICES ASSUME stage[c] = "asked"
                 PROVE  FALSE
      BY ZenonT(30)
    <3>1. c \in authenticated
      BY <2>1, <2>4, OnChainAssumption, ZenonT(30)
      DEF ClientsInv, StageOf, Asked, RequestsInv
    <3>2. index_of[c] \in sent[c]
      BY <2>1, <2>2, <2>4, <3>1, ZenonT(30) DEF Delivery, Promised
    <3> QED
      BY <2>1, <3>2 DEF ClientCan, At
  <2>7. stage[c] # "masked"
    BY <2>1, ZenonT(30) DEF ClientCan, At, wait_for_round
  <2> QED
    BY <2>5, <2>6, <2>7, ZenonT(30) DEF ClientsInv, StageOf, Stages
<1>2. \A c \in Honest : index_of[c] \in inputs
  BY <1>1 DEF ClientsInv, StageOf
<1>3. inputs = Index
  <2>1. inputs \subseteq Index
    BY ZenonT(30) DEF ContractInv, Types
  <2>2. ASSUME NEW i \in Index
        PROVE  i \in inputs
    <3>1. PICK c \in Honest : index_of[c] = i
      BY DEF Complete
    <3> QED
      BY <1>2, <3>1, ZenonT(30)
  <2> QED
    BY <2>1, <2>2, ZenonT(30)
<1> QED
  BY <1>1, <1>3, ZenonT(30)

LEMMA NobodyStuck ==
  ASSUME Complete, Inv, ContractInv, Delivery, CallsInv, RequestsInv, ClientsInv, Served
  PROVE  SomebodyCan
<1> SUFFICES ASSUME ~Disturbed, ~MinerCan, ~DesignatedCan, ~PartyCan,
                    \A c \in Honest : ~ClientCan(c)
             PROVE  round = ProgramFinished /\ \A c \in Honest : stage[c] = "done"
  BY ZenonT(30) DEF SomebodyCan
<1>1. awaiting = {}
  BY ZenonT(30) DEF CallsInv, MinerCan
<1>2. tries < MaxTries
  <2>1. mempool[designated] = <<>>
    BY ExecutionAssumption, ZenonT(30) DEF MinerCan, Actor
  <2>2. Txs(designated) = {}
    BY <2>1 DEF Txs
  <2> QED
    <3>1. ~(tries > 0)
      BY <2>2, Zenon DEF CallsInv
    <3>2. tries \in Nat /\ MaxTries \in Nat \ {0}
      BY Zenon DEF CallsInv, Complete
    <3> QED
      BY <3>1, <3>2
<1>3. ~broken /\ \A c \in Honest : stage[c] # "failed" /\ ~Impersonated(c)
  BY ZenonT(30) DEF Disturbed
<1>4. round \in 0..6
  BY ZenonT(30) DEF CallsInv, Round, Idle, ProgramFinished
<1>5. ~panicked /\ round \in 0..5 => ~ReadyFor(round + 1)
  <2>1. round \in 0..5 => round + 1 \in ORDERED_ROUNDS
    BY DEF ORDERED_ROUNDS, Preprocessing, ProgramFinished
  <2> QED
    BY <1>1, <1>2, <2>1, ZenonT(30) DEF DesignatedCan
<1>6. round \notin {0, 1}
  <2> SUFFICES ASSUME round \in {0, 1}
               PROVE  FALSE
    BY ZenonT(30)
  <2>1. ~panicked
    BY DEF Served, InputMaskReservation, RequestsInv, Double
  <2>2. ReadyFor(round + 1)
    BY DEF ReadyFor, InputCollection, MPCExecution, ProgramFinished
  <2> QED
    BY <1>5, <2>1, <2>2
<1>7. round >= InputMaskReservation
  BY <1>4, <1>6, SMTT(30) DEF InputMaskReservation
<1>8. \A c \in Honest : stage[c] \notin {"start", "failed"}
  BY <1>1, <1>3, <1>7, ZenonT(30) DEF ClientCan, At, wait_for_round
<1>9. /\ \A c \in Honest : reserved[index_of[c]] = c
      /\ ReservedIndices = Index
      /\ ~panicked
  BY <1>8, AllReserved, ZenonT(30)
<1>10. Reported
  <2>1. addr_to_i # None
    BY <1>7, <1>9, ZenonT(30)
    DEF DesignatedCan, wait_for_round, EnoughIndices, Enough, n_inputs, Complete
  <2> QED
    BY <1>9, <2>1, ZenonT(30) DEF DesignatedCan, Reported
<1>11. round # 2
  <2> SUFFICES ASSUME round = 2
               PROVE  FALSE
    OBVIOUS
  <2>1. ReadyFor(round + 1)
    BY <1>10 DEF ReadyFor, Reported, InputCollection, MPCExecution, ProgramFinished
  <2> QED
    BY <1>5, <1>9, <2>1
<1>12. round >= InputCollection
  BY <1>4, <1>6, <1>11 DEF InputCollection
<1>13. mask_shares = Index
  BY <1>9, Zenon DEF DesignatedCan, Inv, TypeOK
<1>14. /\ \A c \in Honest : stage[c] \in {"submitted", "done"}
       /\ inputs = Index
  BY <1>1, <1>3, <1>8, <1>12, <1>13, AllSubmitted, ZenonT(30)
<1>15. round # 3
  <2> SUFFICES ASSUME round = 3
               PROVE  FALSE
    OBVIOUS
  <2>1. received
    BY <1>12, <1>14, ZenonT(30) DEF DesignatedCan, wait_for_round, Enough, n_inputs
  <2>2. ReadyFor(round + 1)
    BY <2>1 DEF ReadyFor, InputCollection, MPCExecution, ProgramFinished
  <2> QED
    BY <1>5, <1>9, <2>2
<1>16. round # 4
  <2> SUFFICES ASSUME round = 4
               PROVE  FALSE
    OBVIOUS
  <2>1. ReadyFor(round + 1)
    BY DEF ReadyFor, InputCollection, MPCExecution, ProgramFinished
  <2> QED
    BY <1>5, <1>9, <2>1
<1>17. recipients # None
  <2>1. round >= OutputDistribution
    BY <1>4, <1>6, <1>11, <1>15, <1>16 DEF OutputDistribution
  <2> QED
    BY <2>1, Zenon DEF DesignatedCan, wait_for_round
<1>18. round # 5
  <2> SUFFICES ASSUME round = 5
               PROVE  FALSE
    OBVIOUS
  <2>1. \A addr \in recipients : output_shares[addr] = Party
    BY <1>1, <1>9, <1>17, Zenon DEF PartyCan, OutputDistribution, ContractInv, Types
  <2>2. ReadyFor(round + 1)
    BY <1>17, <2>1 DEF ReadyFor, InputCollection, MPCExecution, ProgramFinished
  <2> QED
    BY <1>5, <1>9, <2>2
<1>19. round = ProgramFinished
  BY <1>4, <1>6, <1>11, <1>15, <1>16, <1>18, SMTT(30) DEF ProgramFinished
<1>20. ASSUME NEW c \in Honest
       PROVE  stage[c] = "done"
  <2>1. output_shares[c] = Party
    BY <1>9, <1>17, <1>19 DEF Served, ContractInv, RoundsEarned, AllSent, ProgramFinished
  <2>2. Cardinality(output_shares[c]) >= min_shares
    <3>1. Cardinality(Party) \in Nat
      BY ExecutionAssumption, FS_CardinalityType, ZenonT(30)
    <3>2. min_shares \in 1..Cardinality(Party)
      BY ExecutionAssumption, ZenonT(30)
    <3> QED
      BY <2>1, <3>1, <3>2
  <2>3. c \notin awaiting /\ round >= OutputDistribution
    BY <1>1, <1>19 DEF ProgramFinished, OutputDistribution
  <2> QED
    BY <1>14, <2>2, <2>3, ZenonT(30) DEF ClientCan, At, wait_for_round
<1> QED
  BY <1>19, <1>20

\* Nobody waits for what does not come, for any number of parties, clients,
\* indices and others: unless a client lost its index, somebody asked for a mask
\* share in a client's name before the node knew of its reservation, or an event
\* stream ended, somebody can go on until every client has its outputs and the
\* execution is over.  There is an index, every index is meant for a client that
\* follows the protocol, and they do not share TLS identities.  The circle of waits among the designated party, its
\* node and the clients is broken in every round (wait_for_indices,
\* wait_for_inputs, receive_mask, obtain_outputs, trigger_round).
THEOREM AlwaysSomebody ==
  ASSUME Complete
  PROVE  SpecExecution => []SomebodyCan
<1> DEFINE All == InputsOwned /\ CallsInv /\ RequestsInv /\ ClientsInv /\ Served
<1>1. InitExecution => All
  <2> SUFFICES ASSUME InitExecution
               PROVE  All
    OBVIOUS
  <2>1. \A c \in Honest : c \in Address /\ c \in Actor /\ index_of[c] \in Index /\ c # None
    BY ExecutionAssumption, OnChainAssumption, ZenonT(30) DEF Actor
  <2>2. InputsOwned
    BY ZenonT(30) DEF InitExecution, InputsOwned
  <2>3. CallsInv
    <3>1. \A a \in Actor : Txs(a) = {}
      BY DEF InitExecution, Txs
    <3> QED
      BY <3>1 DEF InitExecution, CallsInv, Round, Idle, InputCollection, ProgramFinished
  <2>4. RequestsInv
    BY DEF InitExecution, Init, RequestsInv
  <2>5. ClientsInv
    <3>1. ASSUME NEW c \in Honest
          PROVE  CallOf(c) /\ StageOf(c)
      BY <2>1, <3>1, ZenonT(30) DEF InitExecution, Init, CallOf, StageOf, Asked, Stages
    <3>2. OwnOnly
      BY <2>1 DEF InitExecution, OwnOnly
    <3>3. DOMAIN stage = Honest
      BY DEF InitExecution
    <3> QED
      BY <3>1, <3>2, <3>3, ZenonT(30) DEF ClientsInv
  <2>6. Served
    BY DEF InitExecution, Served
  <2> QED
    BY <2>2, <2>3, <2>4, <2>5, <2>6, ZenonT(30)
<1>2. Inv /\ ContractInv /\ Delivery /\ All /\ [NextExecution]_varsExecution => All'
  <2> SUFFICES ASSUME Inv, ContractInv, Delivery, All, [NextExecution]_varsExecution
               PROVE  All'
    OBVIOUS
  <2>1. OneRequest /\ OwnOnly
    BY DEF Delivery, ClientsInv
  <2> QED
    BY <2>1, InputsOwnedStep, CallsStep, RequestsStep, ClientsStep, ServedStep, ZenonT(30)
<1>3. Inv /\ ContractInv /\ Delivery /\ All => SomebodyCan
  BY NobodyStuck
<1> QED
  BY <1>1, <1>2, <1>3, ExecutionInvariant, NodeOfExecution, DeliveryAlways, PTL
  DEF SpecExecution
================================================================================
