---------------------------- MODULE OnChainExecution ----------------------------
(***************************************************************************)
(* An execution over the on-chain coordinator (on-chain/src/lib.rs,        *)
(* OnChainCoordinator): parties and clients send transactions to the       *)
(* contract and wait for its events, and a client gets its mask from the   *)
(* node interface that OnChainNode describes, here the one of the          *)
(* designated party.  The other nodes behave like it.                      *)
(*                                                                         *)
(* The contract is not part of the repository.  It is represented by what  *)
(* the calls rely on: it enters the rounds in order, gives an index to the *)
(* first that reserves it, takes an input for an index once, from the      *)
(* address that reserved it, takes output shares while they are            *)
(* distributed, and keeps its events.  A call is simulated when it is      *)
(* sent, which fails if the contract would revert it then; once sent, the  *)
(* transactions of one sender are mined in their order, those of different *)
(* senders in any, and one that the contract reverts by then is mined all  *)
(* the same.                                                               *)
(*                                                                         *)
(* The designated party calls for the rounds, and Honest clients reserve   *)
(* the index meant for them, in the order in which the end-to-end test of  *)
(* the repository drives them.  Other addresses reserve any index and      *)
(* submit for it.  Other TLS clients ask the node for a share in the name  *)
(* of any address, but cannot sign for an honest client's.  The other      *)
(* parties' part is to send their output shares.                           *)
(***************************************************************************)
EXTENDS OnChainNode, Rounds, Sequences

CONSTANTS
  Party,
  designated,    \* the party that triggers the rounds
  Honest,        \* the clients that follow the protocol
  index_of,      \* the index meant for each of them
  tls_id,        \* the TLS identity of each of them
  min_shares,    \* how many output shares a client needs
  MaxTries       \* bound: how often the call for a round is sent

n_inputs == Cardinality(Index)

Actor == Party \cup Address

ASSUME ExecutionAssumption ==
  /\ IsFiniteSet(Index) /\ IsFiniteSet(Party)
  /\ designated \in Party
  /\ Party \cap Address = {}
  /\ Honest \subseteq Address
  /\ index_of \in [Honest -> Index]
  /\ tls_id \in [Honest -> Id]
  /\ min_shares \in 1..Cardinality(Party)
  /\ Reservations = [addr : Address, index : Index]

VARIABLES
  round, reserved, inputs,   \* the contract: its round, who reserved each index,
  output_shares,             \*   the submitted inputs, and who sent shares to whom
  mempool,      \* per actor, its transactions that are not mined, by nonce
  awaiting,     \* actors that wait for the last of theirs
  tries,        \* how often the next round was called for
  addr_to_i,    \* what wait_for_indices returned to the designated party
  broken,       \* whether its event stream ended in wait_for_indices
  received,     \* whether wait_for_inputs returned to it
  recipients,   \* the clients that are sent output shares
  stage         \* per honest client, how far it is

contract == <<round, reserved, inputs, output_shares>>

calls == <<mempool, awaiting, tries>>

waits == <<addr_to_i, broken, received, recipients>>

varsExecution == <<vars, contract, calls, waits, stage>>

InitExecution ==
  /\ Init
  /\ round = Idle
  /\ reserved = [i \in Index |-> None]
  /\ inputs = {}
  /\ output_shares = [c \in Address |-> {}]
  /\ mempool = [a \in Actor |-> <<>>]
  /\ awaiting = {}
  /\ tries = 0
  /\ addr_to_i = None
  /\ broken = FALSE
  /\ received = FALSE
  /\ recipients = None
  /\ stage = [c \in Honest |-> "start"]

-----------------------------------------------------------------------------
\* Whether the contract accepts a transaction.
Accepts(tx) ==
  CASE tx.call = "round" -> tx.arg = round + 1
    [] tx.call = "reserveMaskIndex" ->
         round = InputMaskReservation /\ reserved[tx.arg] = None
    [] tx.call = "submitMaskedInput" ->
         /\ round = InputCollection
         /\ reserved[tx.arg] = tx.from
         /\ tx.arg \notin inputs
    [] tx.call = "sendOutputShares" ->
         round = OutputDistribution /\ tx.from \notin output_shares[tx.arg]

\* What an accepted transaction does.
Execute(tx) ==
  /\ round' = IF tx.call = "round" THEN tx.arg ELSE round
  /\ reserved' = IF tx.call = "reserveMaskIndex"
                 THEN [reserved EXCEPT ![tx.arg] = tx.from] ELSE reserved
  /\ inputs' = IF tx.call = "submitMaskedInput" THEN inputs \cup {tx.arg} ELSE inputs
  /\ output_shares' = IF tx.call = "sendOutputShares"
                      THEN [output_shares EXCEPT ![tx.arg] = @ \cup {tx.from}]
                      ELSE output_shares

Tx(from, call, arg) == [from |-> from, call |-> call, arg |-> arg]

\* An actor sends a transaction that passes the simulation, and waits for it.
SendTx(tx) ==
  /\ tx.from \notin awaiting
  /\ Accepts(tx)
  /\ mempool' = [mempool EXCEPT ![tx.from] = Append(@, tx)]
  /\ awaiting' = awaiting \cup {tx.from}
  /\ UNCHANGED <<vars, contract, waits, stage>>

\* Fault: the receipt is not looked at.
Ok_Mined(tx, status) == TRUE

\* Whether a call returns Ok when its transaction is mined.  Only
\* reserve_mask_index looks at the receipt.
Ok(tx, status) == tx.call = "reserveMaskIndex" => status

\* Where a client is when a call of its own has returned.
Returned(tx, status) ==
  IF ~Ok(tx, status) THEN "failed"
  ELSE IF tx.call = "reserveMaskIndex" THEN "reserved" ELSE "submitted"

\* Whether the next transaction of an actor is the one it waits for.
Awaited(a) == a \in awaiting /\ Len(mempool[a]) = 1

\* The next transaction of an actor is mined.  The actor is told if it waits.
Mine(a) ==
  /\ mempool[a] # <<>>
  /\ mempool' = [mempool EXCEPT ![a] = Tail(@)]
  /\ LET tx == Head(mempool[a])
     IN  /\ IF Accepts(tx) THEN Execute(tx) ELSE UNCHANGED contract
         /\ tries' = IF round' = round THEN tries ELSE 0
         /\ awaiting' = IF Awaited(a) THEN awaiting \ {a} ELSE awaiting
         /\ stage' = IF Awaited(a) /\ a \in Honest
                     THEN [stage EXCEPT ![a] = Returned(tx, Accepts(tx))] ELSE stage
  /\ UNCHANGED <<vars, waits>>

-----------------------------------------------------------------------------
\* Fault: only the event of the current round is seen.
wait_for_round_Current(r) == round = r

\* The events are read from the block of the contract on, so one that came before
\* the call is seen as well.
wait_for_round(r) == round >= r

\* Fault: one event less is waited for.
Enough_Less(set) == Cardinality(set) >= n_inputs - 1

\* Both waits count the events up to n_inputs.
Enough(set) == Cardinality(set) = n_inputs

\* wait_for_indices looks at its count after an event, so it needs one.
EnoughIndices(set) == set # {} /\ Enough(set)

ReservedIndices == {i \in Index : reserved[i] # None}

\* The designated party waits for every reservation.  When the event stream ends
\* before, it is given those that came so far.
wait_for_indices ==
  /\ addr_to_i = None
  /\ wait_for_round(InputMaskReservation)
  /\ \/ /\ EnoughIndices(ReservedIndices)
        /\ addr_to_i' = reserved
        /\ UNCHANGED broken
     \/ \E set \in SUBSET ReservedIndices :
          /\ ~EnoughIndices(set)
          /\ addr_to_i' = [i \in Index |-> IF i \in set THEN reserved[i] ELSE None]
          /\ broken' = TRUE
  /\ UNCHANGED <<vars, contract, calls, received, recipients, stage>>

\* It waits for every masked input.  When the event stream ends before, it is
\* given an error and may ask again.
wait_for_inputs ==
  /\ ~received
  /\ wait_for_round(InputCollection)
  /\ Enough(inputs)
  /\ received' = TRUE
  /\ UNCHANGED <<vars, contract, calls, addr_to_i, broken, recipients, stage>>

\* It tells its node of the reservations it was given.
ReportIndex(i) ==
  /\ addr_to_i # None
  /\ addr_to_i[i] # None
  /\ add_reserved_index(addr_to_i[i], i)
  /\ UNCHANGED <<contract, calls, waits, stage>>

\* Preprocessing gives the node the share of an index.
ReportShare(i) ==
  /\ add_mask_share(i)
  /\ UNCHANGED <<contract, calls, waits, stage>>

\* NodeRPCServer::ids_and_addrs: the clients that are sent outputs are those that
\* the node lists when outputs are distributed.
ReadClients ==
  /\ recipients = None
  /\ wait_for_round(OutputDistribution)
  /\ recipients' = {e.addr : e \in {e \in ids_and_addrs : ~e.pending}}
  /\ UNCHANGED <<vars, contract, calls, addr_to_i, broken, received, stage>>

\* Fault: the program is started without waiting for the inputs.
ReadyFor_NoInputs(r) ==
  /\ r = InputCollection =>
       /\ addr_to_i # None
       /\ \A i \in Index : addr_to_i[i] # None => index_to_client[i] # None
  /\ r = ProgramFinished =>
       /\ recipients # None
       /\ \A addr \in recipients : output_shares[addr] = Party

\* What the designated party has done before it calls for a round.
ReadyFor(r) ==
  /\ r = InputCollection =>
       /\ addr_to_i # None
       /\ \A i \in Index : addr_to_i[i] # None => index_to_client[i] # None
  /\ r = MPCExecution => received
  /\ r = ProgramFinished =>
       /\ recipients # None
       /\ \A addr \in recipients : output_shares[addr] = Party

\* start_preprocessing, reserve_input_masks, collect_inputs, start_mpc,
\* send_output and finalize
trigger_round(r) ==
  /\ ~panicked
  /\ ReadyFor(r)
  /\ tries < MaxTries
  /\ tries' = tries + 1
  /\ SendTx(Tx(designated, "round", r))

\* Waiting for the transaction of a round fails while it may still be mined: the
\* party is given an error and calls again.
GiveUp ==
  /\ designated \in awaiting
  /\ mempool[designated][Len(mempool[designated])].call = "round"
  /\ tries < MaxTries
  /\ awaiting' = awaiting \ {designated}
  /\ UNCHANGED <<vars, contract, mempool, tries, waits, stage>>

send_output_shares(p, addr) ==
  /\ p = designated => ~panicked
  /\ recipients # None
  /\ addr \in recipients
  /\ SendTx(Tx(p, "sendOutputShares", addr))
  /\ UNCHANGED tries

-----------------------------------------------------------------------------
At(c, s) == stage[c] = s /\ c \notin awaiting

Proceed(c, s) == stage' = [stage EXCEPT ![c] = s]

\* A call that does not pass the simulation ends the client's run.
SendOrFail(tx) ==
  IF Accepts(tx) THEN SendTx(tx) /\ UNCHANGED tries
  ELSE Proceed(tx.from, "failed") /\ UNCHANGED <<vars, contract, calls, waits>>

reserve_mask_index(c) ==
  /\ At(c, "start")
  /\ wait_for_round(InputMaskReservation)
  /\ SendOrFail(Tx(c, "reserveMaskIndex", index_of[c]))

\* The client asks for its share, signing the index it reserved.  It panics when
\* the node rejects its subscription.
receive_mask(c) ==
  /\ At(c, "reserved")
  /\ \/ /\ receive_mask_share(tls_id[c], c, index_of[c])
        /\ Proceed(c, "asked")
     \/ /\ Rejects(tls_id[c], c, index_of[c])
        /\ Proceed(c, "rejected")
        /\ UNCHANGED vars
  /\ UNCHANGED <<contract, calls, waits>>

\* The share arrives and the mask is reconstructed.
MaskReceived(c) ==
  /\ At(c, "asked")
  /\ index_of[c] \in sent[c]
  /\ Proceed(c, "masked")
  /\ UNCHANGED <<vars, contract, calls, waits>>

send_masked_input(c) ==
  /\ At(c, "masked")
  /\ wait_for_round(InputCollection)
  /\ SendOrFail(Tx(c, "submitMaskedInput", index_of[c]))

\* Fault: one share more than needed is waited for.
obtain_outputs_OneMore(c) ==
  /\ At(c, "submitted")
  /\ wait_for_round(MPCExecution) /\ wait_for_round(OutputDistribution)
  /\ Cardinality(output_shares[c]) > min_shares
  /\ Proceed(c, "done")
  /\ UNCHANGED <<vars, contract, calls, waits>>

obtain_outputs(c) ==
  /\ At(c, "submitted")
  /\ wait_for_round(MPCExecution) /\ wait_for_round(OutputDistribution)
  /\ Cardinality(output_shares[c]) >= min_shares
  /\ Proceed(c, "done")
  /\ UNCHANGED <<vars, contract, calls, waits>>

\* Another address sends a transaction.
OtherCall(addr) ==
  \E call \in {"reserveMaskIndex", "submitMaskedInput"}, i \in Index :
    SendTx(Tx(addr, call, i)) /\ UNCHANGED tries

OtherId == Id \ {tls_id[c] : c \in Honest}

\* The signatures that others have for an address.
OtherSignature(addr) == IF addr \in Honest THEN {None} ELSE Signature

\* Another TLS client asks for the share of an address, its own or not.  What the
\* node rejects changes nothing.
OtherRequest(id, addr) ==
  /\ \E sig \in OtherSignature(addr) : receive_mask_share(id, addr, sig)
  /\ UNCHANGED <<contract, calls, waits, stage>>

ClientStep(c) ==
  \/ reserve_mask_index(c)
  \/ receive_mask(c)
  \/ MaskReceived(c)
  \/ send_masked_input(c)
  \/ obtain_outputs(c)

DesignatedStep ==
  \/ wait_for_indices
  \/ wait_for_inputs
  \/ ReadClients
  \/ \E i \in Index : ReportIndex(i)
  \/ \E i \in Index : ReportShare(i)

NextExecution ==
  \/ \E a \in Actor : Mine(a)
  \/ \E r \in ORDERED_ROUNDS : trigger_round(r)
  \/ GiveUp
  \/ DesignatedStep
  \/ \E p \in Party, addr \in Address : send_output_shares(p, addr)
  \/ \E c \in Honest : ClientStep(c)
  \/ \E addr \in Address \ Honest : OtherCall(addr)
  \/ \E id \in OtherId, addr \in Address : OtherRequest(id, addr)

\* Transactions are mined, parties and clients go on with what they can do.
\* Nothing makes other addresses act, a wait fail or a stream end.
Fairness ==
  /\ WF_varsExecution(\E a \in Actor : Mine(a))
  /\ WF_varsExecution(\E r \in ORDERED_ROUNDS : trigger_round(r))
  /\ WF_varsExecution(DesignatedStep)
  /\ WF_varsExecution(\E p \in Party, addr \in Address : send_output_shares(p, addr))
  /\ \A c \in Honest : WF_varsExecution(ClientStep(c))

SpecExecution == InitExecution /\ [][NextExecution]_varsExecution /\ Fairness

-----------------------------------------------------------------------------
\* What the caller of an operation takes an Ok to mean.
Done(tx) ==
  CASE tx.call = "round" -> round >= tx.arg
    [] tx.call = "reserveMaskIndex" -> reserved[tx.arg] = tx.from
    [] tx.call = "submitMaskedInput" -> tx.arg \in inputs
    [] tx.call = "sendOutputShares" -> tx.from \in output_shares[tx.arg]

\* An operation that returned Ok has happened on the contract: the round is
\* reached, the index is the caller's, the input or the share is recorded.  The
\* round calls, send_masked_input and send_output_shares do not look at the
\* receipt, and a transaction that was good when it was simulated may be
\* reverted when it is mined; what is reverted had been done already
\* (trigger_round, reserve_mask_index, send_masked_input, send_output_shares).
OkMeansDone ==
  [][\A a \in Actor : \A tx \in {mempool[a][k] : k \in DOMAIN mempool[a]} :
       Awaited(a) /\ mempool'[a] = <<>> /\ Ok(tx, Accepts(tx)) =>
         Done(tx)']_varsExecution

\* When the designated party is given the reservations it has the contract's, all
\* of them, unless its event stream ended; when it is given the inputs it has them
\* all; and what the node sends agrees with the contract even if the stream ended
\* (wait_for_indices, wait_for_inputs, add_reserved_index).
ResultsComplete ==
  /\ addr_to_i # None /\ ~broken => addr_to_i = reserved /\ ReservedIndices = Index
  /\ received => inputs = Index
  /\ \A addr \in Address : \A i \in sent[addr] : reserved[i] = addr

\* The reservations, the inputs and the phase, as the clients see them: anybody may
\* take any index.
Commitment == INSTANCE InputCommitment WITH
  Client <- Address,
  owner <- reserved,
  input <- [i \in Index |-> IF i \in inputs THEN reserved[i] ELSE None],
  phase <- IF round < InputCollection THEN "reserving"
           ELSE IF round = InputCollection THEN "collecting" ELSE "running",
  assigned <- [i \in Index |-> None]

\* The on-chain coordinator keeps the promise that the off-chain one keeps: slots
\* are taken, then filled by those who took them, and then the program runs on all
\* inputs, which do not change any more.  The contract starts the program when it is
\* called for, so this rests on the designated party, whose repeated calls may be
\* mined late (wait_for_inputs, start_mpc, trigger_round).
KeepsCommitment == Commitment!Spec

\* Somebody else asked for a share in the name of an honest client, before its
\* reservation was known to the node: the node keeps the request, to look at its
\* signature later, and rejects the one of the client.
Impersonated(c) == \E e \in ids_and_addrs : e.addr = c /\ e.id # tls_id[c]

Disturbed == broken \/ \E c \in Honest : stage[c] = "failed" \/ Impersonated(c)

\* Every client gets its outputs and the execution ends, unless a client lost its
\* index to another address, somebody asked for a mask share in a client's name
\* before the node knew of its reservation (the client then panics in
\* receive_mask), or an event stream ended.  Masks, reservations and requests
\* reach the node in any order, clients come late for a round, and the call for a
\* round may be repeated (wait_for_round, receive_mask, send_masked_input,
\* obtain_outputs, trigger_round).
EveryoneServed ==
  <>(Disturbed \/ (round = ProgramFinished /\ \A c \in Honest : stage[c] = "done"))

-----------------------------------------------------------------------------
\* When the steps that somebody takes in the end can be taken: a transaction is to
\* be mined,
MinerCan == \E a \in Actor : mempool[a] # <<>>

\* the designated party calls for the next round, learns something, or tells its
\* node something,
DesignatedCan ==
  \/ /\ ~panicked
     /\ round + 1 \in ORDERED_ROUNDS
     /\ ReadyFor(round + 1)
     /\ tries < MaxTries
     /\ designated \notin awaiting
  \/ addr_to_i = None /\ wait_for_round(InputMaskReservation) /\ EnoughIndices(ReservedIndices)
  \/ ~received /\ wait_for_round(InputCollection) /\ Enough(inputs)
  \/ recipients = None /\ wait_for_round(OutputDistribution)
  \/ /\ ~panicked
     /\ \E i \in Index :
          \/ addr_to_i # None /\ addr_to_i[i] # None /\ index_to_client[i] = None
          \/ i \notin mask_shares

\* a party sends output shares,
PartyCan ==
  /\ recipients # None
  /\ round = OutputDistribution
  /\ \E p \in Party, addr \in recipients :
       p \notin awaiting /\ (p = designated => ~panicked) /\ p \notin output_shares[addr]

\* or an honest client makes its next call, or has what it waits for.
ClientCan(c) ==
  \/ At(c, "start") /\ wait_for_round(InputMaskReservation)
  \/ At(c, "reserved")
  \/ At(c, "asked") /\ index_of[c] \in sent[c]
  \/ At(c, "masked") /\ wait_for_round(InputCollection)
  \/ /\ At(c, "submitted")
     /\ wait_for_round(OutputDistribution)
     /\ Cardinality(output_shares[c]) >= min_shares

\* Nobody waits for what does not come: unless a client lost its index, somebody
\* asked for a mask share in a client's name before the node knew of its
\* reservation, or an event stream ended, there is always somebody who can go on
\* until every client has its outputs and the execution is over.  The designated
\* party waits for all clients, they for it and its node, the node for both, and
\* nobody has a timeout (wait_for_indices, wait_for_inputs, receive_mask,
\* obtain_outputs, trigger_round).
SomebodyCan ==
  \/ Disturbed
  \/ round = ProgramFinished /\ \A c \in Honest : stage[c] = "done"
  \/ MinerCan
  \/ DesignatedCan
  \/ PartyCan
  \/ \E c \in Honest : ClientCan(c)
===============================================================================
