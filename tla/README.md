# A TLA+ model of the Stoffel MPC coordinator

The coordinator takes a secure computation through its rounds: preprocessing,
reservation of input masks, collection of masked inputs, execution, distribution
of outputs. MPC parties vote for each round; clients reserve masks, fetch mask
shares from the parties, submit masked inputs and obtain output shares. This
directory models the parts of the code that keep state, checks them with TLC on
small instances, and proves the main safety properties with TLAPS for every value
of the constants. Paths are relative to `crates/` of the repository.

## The system and its parts

| Part | Code | Module | Status |
|---|---|---|---|
| Rounds, quorums, topology check | `coord-shared/src/lib.rs`, `off-chain/src/lib.rs` | `Rounds` | modelled |
| One execution: votes, reservations, inputs | `off-chain/src/lib.rs` (`CoordinatorExecutionState`, its handlers) | `CoordinatorExecution`, `HonestExecution`, `InputCommitment` (abstract) | modelled |
| Event feeds and round subscriptions, and the client loops that read them | `off-chain/src/lib.rs` (`subscribe_*`, `sub_round`, `wait_for_*`) | `EventFeeds` | modelled |
| Executions: registration, retirement, eviction, tombstones, one-off shutdown | `off-chain/src/lib.rs` (`CoordinatorRPCServerSharedBase`, `RetiredExecutions`) | `ExecutionRegistry` | modelled |
| Output shares, from party to client | `off-chain/src/lib.rs` (`send_output_shares`, `obtain_output_shares`, `obtain_outputs`) | `OutputDelivery` | modelled |
| Mask shares on a node | `off-chain/src/lib.rs` (`node_rpc`) | `NodeMaskShares` | modelled |
| Replay check of browser requests | `off-chain/src/browser_rpc.rs` (`authenticate`, `NonceBook`) | `NonceBook` | the check, not the cryptography |
| WebAuthn binding of browser tabs, and the key the parties encrypt outputs to | `off-chain/src/browser_rpc.rs` (`WebauthnBindings`, `SignCounts`, bind and submit methods), `off-chain/src/lib.rs` (`send_output_shares` of the party) | `BrowserSessions` | coordinator side |
| Mask reconstruction over several nodes | `off-chain/src/lib.rs` (`receive_assigned_masks`) | `MaskReconstruction` | modelled |
| Mask shares on a node with the on-chain coordinator | `on-chain/src/lib.rs` (`node_rpc`) | `OnChainNode` | modelled |
| On-chain coordinator client | `on-chain/src/lib.rs` (`OnChainCoordinator`) | `OnChainExecution` | its operations; the contract is not in the repository |
| Input layout | `bins/src/bin/run-coord.rs` (`build_input_assignment`), `off-chain/src/lib.rs` (`expand_input_ranges`) | `InputLayout` | modelled, as pure operators |
| Browser read methods | `off-chain/src/browser_rpc.rs` | `CoordinatorExecution` | `browser_execution_status` as far as inputs go; the others read one lock and change nothing |
| Transport, TLS, certificates | `coord-shared/src/rpc.rs`, `self_signed_certs.rs` | - | pure I/O |
| Binaries | `bins/src/bin/` | - | start-up |

How they interact: parties register an execution in the registry, then drive its
rounds; the execution's handlers append to event histories and send to
subscribers; nodes pass reservations from the feeds on to their own mask-share
service; outputs flow back through the output delivery; browser clients use the
same handlers behind a signed-request check and a WebAuthn binding. The modules
compose where the code shares state: `CoordinatorExecution` extends `Rounds`,
`EventFeeds` and `HonestExecution` extend `CoordinatorExecution` (every one of
their actions is the underlying action and what the handler does beyond it),
`ExecutionRegistry` shares `Rounds`. `MaskReconstruction` puts the client beside
`NodeMaskShares`, and `OnChainExecution` the contract, the parties and the clients
beside `OnChainNode`; in both the steps of the node are the node's own actions, and
it is proved that the composition implements the node's specification. The others
touch each other only through parameters of calls, and are modelled on their own.

## How code becomes actions

State sits behind a tokio mutex. What a handler does between locking and
unlocking is one action; where a handler drops the lock and takes it again there
are two, and everything else may happen in between. Calls that are refused change
nothing and are left out as guards, unless refusing them changes state (a refused
registration can evict, a refused request drops a sink).

- `CoordinatorExecution`. `Transition` is `transition`: record the vote, then the
  loop of `try_advance`. `SubmitMaskedInputs` and `MaskedInputsSent` are the two
  lock regions of `submit_masked_inputs`; the second one calls `try_advance` again.
  Both handlers hold the mutex `masked_input_delivery`, the variable `delivery`,
  until their sends are over (`TransitionsDelivered`). `ReserveMaskIndices` is
  `reserve_mask_indices`, which does not take that mutex. A masked input is
  represented by the client that submitted it, a round by its `round_index`.
- `InputCommitment` says what an execution promises about inputs without votes,
  events or locks. `KeepsCommitment` states that `CoordinatorExecution` implements it:
  `reserved_indices` are the owners, `masked_inputs` the inputs, and the rounds are
  read as reserving, collecting or running. `OnChainExecution` has a `KeepsCommitment`
  of its own, with the contract's state in their place: both coordinators keep the
  same promise, one by holding `MPCExecution` back, the other because the designated
  party waits.
- `HonestExecution` restricts the callers: honest parties propose a round only
  when the protocol lets them, honest clients reserve and submit what is assigned
  to them. The program that drives a party is not in the repository; what it
  waits for is taken from the client methods it calls. `Layouts` are client IO
  manifests with bindings of their client slots, and `Registered` those of them that
  `run-coord` would register this very execution from, so that one can speak of the
  way from the manifest to the inputs of the program (`InputsAsBound`).
- `EventFeeds` adds sinks. The four `sub_*` actions have the names of their handlers.
  A replay may break off anywhere, a live send may fail;
  `submit_masked_inputs` takes the sinks out while it sends, and puts the ones that
  took the event back next to those that joined meanwhile.
- `ExecutionRegistry`. `register_execution` and `retire_execution` are the registry's
  own operations, `RegisterExecution` and `RetireExecution` the RPC handlers that call
  them. A registration evicts before it validates, as the code does; which evictable execution goes is a choice (hash-map order).
  `OutputUnlocked` and `OutputRelocked` are the two lock regions of the output
  handlers. `StopServer` is the end of `start_coord_one_off`: drained or expired.
- `OutputDelivery` is for one client, since sinks and shares are keyed by client.
  Every handler goes through `ready_output_snapshot`, `SendSnapshot` and, when the
  send fails, `RemoveFailedSink`. A share is what the client finds on opening it:
  good, wrong, short or unreadable.
- `NodeMaskShares` is one execution on one node. The two phases of a batch are one
  step; the clients a batch touches are served in any order, which includes the
  code's, and a refused request ends the batch.
- `MaskReconstruction` is one call of `receive_assigned_masks` at a time. The client
  subscribes to the nodes one after the other and takes their answers in any order.
  One node is `NodeMaskShares`; the others bring shares or end their stream, and a
  faulty one may also bring wrong shares, shares of other indices or bytes that are
  no shares, or nothing. The sharing scheme recovers a mask from enough right
  shares; with a wrong one among them it may or may not.
- `NonceBook` is one execution and one identity. A call of `authenticate` reads the
  clock (`ReadClock`), waits for the lock of the book, and uses the book with the time
  it has read (`accept`). `BrowserSessions` is one identity
  in one execution, with a bind call in three steps, one per lock, and a submission
  in two. `send_output_shares` is a party's call of that name as far as it chooses the
  key: the tab's, or the identity's own (`"no binding"`) when there is none or the
  lookup fails.
- `OnChainNode` represents a signature by the index it is valid for, and by `None` one
  that is not valid for the address it comes with. Any TLS client may ask in the name
  of any address.
- `OnChainExecution`. Every operation that changes the contract is a transaction: it
  is simulated when it is sent (`SendTx`), mined later (`Mine`), in nonce order per
  sender and in any order across senders, and its receipt says whether the contract
  reverted it. Only `reserve_mask_index` looks at the receipt (`Ok`). Waits read the
  events from the block of the contract on, so a wait for a round is true from that
  round on. `wait_for_indices` looks at its count after an event only, so with no
  index to reserve it would wait for good (`EnoughIndices`); it returns what it has when
  its stream ends (`broken`),
  `wait_for_inputs` fails and can be called again. The order in which parties and
  clients call is that of `on-chain/tests/on_chain.rs`. The contract is external and
  stands for what these calls rely on (`Accepts`, `Execute`). Others send transactions
  (`OtherCall`), and ask the node for shares in any name (`OtherRequest`) under TLS
  identities of their own; they cannot sign for an honest client. A client whose
  request is rejected panics (`"rejected"`). Output shares are good;
  bad ones are the subject of `OutputDelivery`.
- `InputLayout` has no state: `build_input_assignment`, the checks of
  `CoordinatorExecutionState::new` on an assignment, and `expand_input_ranges`, beside
  a definition of what the layout should be (`LayoutAsBound`).
- `SeqHelpers` has the two loops over sequences that several modules share: keeping
  the entries at some positions (`Retain`: `VecDeque::retain`, a loop that skips
  entries) and adding up numbers (`RunningSums`: the slots of the first k ranges, the
  indices counted after k events). They are written as functions, not as the folds of
  a library, so that something can be proved of them for sequences of any length.

Operators whose comment begins with "Fault" are deliberate mistakes, one for each
checked property: put in the place of the definition they follow by name, they
make TLC report that property. They show that a property can fail.

## What the runs check

Runs that pass:

| Run | Instance | What it shows |
|---|---|---|
| `execution` | 3 parties, t = 1; 2 slots, 2 clients, unassigned; a batch of one index, of both, and of one index twice | Every round entered had an honest proposer; rounds follow each other; no quorum waits without cause; the event history agrees with the slots; the execution implements `InputCommitment`. |
| `honest_execution` | 3 parties, 1 of them faulty; 3 slots, of 3 clients one with two, one with one, one with none; manifests and bindings of up to 2 entries, and of 3 | The execution is never stuck (`NeverStuck`) and always finishes, and never on truncated inputs; every layout is as the manifest and the bindings ask, or refused because they are not one-to-one (`LayoutsAsBound`); and the program runs, for every client, on as many inputs as the manifest has for it, in order and from that client (`InputsAsBound`). |
| `feeds` | 1 party, 2 assigned slots, a batch for each and one with an index three times, 2 feed subscriptions on any of 4 feeds, 1 round subscription | Every subscription gets every event once and in order; no sink is lost; a waiter is neither lost nor told twice; `MPCStarted` does not overtake a masked input; the client loops see slots with their owners, and all of them unless an event repeats an index; the number of free masks is exact just as long as no event does, and the status a browser reads is so. |
| `registry` | one-off execution and 3 others, 2 slots, 2 tombstones, 3 parties | Capacity and tombstone bounds hold; state is only dropped with a quorum, that of the one-off execution never; `is_retired` stays true until a tombstone is forgotten for one of two reasons; the listener stops only for a reason. |
| `output` | 3 parties, 1 of them faulty; 2 competing subscriptions | The open subscription is kept and offered all shares, a client that read them all waits on only if they do not give the outputs (`AllSharesOffered`), and it ends with the outputs unless its connection goes away. |
| `node_shares` | 3 indices, 2 clients, empty, overlapping and out-of-range requests; a client of 3 nodes, 1 of them faulty, that needs 2 shares | Shares go to the reserver only; no complete request stays pending unless a batch was cut short; a reconstruction fails only for a reason and goes on only while it has too few shares (`ResultJustified`), and does not wait for the faulty node (`Returns`). |
| `browser` | 3 tabs, 2 slots, 4 signatures, 2 parties; window 2, clock up to 4, 2 nonces, 2 calls at a time | The parties encrypt to one key, a submitter's, unless a bind was overtaken; the target settles. No request is accepted twice unless its call was overtaken (`ReplayedOnlyIfOvertaken`). The two parts share no state and run one at a time. |
| `on_chain_execution` | 2 parties, 2 honest clients, another address and another TLS identity, 2 indices, wrong signatures, up to 2 attempts per round | Shares go to authenticated owners only, and are not forgotten; the waits return everything (`ResultsComplete`); an Ok means that it was done although receipts are mostly not looked at (`OkMeansDone`); the contract implements `InputCommitment` too (`KeepsCommitment`); there is always somebody who can go on (`SomebodyCan`), and every client gets its outputs unless one lost its index, somebody asked for a share in its name first, or an event stream ended (`EveryoneServed`). |

Runs that fail, because a comment, a message or a test says something the code does
not do (`PROJECT.json` has the quotations):

| Run | What happens |
|---|---|
| `truncated_inputs` | `skips_empty_input_rounds` does not look at the number of inputs, so that a quorum can go from `Preprocessing` to `MPCExecution` with empty slots. With at most t faulty parties this cannot happen (`NoTruncatedRun`): an honest party does not propose `MPCExecution` early. |
| `registry_output` | An execution is evicted between two lock regions of an output handler, whose `expect` then fails. |
| `pin_last_write` | A bind that was checked before a submission writes its target after the pin, which was to be the last write. |
| `output_unreadable` | One share that does not decrypt ends `obtain_outputs`, which was to go on until it succeeds. |

Other places where the models had to follow the code and not its comments:

- A reservation that repeats an index is counted by its length, both in
  `available_input_masks` and in `wait_for_indices`. The number of free masks is then
  wrong (`AvailableMasksExact` says exactly when), and with more counted than there
  are slots the subtraction wraps to a very large number, as the release build does
  not check for overflow. A wait may end before every slot is reserved; what it has
  is right even then (`WaitedForAll`).
- The clock of a browser request is read before the lock of the nonce book is taken.
  A call that was overtaken by one with a later time may find its nonce forgotten and
  accept its request again; `ReplayedOnlyIfOvertaken` says that there is no other way.
- A registration that is refused may already have evicted an execution
  (`RegisterExecution` with `valid` false).
- Acknowledgements of an execution registered again go to its old tombstone as
  long as that stands (`RetireExecution`).
- A request that is refused ends the batch of `add_mask_shares`, and complete
  requests served before it are dropped (`dropped` in `PendingNotReady`).
- A bind that was checked before a submission can insert after the pin
  (`overtaken` in `OutputsToSubmitter`), and a party can ask for the key between a
  submission and its pin (`early`).
- On chain, a second reservation of an address that is already authenticated meets
  an assertion (`panicked` in `SharesDelivered`).
- On chain, `add_reserved_index` takes the pending signature of a client out before it
  verifies it, so that `ids_and_addrs` lists the client even when that fails
  (`ReadClients`).
- On chain, a request that names an honest client's address and comes before the
  node knows the reservation is kept with its signature unverified, and stays listed
  when the signature turns out to be bad. The client's own request is then rejected,
  its `receive_mask` panics, and the designated party waits for an input that does not
  come (`Impersonated` in `SomebodyCan` and `EveryoneServed`).
- On chain, `wait_for_indices` returns Ok with part of the reservations when its event
  stream ends (`broken` in `ResultsComplete`).
- One node that refuses `receive_assigned_mask_shares`, or answers with other indices,
  ends `receive_assigned_masks` whatever the others would bring (`ResultJustified`).

### Bounds

Three parties with t = 1 are the smallest roster with a faulty party, and the
quorum of two can be made of any two. Two slots are enough for a batch that
covers all, part, or the same slot twice; two feed subscriptions for one that
replays while the other is served live. The feeds run has one party: votes and
subscriptions meet only in the rounds entered, and the `execution` run has the
votes. In the registry the one-off execution holds one of the two slots for good,
so that three executions compete for the other; with two tombstones one of three
leaves the queue by age. A window of two and a clock up to four let a request dated
in the future be repeated until it is too old, and two calls overtake each other. In
the feeds a batch that names one index three times counts more indices than there are
slots. Three nodes with two shares needed are
the smallest where one may be faulty. On chain, a third address is enough to take
either client's index, to come second for it, and to keep it without submitting, and a
third TLS identity to ask in the name of either client; two attempts let a round's transaction be mined twice. In the honest execution a client
with two slots has an order of labels, and one without any is passed over. Manifests of two entries have
every repetition, omission and order, those of three a client without inputs between
two with. `MaxTime`, `MaxCount` and `MaxTries` are bounds of the
model; `u64_MAX` and `U64` stand for the width of an index and of a count. Symmetry is used only in runs
without liveness, of parties, of subscriptions, of tabs, and of clients where no
slot is assigned.

### Fairness

`HonestExecution`: weak fairness for the end of handlers, because every send is
cut off by `SUBSCRIPTION_SEND_TIMEOUT`; for every honest party and client, because
they keep calling until they are served; the mutex is a fair queue, and between
two acquisitions the state an honest caller waits for stays as it is. Faulty
parties get none. `OutputDelivery`: weak fairness for the delivery of handlers, for
the shares of honest parties, and for a client that reads as long as it is
connected; none for subscribing or disconnecting. The send of a snapshot has no
timeout in the code, so its fairness is an assumption about the client.
`MaskReconstruction`: weak fairness for the client, whose loops go on as long as there
is something to take; for the answers of nodes that are not faulty; and for the node
to learn of reservations and to get its shares, which the party's program sees to.
`OnChainExecution`: weak fairness for mining, for the designated party, for the
parties' output shares and for every honest client, none for other addresses, for
failing waits and for ending streams. It is an assumption about the chain that a
transaction is mined in the end.

Deadlock is checked for the execution, the feeds and the node.
The registry, the outputs, the browser interface and the on-chain execution may come to
rest: a stopped listener, closed subscriptions, nothing left to bind, or an execution
that is over or that a client dropped out of.

## What is proved

| Module | Theorems | Invariant behind them |
|---|---|---|
| `CoordinatorExecutionProofs` | types, `OneHonestProposer`, `NoStrandedProposal`, `CollectedInputsComplete`, `InputProvenance`, `InputsAnnouncedBeforeMPC`, `OneEventPerInput`, `StatusTruthful`; `RoundsFollowOrder`; that the execution implements `InputCommitment` (`KeepsCommitment`); `NoTruncatedRun`; `AvailableMasksExact`; `LayoutAsBound` of any manifest and bindings, and so `LayoutsAsBound`; `InputsAsBound` | Every round entered has its quorum of votes, the recorded rounds lie up to the current one, and outside a submission one more turn of the loop would enter nothing (`Settled`). A quorum has an honest member when at most t parties are not. The count of reservations is the number of reserved slots, and more just when indices were repeated (`Counted`). Inputs come from the owners of their slots, and with every slot filled the owners are the assigned clients, so that what the layout says of the slots is said of the inputs. |
| `EventFeedsProofs` | `FeedExact`, `NoSinkForgotten`, `WaitersNotLost`, `InputsBeforeMPCStarted`, types; `WaitedForAll`; that the feeds leave the execution as it is (`KeepsCommitment`); `NeverStuck`; that what a wait returns agrees with the coordinator's history (`WaitsAgree`) | A sink is in one of three places, the lists, the sending submission or the closed ones; sinks are taken only while a submission holds the mutex (`SinkInv`), and what a taken sink has received is the history without the events being sent (`ReceivedInv`). The events of a history name disjoint slots, each under its owner (`Owned`), so that as many indices as there are slots are all slots unless an event repeats one. A client has reserved all of its slots or none (`HonestInv`), so that a missing reservation can be made and a missing input submitted. |
| `ExecutionRegistryProofs` | types, `WithinCapacity`, `DroppedOnlyRetired`, `SealNeverReplaces`, `ShutdownJustified`; `TombstonesQueued`; `RetiredUntilForgotten` | The conjunction of the first five is inductive. The queue lists the tombstones without repetition (`Queue`): `seal` appends one that is not listed and drops the front, `acknowledge` takes out one entry and keeps the order of the rest. |
| `OutputDeliveryProofs` | `OpenSinkKept`, `AllSharesOffered`; `OutcomeJustified`; that nobody is left waiting once the honest parties sent and everything was read (`NobodyLeftWaiting`) | A handler whose send failed holds a closed sink; an open subscription has been offered every share or some handler is about to see to it (`Covered`). Snapshots are sets of sent shares (`SnapshotsProper`), and what was offered and read was tried (`OfferedTried`). More shares never recover less (`RecoversMore`). |
| `NodeMaskSharesProofs` | `SharesOnlyToReserver`, `PendingNotReady`; `ResultJustified`; that the node beside the client is `NodeMaskShares`; that a running call waits for a node that is not faulty (`WaitsForHonest`) | Pending requests stand under the name of their client; what completes a request touches its client (`ServeComplete`). The nodes joined without an end of the call brought shares or an ended stream, so too few shares of all nodes mean too many ended streams; and a call goes on only with too few of them (`GoesOn`). |
| `BrowserProofs` | `OutputsToSubmitter`, `TargetSettles`; `ReplayedOnlyIfOvertaken` | Unless a submission overtook a bind, no bind is under way once somebody submitted (`Quiet`), so that with all inputs in and all pins made the target is final, and the keys handed out are the target (`KeysFixed`). An accepted request is on file, or too old for every call that was not overtaken (`OnFileOrOld`). |
| `OnChainNodeProofs` | `SharesAuthenticated`, `SharesDelivered`, both also in the execution over the contract; `ResultsComplete`, `OkMeansDone`; that the node in the execution is `OnChainNode`; that the execution implements `InputCommitment` (`KeepsCommitment`) | An authenticated address has a settled request whose signature is good for an index of its own. What was sent passed the simulation, and the contract only moves on, so a transaction reverted later finds its effect there or is a reservation that lost (`ContractInv`). Inputs are there only from the collection on and for reserved indices (`InputsOwned`). |
| `OnChainProgressProofs` | `SomebodyCan` | Who waits for a transaction has one in the mempool (`CallsInv`); a request waits at the node just until its reservation is known, and the node's assertion fails only on a second index of an address (`RequestsInv`); the stage of a client is also what the contract and the node know of it, and it is rejected only if somebody asked in its name (`ClientsInv`); honest clients with an index are sent outputs (`Served`). From these it is shown, round by round, that whoever is waited for can act. |

The proofs rest on the named assumptions of the modules: a valid topology, `None`
outside the sets it is added to, batches of existing indices, positive bounds. The
induction over the turns of `try_advance` is avoided: a turn that does not end the
loop enters a later round, so six turns, written out, are all there are
(`TryAdvance`). Where a length is not bounded (events, ranges, the queue), the
induction is one over sets of numbers: `LeastElement` takes the least number a
set leaves out from the well-foundedness of `<`, and `InductionUpTo` makes an induction
rule of it.

`NoTruncation`, `ProgramInputs` and `HonestNeverStuck` are about `HonestSpec`, whose
constants satisfy `HonestAssumption` (at most t parties are not honest) and
`LayoutsAssumption` (manifests and bindings are sequences of the code's records).
`HonestNeverStuck` has `EachSlotOnce` as a hypothesis: every batch of the constant
`Batches` names each index once. The callers in the repository send no others; the handlers do
not refuse them. It is needed: the wait loops count indices, so that a call which lists
a slot twice can make an honest party propose `InputCollection` while another slot is
still free, which nobody can fill then. `HonestNeverStuck` also asks that every slot is
assigned, as run-coord has it for a manifest. `AlwaysSomebody` has the hypothesis
`Complete`: there is an index, every index is meant for an honest client, no two of
them share a TLS identity (a node takes one request per identity), and a round may be
called for at all.
`NobodyLeftWaiting` and `WaitsForHonest` suppose that the honest parties are enough for
the thresholds.

Only model-checked: `Finishes`, `OutputsObtained`, `Returns` and `EveryoneServed`, since
liveness is outside the prover's reach. What can be said of each without fairness is
proved: `NeverStuck`, `NobodyLeftWaiting`, `WaitsForHonest` and `SomebodyCan` state that
in no reachable state everybody waits for somebody else. What remains to TLC is that
the steps that can be taken are taken, and are finitely many. That the guards in
`SomebodyCan` and `NeverStuck` are those of the actions is read off the definitions, as
`ENABLED` is outside the prover's reach too.

## What is not modelled

Cryptography (shares, HPKE, signatures and WebAuthn assertions) appears as its
outcome. Transport, TLS, certificates, key files and command lines are pure I/O and
are left out; the identity of a connection is a parameter of the handlers. The
Solidity contract is not in the repository. State is in memory only, so there is no
recovery after a crash; a restarted coordinator is a new one. Handlers run to their
end, and back-pressure of a send without timeout is not modelled. The wall clock does
not go back. Two incarnations of an execution id are told apart in the registry but
not inside an execution. Left out of the browser interface are the binding on a node,
which repeats the coordinator's steps without an output target, and the methods that
only read (`browser_round`, `browser_output_shares`, `browser_assigned_mask_shares`).
On chain a client has one index, since a node serves one index per address, so the
loops of the `Coordinator` trait over several indices are left out.
