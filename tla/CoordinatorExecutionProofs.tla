--------------------- MODULE CoordinatorExecutionProofs ---------------------
(***************************************************************************)
(* Safety of one execution, for any roster, threshold, set of clients,     *)
(* number of slots, assignment and batches; of one with at most t faulty   *)
(* parties; and of the layouts of input slots, up to the inputs that the   *)
(* program runs on.                                                        *)
(*                                                                         *)
(* Numbers of slots are sums and cardinalities.  Induction over them is    *)
(* stated of sets of numbers, from the least number outside the set        *)
(* (LeastElement, InductionUpTo), and gives what running sums are          *)
(* (RunningSum) and that Retain lists what it keeps once each              *)
(* (RetainedOnce).                                                         *)
(***************************************************************************)
EXTENDS HonestExecution, FiniteSetTheorems, TLAPS

\* The quorum lies between t + 1 and n - t for every valid topology.
LEMMA QuorumBounds ==
  /\ n \in Nat
  /\ transition_quorum(n, t) \in Nat
  /\ t + 1 <= transition_quorum(n, t)
  /\ transition_quorum(n, t) <= n - t
<1>1. n \in Nat
  BY TopologyAssumption, FS_CardinalityType DEF n
<1> QED
  BY <1>1, TopologyAssumption DEF transition_quorum, ValidTopology, min, max

Votes == [ORDERED_ROUNDS -> SUBSET mpc_nodes]

Inputs == [Index -> Client \cup {None}]

\* The candidate rounds have a least element, and next_quorum_round is it.
LEMMA NextQuorumRound ==
  ASSUME NEW r \in Round, NEW votes \in Votes, QuorumRounds(r, votes) # {}
  PROVE  /\ next_quorum_round(r, votes) \in QuorumRounds(r, votes)
         /\ \A other \in QuorumRounds(r, votes) : next_quorum_round(r, votes) <= other
<1> DEFINE S == QuorumRounds(r, votes)
<1>1. \E next \in S : \A other \in S : next <= other
  BY DEF QuorumRounds, Follows, round_before, skips_empty_input_rounds,
    skips_empty_output_rounds, ORDERED_ROUNDS, Round, Idle, Preprocessing,
    MPCExecution, ProgramFinished
<1> QED
  BY <1>1 DEF next_quorum_round

\* One turn of the loop of try_advance either ends it or enters a later round
\* that follows, has its quorum and is not blocked.
LEMMA AdvanceOnceStep ==
  ASSUME NEW r \in Round, NEW votes \in Votes, NEW inputs \in Inputs,
         NEW s, s = AdvanceOnce(r, votes, inputs), s # r
  PROVE  /\ s \in ORDERED_ROUNDS
         /\ s \in Round
         /\ r < s
         /\ Follows(r, s)
         /\ HasQuorum(votes, s)
         /\ ~blocking_precondition(r, inputs, s)
<1>1. /\ QuorumRounds(r, votes) # {}
      /\ s = next_quorum_round(r, votes)
      /\ ~blocking_precondition(r, inputs, s)
  BY DEF AdvanceOnce
<1>2. s \in QuorumRounds(r, votes)
  BY <1>1, NextQuorumRound
<1>3. s \in ORDERED_ROUNDS /\ Follows(r, s) /\ HasQuorum(votes, s)
  BY <1>2 DEF QuorumRounds
<1> QED
  BY <1>1, <1>3 DEF Follows, round_before, skips_empty_input_rounds,
    skips_empty_output_rounds, ORDERED_ROUNDS, Round, Idle, Preprocessing,
    MPCExecution, ProgramFinished

\* Where the loop ends, every supported round that follows is MPCExecution,
\* blocked in InputCollection.
LEMMA AdvanceOnceEnd ==
  ASSUME NEW r \in Round, NEW votes \in Votes, NEW inputs \in Inputs,
         AdvanceOnce(r, votes, inputs) = r,
         NEW next \in ORDERED_ROUNDS, Follows(r, next), HasQuorum(votes, next)
  PROVE  r = InputCollection /\ \E i \in Index : inputs[i] = None
<1>1. next \in QuorumRounds(r, votes)
  BY DEF QuorumRounds
<1> DEFINE s == next_quorum_round(r, votes)
<1>2. s \in ORDERED_ROUNDS /\ Follows(r, s)
  BY <1>1, NextQuorumRound DEF QuorumRounds
<1>3. s # r
  BY <1>2 DEF Follows, round_before, skips_empty_input_rounds,
    skips_empty_output_rounds, ORDERED_ROUNDS, Round, Idle, Preprocessing,
    MPCExecution, ProgramFinished
<1>4. blocking_precondition(r, inputs, s)
  BY <1>1, <1>3 DEF AdvanceOnce
<1> QED
  BY <1>2, <1>4 DEF blocking_precondition, Follows, round_before,
    skips_empty_input_rounds, skips_empty_output_rounds, Round, Idle,
    Preprocessing, InputCollection, MPCExecution, ProgramFinished

-----------------------------------------------------------------------------
\* What the whole loop of try_advance does: the rounds it enters lie beyond
\* the one it starts from, up to the one it ends in; each has its quorum and
\* follows the start or another round entered; MPCExecution is entered from
\* InputCollection only with all inputs, and not after InputCollection
\* otherwise; and where it ends one more turn would enter nothing.
LEMMA TryAdvance ==
  ASSUME NEW r \in Round, NEW votes \in Votes, NEW inputs \in Inputs
  PROVE  LET a == try_advance(r, votes, inputs) IN
         /\ a.round \in Round /\ r <= a.round
         /\ a.entered \subseteq ORDERED_ROUNDS
         /\ a.round # r => a.round \in a.entered
         /\ \A x \in a.entered : /\ r < x /\ x <= a.round
                                /\ HasQuorum(votes, x)
                                /\ \E y \in a.entered \cup {r} : Follows(y, x)
         /\ /\ MPCExecution \in a.entered
            /\ InputCollection \in a.entered \cup {r}
            => \A i \in Index : inputs[i] # None
         /\ AdvanceOnce(a.round, votes, inputs) = a.round
<1> DEFINE Turn(x) == AdvanceOnce(x, votes, inputs)
           r1 == Turn(r)
           r2 == Turn(r1)
           r3 == Turn(r2)
           r4 == Turn(r3)
           r5 == Turn(r4)
           r6 == Turn(r5)
           E == {r1, r2, r3, r4, r5, r6} \ {r}
           Entered(x, s) == /\ s \in ORDERED_ROUNDS
                            /\ x < s
                            /\ Follows(x, s)
                            /\ HasQuorum(votes, s)
                            /\ ~blocking_precondition(x, inputs, s)
<1>1. ASSUME NEW x \in Round
      PROVE  Turn(x) \in Round /\ (Turn(x) = x \/ Entered(x, Turn(x)))
  BY <1>1, AdvanceOnceStep
<1>2. try_advance(r, votes, inputs) = [round |-> r6, entered |-> E]
  <2> DEFINE turn == [x \in Round |-> AdvanceOnce(x, votes, inputs)]
  <2> HIDE DEF turn
  <2>1. \A x \in Round : turn[x] \in Round /\ turn[x] = Turn(x)
    BY <1>1 DEF turn
  <2>2. turn[r] \in Round /\ turn[r] = r1
    BY <2>1
  <2>3. turn[turn[r]] \in Round /\ turn[turn[r]] = r2
    BY <2>1, <2>2
  <2>4. turn[turn[turn[r]]] \in Round /\ turn[turn[turn[r]]] = r3
    BY <2>1, <2>3
  <2>5. turn[turn[turn[turn[r]]]] \in Round /\ turn[turn[turn[turn[r]]]] = r4
    BY <2>1, <2>4
  <2>6. /\ turn[turn[turn[turn[turn[r]]]]] \in Round
        /\ turn[turn[turn[turn[turn[r]]]]] = r5
    BY <2>1, <2>5
  <2>7. turn[turn[turn[turn[turn[turn[r]]]]]] = r6
    BY <2>1, <2>6
  <2> HIDE DEF r1, r2, r3, r4, r5, r6
  <2> QED
    BY <2>2, <2>3, <2>4, <2>5, <2>6, <2>7 DEF try_advance, turn
<1> HIDE DEF Turn
<1>3. /\ r1 \in Round /\ (r1 = r \/ Entered(r, r1))
      /\ r2 \in Round /\ (r2 = r1 \/ Entered(r1, r2))
      /\ r3 \in Round /\ (r3 = r2 \/ Entered(r2, r3))
      /\ r4 \in Round /\ (r4 = r3 \/ Entered(r3, r4))
      /\ r5 \in Round /\ (r5 = r4 \/ Entered(r4, r5))
      /\ r6 \in Round /\ (r6 = r5 \/ Entered(r5, r6))
  BY <1>1, ZenonT(30)
<1>4. Turn(r6) \in Round /\ (Turn(r6) = r6 \/ Entered(r6, Turn(r6)))
  BY <1>1, <1>3
\* A turn that enters nothing is the last: the later ones repeat it.
<1>5. /\ r1 = r => r2 = r1
      /\ r2 = r1 => r3 = r2
      /\ r3 = r2 => r4 = r3
      /\ r4 = r3 => r5 = r4
      /\ r5 = r4 => r6 = r5
      /\ r6 = r5 => Turn(r6) = r6
  OBVIOUS
<1> HIDE DEF r1, r2, r3, r4, r5, r6
<1>6. /\ r <= r1 /\ r1 <= r2 /\ r2 <= r3 /\ r3 <= r4 /\ r4 <= r5 /\ r5 <= r6
  BY <1>3 DEF Round, Idle, ProgramFinished
<1>7. Turn(r6) = r6
  BY <1>3, <1>4, <1>5 DEF Round, Idle, ProgramFinished
<1>8. ASSUME NEW x \in E
      PROVE  \E y \in E \cup {r} : Entered(y, x)
  BY <1>3
<1>9. ASSUME NEW x \in E
      PROVE  x \in ORDERED_ROUNDS /\ r < x /\ x <= r6 /\ HasQuorum(votes, x)
  BY <1>3, <1>6, <1>8 DEF Round, Idle, ProgramFinished, ORDERED_ROUNDS, Preprocessing
<1>10. ASSUME MPCExecution \in E, InputCollection \in E \cup {r},
              NEW i \in Index
       PROVE  inputs[i] # None
  <2>1. ASSUME NEW x \in Round, Entered(x, MPCExecution)
        PROVE  x = Preprocessing \/ (x = InputCollection /\ inputs[i] # None)
    BY <2>1 DEF Follows, round_before, skips_empty_input_rounds,
      skips_empty_output_rounds, blocking_precondition, Round, Idle,
      Preprocessing, InputCollection, MPCExecution, ProgramFinished
  <2>2. SUFFICES ASSUME inputs[i] = None PROVE FALSE
    OBVIOUS
  <2>3. \A x \in Round : Entered(x, MPCExecution) => x = Preprocessing
    BY <2>1, <2>2
  <2> HIDE DEF Entered
  <2> QED
    BY <1>3, <1>6, <1>10, <2>3 DEF Round, Idle, Preprocessing, InputCollection,
      MPCExecution, ProgramFinished
<1>11. r <= r6 /\ (r6 # r => r6 \in E)
  BY <1>3, <1>6 DEF Round, Idle, ProgramFinished
<1>12. AdvanceOnce(r6, votes, inputs) = r6
  BY <1>7 DEF Turn
<1>13. ASSUME NEW x \in E PROVE \E y \in E \cup {r} : Follows(y, x)
  BY <1>8
<1> DEFINE a == try_advance(r, votes, inputs)
<1>14. a.round = r6 /\ a.entered = E
  BY <1>2
<1> HIDE DEF a, E, Entered
<1> SUFFICES
         /\ a.round \in Round /\ r <= a.round
         /\ a.entered \subseteq ORDERED_ROUNDS
         /\ a.round # r => a.round \in a.entered
         /\ \A x \in a.entered : /\ r < x /\ x <= a.round
                                /\ HasQuorum(votes, x)
                                /\ \E y \in a.entered \cup {r} : Follows(y, x)
         /\ /\ MPCExecution \in a.entered
            /\ InputCollection \in a.entered \cup {r}
            => \A i \in Index : inputs[i] # None
         /\ AdvanceOnce(a.round, votes, inputs) = a.round
  BY DEF a
<1> QED
  BY <1>3, <1>9, <1>10, <1>11, <1>12, <1>13, <1>14

-----------------------------------------------------------------------------
\* Every recorded round has been reached and is backed by a quorum.
QuorumBacked ==
  \A r \in trans_events : r <= round /\ HasQuorum(transition_votes, r)

\* try_advance has nothing left to do, but for the window of a submission.
Settled ==
  delivery # "submitting" =>
    AdvanceOnce(round, transition_votes, masked_inputs) = round

IInv ==
  /\ TypeOK
  /\ QuorumBacked
  /\ Settled
  /\ CollectedInputsComplete
  /\ InputsAnnouncedBeforeMPC
  /\ InputProvenance

\* A proposal more never takes a quorum away.
LEMMA VotesGrow ==
  ASSUME NEW votes \in Votes, NEW votes2 \in Votes, NEW r \in ORDERED_ROUNDS,
         votes[r] \subseteq votes2[r], HasQuorum(votes, r)
  PROVE  HasQuorum(votes2, r)
<1>1. IsFiniteSet(votes2[r])
  BY TopologyAssumption, FS_Subset DEF Votes
<1>2. /\ Cardinality(votes[r]) <= Cardinality(votes2[r])
      /\ Cardinality(votes[r]) \in Nat
      /\ Cardinality(votes2[r]) \in Nat
  BY <1>1, FS_Subset, FS_CardinalityType
<1> QED
  BY <1>2, QuorumBounds DEF HasQuorum

\* The tail that transition and submit_masked_inputs share keeps the part of
\* the invariant that speaks of rounds, and settles the execution.
LEMMA AdvanceStep ==
  ASSUME TypeOK, CollectedInputsComplete,
         NEW votes \in Votes,
         \A r \in trans_events : r <= round /\ HasQuorum(votes, r),
         Advance(votes, masked_inputs)
  PROVE  /\ round' \in Round
         /\ trans_events' \subseteq ORDERED_ROUNDS
         /\ delivery' \in {"free", "notifying"}
         /\ \A r \in trans_events' : r <= round' /\ HasQuorum(votes, r)
         /\ AdvanceOnce(round', votes, masked_inputs) = round'
         /\ {InputCollection, MPCExecution} \subseteq trans_events'
            => \A i \in Index : masked_inputs[i] # None
<1> DEFINE a == try_advance(round, votes, masked_inputs)
<1>1. /\ round' = a.round
      /\ trans_events' = trans_events \cup a.entered
      /\ delivery' \in {"free", "notifying"}
  BY DEF Advance
<1>2. /\ a.round \in Round /\ round <= a.round
      /\ a.entered \subseteq ORDERED_ROUNDS
      /\ \A x \in a.entered : round < x /\ x <= a.round /\ HasQuorum(votes, x)
      /\ /\ MPCExecution \in a.entered
         /\ InputCollection \in a.entered \cup {round}
         => \A i \in Index : masked_inputs[i] # None
      /\ AdvanceOnce(a.round, votes, masked_inputs) = a.round
  BY TryAdvance DEF TypeOK, Inputs
<1> HIDE DEF a
<1>3. ASSUME {InputCollection, MPCExecution} \subseteq trans_events'
      PROVE  \A i \in Index : masked_inputs[i] # None
  <2>1. CASE MPCExecution \in a.entered
    BY <1>1, <1>2, <1>3, <2>1 DEF TypeOK, Round, Idle, InputCollection,
      MPCExecution, ProgramFinished
  <2>2. CASE MPCExecution \in trans_events
    <3>1. InputCollection \notin a.entered
      BY <1>2, <2>2 DEF TypeOK, Round, Idle, InputCollection, MPCExecution,
        ProgramFinished
    <3> QED
      BY <1>1, <1>3, <2>2, <3>1 DEF CollectedInputsComplete, AllInputsSubmitted
  <2> QED
    BY <1>1, <1>3, <2>1, <2>2, ZenonT(30)
<1>4. \A r \in trans_events' : r <= round' /\ HasQuorum(votes, r)
  BY <1>1, <1>2 DEF TypeOK, Round, ORDERED_ROUNDS, Idle, Preprocessing, ProgramFinished
<1> QED
  BY <1>1, <1>2, <1>3, <1>4 DEF TypeOK

-----------------------------------------------------------------------------
\* The initial state satisfies the invariant: no round has a vote.
LEMMA InitIInv == Init => IInv
<1> SUFFICES ASSUME Init PROVE IInv
  OBVIOUS
<1>1. TypeOK
  BY DEF Init, TypeOK, Round, ORDERED_ROUNDS, Idle, Preprocessing, ProgramFinished
<1>2. \A next \in ORDERED_ROUNDS : ~HasQuorum(transition_votes, next)
  <2>1. Cardinality({}) = 0
    BY FS_EmptySet
  <2> QED
    BY <2>1, QuorumBounds, TopologyAssumption DEF Init, HasQuorum
<1>3. Settled
  BY <1>2 DEF Settled, AdvanceOnce, QuorumRounds
<1> QED
  BY <1>1, <1>3, InputsAssumption DEF IInv, Init, QuorumBacked,
    CollectedInputsComplete, InputsAnnouncedBeforeMPC, InputProvenance

\* Every index of a batch is a slot.
LEMMA BatchIndices ==
  ASSUME NEW batch \in Batches PROVE Indices(batch) \subseteq Index
BY BatchesAssumption DEF Indices

\* Each of the five actions preserves the invariant.
LEMMA NextIInv == IInv /\ [Next]_vars => IInv'
<1> SUFFICES ASSUME IInv, [Next]_vars PROVE IInv'
  OBVIOUS
<1>1. ASSUME NEW p \in mpc_nodes, NEW next \in ORDERED_ROUNDS, Transition(p, next)
      PROVE  IInv'
  <2>1. CASE UNCHANGED vars
    BY <2>1 DEF IInv, vars, inputVars, TypeOK, QuorumBacked, Settled,
      CollectedInputsComplete, AllInputsSubmitted, InputsAnnouncedBeforeMPC, InputProvenance
  <2>2. CASE /\ transition_votes' = [transition_votes EXCEPT ![next] = @ \cup {p}]
             /\ Advance(transition_votes', masked_inputs)
             /\ UNCHANGED inputVars
    <3>1. transition_votes' \in Votes
      BY <2>2 DEF IInv, TypeOK, Votes
    <3>2. \A r \in trans_events : r <= round /\ HasQuorum(transition_votes', r)
      <4>1. transition_votes \in Votes
        BY DEF IInv, TypeOK, Votes
      <4>2. \A r \in ORDERED_ROUNDS : transition_votes[r] \subseteq transition_votes'[r]
        BY <2>2, <4>1 DEF Votes
      <4> QED
        BY <3>1, <4>1, <4>2, VotesGrow DEF IInv, TypeOK, QuorumBacked
    <3>3. /\ round' \in Round
          /\ trans_events' \subseteq ORDERED_ROUNDS
          /\ delivery' \in {"free", "notifying"}
          /\ \A r \in trans_events' : r <= round' /\ HasQuorum(transition_votes', r)
          /\ AdvanceOnce(round', transition_votes', masked_inputs) = round'
          /\ {InputCollection, MPCExecution} \subseteq trans_events'
             => \A i \in Index : masked_inputs[i] # None
      BY <2>2, <3>1, <3>2, AdvanceStep, Zenon DEF IInv
    <3> QED
      BY <2>2, <3>1, <3>3, Zenon DEF IInv, inputVars, TypeOK, Votes, QuorumBacked, Settled,
        CollectedInputsComplete, AllInputsSubmitted, InputsAnnouncedBeforeMPC,
        InputProvenance
  <2> QED
    BY <1>1, <2>1, <2>2 DEF Transition
<1>2. CASE TransitionsDelivered
  BY <1>2, ZenonT(30) DEF TransitionsDelivered, IInv, inputVars, TypeOK, QuorumBacked, Settled,
    CollectedInputsComplete, AllInputsSubmitted, InputsAnnouncedBeforeMPC, InputProvenance
<1>3. ASSUME NEW c \in Client, NEW batch \in Batches, ReserveMaskIndices(c, batch)
      PROVE  IInv'
  <2>1. TypeOK'
    <3>1. Len(batch) \in Nat
      BY BatchesAssumption
    <3>2. Event(c, batch) \in [client : Client, indices : Batches]
      BY DEF Event
    <3>3. reserved_index_events' \in Seq([client : Client, indices : Batches])
      BY <1>3, <3>2 DEF ReserveMaskIndices, IInv, TypeOK
    <3> QED
      BY <1>3, <3>1, <3>3 DEF ReserveMaskIndices, IInv, TypeOK
  <2>2. InputProvenance'
    BY <1>3, BatchIndices, InputsAssumption
      DEF ReserveMaskIndices, IInv, TypeOK, InputProvenance
  <2> QED
    BY <1>3, <2>1, <2>2 DEF ReserveMaskIndices, IInv, QuorumBacked, Settled,
      CollectedInputsComplete, AllInputsSubmitted, InputsAnnouncedBeforeMPC
<1>4. ASSUME NEW c \in Client, NEW batch \in Batches, SubmitMaskedInputs(c, batch)
      PROVE  IInv'
  <2>1. TypeOK'
    <3>1. Event(c, batch) \in [client : Client, indices : Batches]
      BY DEF Event
    <3>2. masked_input_events' \in Seq([client : Client, indices : Batches])
      BY <1>4, <3>1 DEF SubmitMaskedInputs, IInv, TypeOK
    <3> QED
      BY <1>4, <3>2 DEF SubmitMaskedInputs, IInv, TypeOK
  <2>2. InputProvenance'
    BY <1>4, BatchIndices, InputsAssumption
      DEF SubmitMaskedInputs, IInv, TypeOK, InputProvenance
  <2>3. MPCExecution \notin trans_events'
    BY <1>4 DEF SubmitMaskedInputs, IInv, QuorumBacked, InputCollection, MPCExecution
  <2> QED
    BY <1>4, <2>1, <2>2, <2>3 DEF SubmitMaskedInputs, IInv, QuorumBacked, Settled,
      CollectedInputsComplete, InputsAnnouncedBeforeMPC
<1>5. CASE MaskedInputsSent
  <2>1. transition_votes \in Votes
    BY DEF IInv, TypeOK, Votes
  <2>2. /\ round' \in Round
        /\ trans_events' \subseteq ORDERED_ROUNDS
        /\ delivery' \in {"free", "notifying"}
        /\ \A r \in trans_events' : r <= round' /\ HasQuorum(transition_votes, r)
        /\ AdvanceOnce(round', transition_votes, masked_inputs) = round'
        /\ {InputCollection, MPCExecution} \subseteq trans_events'
           => \A i \in Index : masked_inputs[i] # None
    BY <1>5, <2>1, AdvanceStep, ZenonT(30) DEF MaskedInputsSent, IInv, QuorumBacked
  <2> QED
    BY <1>5, <2>2 DEF MaskedInputsSent, IInv, inputVars, TypeOK, QuorumBacked, Settled,
      CollectedInputsComplete, AllInputsSubmitted, InputsAnnouncedBeforeMPC,
      InputProvenance
<1>6. CASE UNCHANGED vars
  BY <1>6 DEF IInv, vars, inputVars, TypeOK, QuorumBacked, Settled,
    CollectedInputsComplete, AllInputsSubmitted, InputsAnnouncedBeforeMPC, InputProvenance
<1> QED
  BY <1>1, <1>2, <1>3, <1>4, <1>5, <1>6 DEF Next

\* The invariant holds in every reachable state.
THEOREM InductiveInvariant == Spec => []IInv
BY InitIInv, NextIInv, PTL DEF Spec

\* Every variable keeps its type.
THEOREM TypeCorrect == Spec => []TypeOK
<1>1. IInv => TypeOK
  BY ZenonT(30) DEF IInv
<1> QED
  BY <1>1, InductiveInvariant, PTL

\* Every round entered was proposed by a party outside any t of them: its
\* voters are a quorum, which has more than t members.
THEOREM HonestProposer == Spec => []OneHonestProposer
<1>1. IInv => OneHonestProposer
  <2> SUFFICES ASSUME IInv, NEW r \in trans_events, NEW faulty \in SUBSET mpc_nodes,
                      Cardinality(faulty) <= t, transition_votes[r] \subseteq faulty
               PROVE  FALSE
    BY DEF OneHonestProposer
  <2>1. IsFiniteSet(faulty)
    BY TopologyAssumption, FS_Subset
  <2>2. /\ Cardinality(transition_votes[r]) <= Cardinality(faulty)
        /\ Cardinality(transition_votes[r]) \in Nat
        /\ Cardinality(faulty) \in Nat
    BY <2>1, FS_Subset, FS_CardinalityType
  <2>3. Cardinality(transition_votes[r]) >= transition_quorum(n, t)
    BY DEF IInv, QuorumBacked, HasQuorum
  <2> QED
    BY <2>2, <2>3, QuorumBounds, TopologyAssumption
<1> QED
  BY <1>1, InductiveInvariant, PTL

\* No proposal is stranded once the handler that could act on it is done.
THEOREM ProposalsNotStranded == Spec => []NoStrandedProposal
<1>1. IInv => NoStrandedProposal
  <2> SUFFICES ASSUME IInv, NEW next \in ORDERED_ROUNDS, delivery # "submitting",
                      Follows(round, next), HasQuorum(transition_votes, next)
               PROVE  round = InputCollection /\ ~AllInputsSubmitted
    BY DEF NoStrandedProposal
  <2>1. AdvanceOnce(round, transition_votes, masked_inputs) = round
    BY DEF IInv, Settled
  <2> QED
    BY <2>1, AdvanceOnceEnd DEF IInv, TypeOK, Votes, Inputs, AllInputsSubmitted
<1> QED
  BY <1>1, InductiveInvariant, PTL

\* An execution that was in InputCollection enters MPCExecution with every
\* slot filled.
THEOREM InputsComplete == Spec => []CollectedInputsComplete
<1>1. IInv => CollectedInputsComplete
  BY DEF IInv
<1> QED
  BY <1>1, InductiveInvariant, PTL

\* A slot is filled by the client that reserved it, and reserved by the client
\* it is assigned to.
THEOREM InputsFromOwners == Spec => []InputProvenance
<1>1. IInv => InputProvenance
  BY DEF IInv
<1> QED
  BY <1>1, InductiveInvariant, PTL

\* The round does not change while the event of a submission is being sent.
THEOREM AnnouncedBeforeMPC == Spec => []InputsAnnouncedBeforeMPC
<1>1. IInv => InputsAnnouncedBeforeMPC
  BY DEF IInv
<1> QED
  BY <1>1, InductiveInvariant, PTL

\* What browser_execution_status reports about the inputs follows from where the
\* inputs come from and from their being complete when the program runs.
THEOREM StatusReliable == Spec => []StatusTruthful
<1>1. IInv /\ CollectedInputsComplete => StatusTruthful
  <2> SUFFICES ASSUME IInv, CollectedInputsComplete, NEW c \in Client
               PROVE  LET status == browser_execution_status(c)
                      IN  /\ status.own_input_submitted =>
                               /\ status.own_input_reserved
                               /\ \A i \in input_indices(c) : masked_inputs[i] = c
                          /\ status.submitted_inputs <= status.reserved_inputs
                          /\ {InputCollection, MPCExecution} \subseteq trans_events =>
                               status.submitted_clients = status.total_clients
    BY DEF StatusTruthful
  <2>1. ASSUME \A i \in input_indices(c) : masked_inputs[i] # None,
               NEW i \in input_indices(c)
        PROVE  reserved_indices[i] = c /\ masked_inputs[i] = c
    BY <2>1, InputsAssumption DEF input_indices, IInv, InputProvenance
  <2>2. Cardinality({i \in Index : masked_inputs[i] # None})
          <= Cardinality({i \in Index : reserved_indices[i] # None})
    <3> DEFINE filled == {i \in Index : masked_inputs[i] # None}
               reserved == {i \in Index : reserved_indices[i] # None}
    <3>1. filled \subseteq reserved /\ reserved \subseteq Index
      BY DEF IInv, InputProvenance
    <3>2. IsFiniteSet(Index)
      BY FS_Interval, InputsAssumption DEF Index
    <3> HIDE DEF filled, reserved
    <3>3. IsFiniteSet(reserved)
      BY <3>1, <3>2, FS_Subset
    <3>4. Cardinality(filled) <= Cardinality(reserved)
      BY <3>1, <3>3, FS_Subset
    <3> QED
      BY <3>4 DEF filled, reserved
  <2> DEFINE assigned == {AssignedClient(i) : i \in Index} \ {None}
             submitted == {x \in assigned :
                             \A i \in input_indices(x) : masked_inputs[i] # None}
  <2>3. ASSUME {InputCollection, MPCExecution} \subseteq trans_events
        PROVE  submitted = assigned
    BY <2>3 DEF CollectedInputsComplete, AllInputsSubmitted, input_indices
  <2> QED
    BY <2>1, <2>2, <2>3, Zenon DEF browser_execution_status
<1> QED
  BY <1>1, InductiveInvariant, InputsComplete, PTL

-----------------------------------------------------------------------------
\* What RoundsFollowOrder asks of a step.
EnteredInOrder ==
  LET entered == trans_events' \ trans_events
  IN  /\ trans_events \subseteq trans_events'
      /\ \A r \in entered :
           /\ round < r /\ r <= round'
           /\ \E before \in entered \cup {round} : Follows(before, r)
      /\ round' # round => round' \in entered

LEMMA EnteredInOrderStep == IInv /\ [Next]_vars => [EnteredInOrder]_vars
<1>1. ASSUME IInv, NEW votes \in Votes, Advance(votes, masked_inputs)
      PROVE  EnteredInOrder
  <2> DEFINE a == try_advance(round, votes, masked_inputs)
  <2>1. /\ round' = a.round
        /\ trans_events' = trans_events \cup a.entered
    BY <1>1, ZenonT(30) DEF Advance
  <2>2. /\ a.round # round => a.round \in a.entered
        /\ \A x \in a.entered :
             /\ round < x /\ x <= a.round
             /\ \E y \in a.entered \cup {round} : Follows(y, x)
    BY <1>1, TryAdvance DEF IInv, TypeOK, Inputs
  <2> HIDE DEF a
  <2>3. a.entered \cap trans_events = {}
    <3>1. \A x \in trans_events : x \in Int /\ round \in Int /\ x <= round
      BY <1>1 DEF IInv, TypeOK, QuorumBacked, Round, ORDERED_ROUNDS, Idle,
        Preprocessing, ProgramFinished
    <3>2. \A x \in a.entered : round < x
      BY <2>2
    <3> QED
      BY <3>1, <3>2
  <2>4. trans_events' \ trans_events = a.entered
    BY <2>1, <2>3
  <2> QED
    BY <2>1, <2>2, <2>4 DEF EnteredInOrder
<1> SUFFICES ASSUME IInv, Next PROVE EnteredInOrder \/ UNCHANGED vars
  OBVIOUS
<1>2. ASSUME NEW p \in mpc_nodes, NEW next \in ORDERED_ROUNDS, Transition(p, next),
             ~UNCHANGED vars
      PROVE  EnteredInOrder
  <2>1. /\ transition_votes' = [transition_votes EXCEPT ![next] = @ \cup {p}]
        /\ Advance(transition_votes', masked_inputs)
    BY <1>2 DEF Transition
  <2>2. transition_votes' \in Votes
    BY <2>1 DEF IInv, TypeOK, Votes
  <2> QED
    BY <1>1, <2>1, <2>2
<1>3. CASE MaskedInputsSent
  <2>1. transition_votes \in Votes
    BY DEF IInv, TypeOK, Votes
  <2> QED
    BY <1>1, <1>3, <2>1 DEF MaskedInputsSent
<1>4. ASSUME trans_events' = trans_events, round' = round
      PROVE  EnteredInOrder
  BY <1>4 DEF EnteredInOrder
<1>5. \/ \E p \in mpc_nodes, next \in ORDERED_ROUNDS : Transition(p, next)
      \/ MaskedInputsSent
      \/ trans_events' = trans_events /\ round' = round
  BY DEF Next, TransitionsDelivered, ReserveMaskIndices, SubmitMaskedInputs
<1> QED
  BY <1>2, <1>3, <1>4, <1>5

\* Rounds are entered in order, whatever the cascade of try_advance enters in
\* one step.
THEOREM RoundOrder == Spec => RoundsFollowOrder
<1>1. EnteredInOrder <=>
        LET entered == trans_events' \ trans_events
        IN  /\ trans_events \subseteq trans_events'
            /\ \A r \in entered :
                 /\ round < r /\ r <= round'
                 /\ \E before \in entered \cup {round} : Follows(before, r)
            /\ round' # round => round' \in entered
  BY DEF EnteredInOrder
<1> QED
  BY <1>1, EnteredInOrderStep, InductiveInvariant, PTL DEF Spec, RoundsFollowOrder

-----------------------------------------------------------------------------
\* Nobody has reserved before InputMaskReservation, or submitted before
\* InputCollection.
Untouched ==
  \A i \in Index : /\ round < InputMaskReservation => reserved_indices[i] = None
                   /\ round < InputCollection => masked_inputs[i] = None

LEMMA RoundGrows ==
  IInv /\ [Next]_vars => round \in Round /\ round' \in Round /\ round <= round'
<1> SUFFICES ASSUME IInv, [Next]_vars
             PROVE  round \in Round /\ round' \in Round /\ round <= round'
  OBVIOUS
<1>1. round \in Round
  BY ZenonT(30) DEF IInv, TypeOK
<1>2. ASSUME NEW votes \in Votes, Advance(votes, masked_inputs)
      PROVE  round' \in Round /\ round <= round'
  BY <1>1, <1>2, TryAdvance DEF Advance, IInv, TypeOK, Inputs
<1>3. ASSUME NEW p \in mpc_nodes, NEW next \in ORDERED_ROUNDS, Transition(p, next),
             round' # round
      PROVE  round' \in Round /\ round <= round'
  <2>1. /\ transition_votes' = [transition_votes EXCEPT ![next] = @ \cup {p}]
        /\ Advance(transition_votes', masked_inputs)
    BY <1>3 DEF Transition, vars
  <2>2. transition_votes' \in Votes
    BY <2>1 DEF IInv, TypeOK, Votes
  <2> QED
    BY <1>2, <2>1, <2>2
<1>4. CASE MaskedInputsSent
  BY <1>2, <1>4 DEF MaskedInputsSent, IInv, TypeOK, Votes
<1>5. ASSUME round' = round PROVE round' \in Round /\ round <= round'
  BY <1>1, <1>5 DEF Round, Idle, ProgramFinished
<1>6. \/ \E p \in mpc_nodes, next \in ORDERED_ROUNDS : Transition(p, next)
      \/ MaskedInputsSent
      \/ round' = round
  BY DEF Next, TransitionsDelivered, ReserveMaskIndices, SubmitMaskedInputs, vars
<1> QED
  BY <1>1, <1>3, <1>4, <1>5, <1>6

LEMMA UntouchedInvariant == Spec => []Untouched
<1>1. Init => Untouched
  BY DEF Init, Untouched
<1>2. IInv /\ Untouched /\ [Next]_vars => Untouched'
  <2> SUFFICES ASSUME IInv, Untouched, [Next]_vars PROVE Untouched'
    OBVIOUS
  <2>1. round \in Round /\ round' \in Round /\ round <= round'
    BY RoundGrows
  <2>2. CASE UNCHANGED <<reserved_indices, masked_inputs>>
    BY <2>1, <2>2 DEF Untouched, Round, Idle, ProgramFinished, InputMaskReservation,
      InputCollection
  <2>3. ASSUME NEW c \in Client, NEW batch \in Batches, ReserveMaskIndices(c, batch)
        PROVE  Untouched'
    BY <2>3 DEF ReserveMaskIndices, Untouched, InputMaskReservation, InputCollection
  <2>4. ASSUME NEW c \in Client, NEW batch \in Batches, SubmitMaskedInputs(c, batch)
        PROVE  Untouched'
    BY <2>4 DEF SubmitMaskedInputs, Untouched, InputMaskReservation, InputCollection
  <2>5. \/ UNCHANGED <<reserved_indices, masked_inputs>>
        \/ \E c \in Client, batch \in Batches : ReserveMaskIndices(c, batch)
        \/ \E c \in Client, batch \in Batches : SubmitMaskedInputs(c, batch)
    BY DEF Next, Transition, TransitionsDelivered, MaskedInputsSent, vars, inputVars
  <2> QED
    BY <2>2, <2>3, <2>4, <2>5
<1> QED
  BY <1>1, <1>2, InductiveInvariant, PTL DEF Spec

\* How try_advance gets from before MPCExecution to MPCExecution or beyond: by
\* entering it, after InputCollection or straight from Preprocessing.
LEMMA WayToMPC ==
  ASSUME NEW r \in Round, NEW votes \in Votes, NEW inputs \in Inputs,
         r <= InputCollection,
         try_advance(r, votes, inputs).round > InputCollection
  PROVE  \/ r <= Preprocessing
         \/ \A i \in Index : inputs[i] # None
<1> DEFINE a == try_advance(r, votes, inputs)
<1>1. /\ a.round \in Round
      /\ a.entered \subseteq ORDERED_ROUNDS
      /\ a.round # r => a.round \in a.entered
      /\ \A x \in a.entered : r < x /\ \E y \in a.entered \cup {r} : Follows(y, x)
      /\ /\ MPCExecution \in a.entered
         /\ InputCollection \in a.entered \cup {r}
         => \A i \in Index : inputs[i] # None
  BY TryAdvance
<1>2. a.round > InputCollection
  OBVIOUS
<1> HIDE DEF a
<1>3. a.round \in a.entered
  BY <1>1, <1>2 DEF Round, Idle, ProgramFinished, InputCollection
<1>4. ASSUME NEW x \in a.entered, x > MPCExecution
      PROVE  MPCExecution \in a.entered \/ OutputDistribution \in a.entered
  BY <1>1, <1>4 DEF Follows, round_before, skips_empty_input_rounds,
    skips_empty_output_rounds, ORDERED_ROUNDS, Round, Idle, Preprocessing,
    InputCollection, MPCExecution, OutputDistribution, ProgramFinished
<1>5. OutputDistribution \in a.entered => MPCExecution \in a.entered
  BY <1>1 DEF Follows, round_before, skips_empty_input_rounds,
    skips_empty_output_rounds, ORDERED_ROUNDS, Round, Idle, Preprocessing,
    InputCollection, MPCExecution, OutputDistribution, ProgramFinished
<1>6. MPCExecution \in a.entered
  BY <1>1, <1>2, <1>3, <1>4, <1>5 DEF ORDERED_ROUNDS, Preprocessing, ProgramFinished,
    InputCollection, MPCExecution
<1>7. r <= Preprocessing \/ InputCollection \in a.entered \cup {r}
  BY <1>1, <1>6 DEF Follows, round_before, skips_empty_input_rounds,
    skips_empty_output_rounds, ORDERED_ROUNDS, Round, Idle, Preprocessing,
    InputCollection, MPCExecution, OutputDistribution, ProgramFinished
<1> QED
  BY <1>1, <1>6, <1>7, ZenonT(30)

\* The execution implements InputCommitment: a reservation takes slots, a
\* submission fills them, and a cascade of try_advance collects, runs or leaves
\* the phase alone.
THEOREM CommitmentKept == Spec => KeepsCommitment
<1>1. Init => Commitment!Init
  BY DEF Init, Commitment!Init, Commitment!Free, Idle, InputCollection
<1>2. ASSUME IInv, Untouched, [Next]_vars
      PROVE  [Commitment!Next]_(Commitment!commitment)
  <2>1. round \in Round /\ round' \in Round /\ round <= round'
    BY <1>2, RoundGrows
  <2>2. ASSUME NEW c \in Client, NEW batch \in Batches, ReserveMaskIndices(c, batch)
        PROVE  Commitment!Take(c, Indices(batch)) /\ Indices(batch) \in SUBSET Index
    <3>1. Indices(batch) \in SUBSET Index
      BY BatchIndices
    <3> QED
      BY <2>2, <3>1 DEF ReserveMaskIndices, Commitment!Take, InputMaskReservation,
        InputCollection
  <2>3. ASSUME NEW c \in Client, NEW batch \in Batches, SubmitMaskedInputs(c, batch)
        PROVE  Commitment!Fill(c, Indices(batch)) /\ Indices(batch) \in SUBSET Index
    BY <2>3, BatchIndices DEF SubmitMaskedInputs, Commitment!Fill, InputCollection
  <2>4. ASSUME NEW votes \in Votes, Advance(votes, masked_inputs),
               UNCHANGED <<reserved_indices, masked_inputs>>
        PROVE  \/ Commitment!Collect
               \/ Commitment!Run
               \/ UNCHANGED Commitment!commitment
    <3>1. CASE round' <= InputCollection \/ round > InputCollection
      BY <2>1, <2>4, <3>1 DEF Commitment!Collect, Commitment!commitment, Round, Idle,
        ProgramFinished, InputCollection
    <3>2. CASE round <= InputCollection /\ round' > InputCollection
      <4>1. masked_inputs \in Inputs
        BY <1>2 DEF IInv, TypeOK, Inputs
      <4>2. round <= Preprocessing \/ \A i \in Index : masked_inputs[i] # None
        BY <2>1, <2>4, <3>2, <4>1, WayToMPC DEF Advance
      <4>3. reserved_indices \in [Index -> Client \cup {None}]
        BY <1>2 DEF IInv, TypeOK
      <4>4. CASE round = InputCollection
        BY <2>1, <2>4, <3>2, <4>2, <4>4 DEF Commitment!Run, InputCollection, Preprocessing,
          Round, Idle, ProgramFinished
      <4>5. CASE round < InputCollection
        <5>1. \A i \in Index : reserved_indices[i] = None
          BY <1>2, <2>1, <4>2, <4>5 DEF Untouched, Round, Idle, ProgramFinished,
            Preprocessing, InputMaskReservation, InputCollection
        <5>2. reserved_indices = [i \in Index |-> None]
          BY <4>3, <5>1
        <5> QED
          BY <2>1, <2>4, <3>2, <4>5, <5>2 DEF Commitment!Run, Commitment!Free,
            InputCollection, Round, Idle, ProgramFinished
      <4> QED
        BY <2>1, <3>2, <4>4, <4>5 DEF Round, Idle, ProgramFinished, InputCollection
    <3> QED
      BY <2>1, <3>1, <3>2 DEF Round, Idle, ProgramFinished, InputCollection
  <2>5. ASSUME NEW p \in mpc_nodes, NEW next \in ORDERED_ROUNDS, Transition(p, next),
               ~UNCHANGED vars
        PROVE  \E votes \in Votes : /\ Advance(votes, masked_inputs)
                                   /\ UNCHANGED <<reserved_indices, masked_inputs>>
    <3>1. /\ transition_votes' = [transition_votes EXCEPT ![next] = @ \cup {p}]
          /\ Advance(transition_votes', masked_inputs)
          /\ UNCHANGED <<reserved_indices, masked_inputs>>
      BY <2>5 DEF Transition, inputVars
    <3>2. transition_votes' \in Votes
      BY <1>2, <3>1 DEF IInv, TypeOK, Votes
    <3> QED
      BY <3>1, <3>2
  <2>6. ASSUME MaskedInputsSent
        PROVE  \E votes \in Votes : /\ Advance(votes, masked_inputs)
                                   /\ UNCHANGED <<reserved_indices, masked_inputs>>
    BY <1>2, <2>6 DEF MaskedInputsSent, IInv, TypeOK, Votes, inputVars
  <2>7. CASE UNCHANGED vars \/ TransitionsDelivered
    BY <2>7 DEF TransitionsDelivered, vars, inputVars, Commitment!commitment
  <2> QED
    BY <1>2, <2>2, <2>3, <2>4, <2>5, <2>6, <2>7 DEF Next, Commitment!Next
<1> QED
  BY <1>1, <1>2, InductiveInvariant, UntouchedInvariant, PTL
    DEF Spec, KeepsCommitment, Commitment!Spec

\* The events that announce a slot.
Announcing(i, events) ==
  {k \in DOMAIN events : i \in Indices(events[k].indices)}

EventLog == Seq([client : Client, indices : Batches])

\* The history of submissions and the slots agree.
THEOREM EventsMatchInputs == Spec => []OneEventPerInput
<1> DEFINE Agrees(i, inputs, events) ==
      IF inputs[i] = None
      THEN Announcing(i, events) = {}
      ELSE \E k \in Announcing(i, events) :
             /\ Announcing(i, events) = {k}
             /\ events[k].client = inputs[i]
<1>1. OneEventPerInput <=> \A i \in Index : Agrees(i, masked_inputs, masked_input_events)
  BY DEF OneEventPerInput, Announcing
<1>2. Init => OneEventPerInput
  BY <1>1 DEF Init, Announcing
<1>3. IInv /\ OneEventPerInput /\ [Next]_vars => OneEventPerInput'
  <2> SUFFICES ASSUME IInv, OneEventPerInput, [Next]_vars PROVE OneEventPerInput'
    OBVIOUS
  <2>1. ASSUME NEW c \in Client, NEW batch \in Batches, SubmitMaskedInputs(c, batch),
               NEW i \in Index
        PROVE  Agrees(i, masked_inputs', masked_input_events')
    <3>1. masked_input_events \in EventLog
      BY DEF IInv, TypeOK, EventLog
    <3>2. masked_input_events' = Append(masked_input_events, Event(c, batch))
      BY <2>1 DEF SubmitMaskedInputs
    <3> DEFINE old == masked_input_events
               new == masked_input_events'
               last == Len(masked_input_events) + 1
    <3>3. /\ DOMAIN new = DOMAIN old \cup {last}
          /\ last \notin DOMAIN old
          /\ \A k \in DOMAIN old : new[k] = old[k]
          /\ new[last].client = c
          /\ new[last].indices = batch
      <4>1. Event(c, batch) \in [client : Client, indices : Batches]
        BY DEF Event
      <4>2. /\ DOMAIN new = DOMAIN old \cup {last}
            /\ last \notin DOMAIN old
            /\ \A k \in DOMAIN old : new[k] = old[k]
            /\ new[last] = Event(c, batch)
        BY <3>1, <3>2, <4>1 DEF EventLog
      <4> QED
        BY <4>2 DEF Event
    <3>4. Agrees(i, masked_inputs, old)
      BY <1>1
    <3> HIDE DEF old, new, last
    <3>5. CASE i \in Indices(batch)
      <4>1. masked_inputs[i] = None /\ masked_inputs'[i] = c /\ c # None
        BY <2>1, <3>5, InputsAssumption DEF SubmitMaskedInputs
      <4>2. Announcing(i, old) = {}
        BY <3>4, <4>1
      <4>3. \A k : k \in Announcing(i, new) <=> k = last
        BY <3>3, <3>5, <4>2 DEF Announcing
      <4> QED
        BY <3>3, <4>1, <4>3, ZenonT(30) DEF new
    <3>6. CASE i \notin Indices(batch)
      <4>1. masked_inputs'[i] = masked_inputs[i]
        BY <2>1, <3>6 DEF SubmitMaskedInputs
      <4>2. \A k : k \in Announcing(i, new) <=> k \in Announcing(i, old)
        BY <3>3, <3>6 DEF Announcing
      <4>3. \A k \in Announcing(i, old) : new[k] = old[k]
        BY <3>3, ZenonT(30) DEF Announcing
      <4> QED
        BY <3>4, <4>1, <4>2, <4>3 DEF new
    <3> QED
      BY <3>5, <3>6
  <2>2. ASSUME NEW c \in Client, NEW batch \in Batches, SubmitMaskedInputs(c, batch)
        PROVE  OneEventPerInput'
    BY <2>1, <2>2 DEF OneEventPerInput, Announcing
  <2>3. \/ \E c \in Client, batch \in Batches : SubmitMaskedInputs(c, batch)
        \/ UNCHANGED <<masked_inputs, masked_input_events>>
    BY DEF Next, Transition, TransitionsDelivered, ReserveMaskIndices, MaskedInputsSent,
      vars, inputVars
  <2> QED
    BY <2>2, <2>3 DEF OneEventPerInput
<1> QED
  BY <1>2, <1>3, InductiveInvariant, PTL DEF Spec

-----------------------------------------------------------------------------
\* The current round was entered, and MPCExecution is never jumped over.
ThroughMPC ==
  /\ round # Idle => round \in trans_events
  /\ round >= MPCExecution => MPCExecution \in trans_events

\* An honest party proposes MPCExecution only after InputCollection was entered.
HonestVotes ==
  \A p \in Honest :
    p \in transition_votes[MPCExecution] => InputCollection \in trans_events

LEMMA ThroughMPCStep == IInv /\ ThroughMPC /\ [Next]_vars => ThroughMPC'
<1> SUFFICES ASSUME IInv, ThroughMPC, [Next]_vars PROVE ThroughMPC'
  OBVIOUS
<1> DEFINE E == trans_events' \ trans_events
<1>1. round \in 0..6 /\ round' \in 0..6 /\ round <= round'
  BY RoundGrows DEF Round, Idle, ProgramFinished
<1>2. CASE UNCHANGED vars
  BY <1>2 DEF ThroughMPC, vars
<1>3. CASE EnteredInOrder
  <2>1. /\ trans_events' = trans_events \cup E
        /\ round' # round => round' \in E
        /\ \A x \in E : round < x /\ x <= round'
        /\ \A x \in E : \E y \in E \cup {round} : Follows(y, x)
    BY <1>3 DEF EnteredInOrder
  <2>2. \A x \in E : \/ x - 1 \in E \cup {round}
                     \/ x = 4 /\ 1 \in E \cup {round}
                     \/ x = 6 /\ 4 \in E \cup {round}
    BY <2>1 DEF Follows, round_before, skips_empty_input_rounds,
       skips_empty_output_rounds, Preprocessing, MPCExecution, ProgramFinished
  <2> HIDE DEF E
  <2>3. CASE round' = round
    BY <2>1, <2>3 DEF ThroughMPC
  <2>4. CASE round' # round /\ round >= 4
    BY <2>1, <2>4 DEF ThroughMPC, MPCExecution
  <2>5. CASE round' # round /\ round < 4
    <3>1. round' >= 4 => 4 \in E
      BY <1>1, <2>1, <2>2, <2>5
    <3> QED
      BY <2>1, <2>5, <3>1 DEF ThroughMPC, MPCExecution
  <2> QED
    BY <1>1, <2>3, <2>4, <2>5
<1> QED
  BY <1>2, <1>3, EnteredInOrderStep

\* Parties that follow the protocol, or do not, take steps of the execution.
LEMMA HonestStep == [HonestNext]_vars => [Next]_vars
<1> SUFFICES ASSUME HonestNext PROVE Next
  BY DEF vars
<1> QED
  BY HonestAssumption DEF HonestNext, HonestTransition, HonestReserve, HonestSubmit, Next

LEMMA HonestVotesStep ==
  IInv /\ ThroughMPC /\ HonestVotes /\ [HonestNext]_vars => HonestVotes'
<1> SUFFICES ASSUME IInv, ThroughMPC, HonestVotes, [HonestNext]_vars PROVE HonestVotes'
  OBVIOUS
<1>1. trans_events \subseteq trans_events'
  BY HonestStep, EnteredInOrderStep DEF EnteredInOrder, vars
<1>2. CASE transition_votes' = transition_votes
  BY <1>1, <1>2 DEF HonestVotes
<1>3. ASSUME NEW p \in mpc_nodes, NEW next \in ORDERED_ROUNDS, Transition(p, next),
             p \in Honest => ProtocolAllows(next),
             transition_votes' # transition_votes
      PROVE  HonestVotes'
  <2>1. transition_votes' = [transition_votes EXCEPT ![next] = @ \cup {p}]
    BY <1>3 DEF Transition, vars
  <2>2. p \in Honest /\ next = MPCExecution => InputCollection \in trans_events
    BY <1>3 DEF ProtocolAllows, ThroughMPC, IInv, TypeOK, Round, Idle, InputCollection,
       MPCExecution, ProgramFinished
  <2>3. MPCExecution \in ORDERED_ROUNDS
    BY DEF ORDERED_ROUNDS, Preprocessing, MPCExecution, ProgramFinished
  <2>4. \A q \in transition_votes'[MPCExecution] :
          q \in transition_votes[MPCExecution] \/ (q = p /\ next = MPCExecution)
    BY <2>1, <2>3 DEF IInv, TypeOK
  <2> QED
    BY <1>1, <2>2, <2>4 DEF HonestVotes
<1>4. \/ transition_votes' = transition_votes
      \/ \E p \in mpc_nodes, next \in ORDERED_ROUNDS :
           Transition(p, next) /\ (p \in Honest => ProtocolAllows(next))
  BY HonestAssumption DEF HonestNext, HonestTransition, HonestReserve, HonestSubmit,
     TransitionsDelivered, ReserveMaskIndices, SubmitMaskedInputs, MaskedInputsSent, vars
<1> QED
  BY <1>2, <1>3, <1>4

\* Of any number of parties, with no more than t of them faulty, the program is
\* never run on a truncated input set.  A quorum for MPCExecution has an honest
\* member, that member proposed it in InputCollection, and from there
\* blocking_precondition lets no empty slot pass.  What the clients send plays no
\* part in it (transition, try_advance, blocking_precondition).
THEOREM NoTruncation == HonestSpec => []NoTruncatedRun
<1>1. Init => ThroughMPC /\ HonestVotes
  BY DEF Init, ThroughMPC, HonestVotes, Idle, MPCExecution, ORDERED_ROUNDS,
     Preprocessing, ProgramFinished
<1>2. HonestSpec => []IInv
  BY HonestStep, InductiveInvariant, PTL DEF HonestSpec, Spec
<1>3. HonestSpec => []OneHonestProposer
  BY HonestStep, HonestProposer, PTL DEF HonestSpec, Spec
<1>4. HonestSpec => [](ThroughMPC /\ HonestVotes)
  BY <1>1, <1>2, ThroughMPCStep, HonestStep, HonestVotesStep, PTL DEF HonestSpec
<1>5. IInv /\ OneHonestProposer /\ ThroughMPC /\ HonestVotes => NoTruncatedRun
  <2> SUFFICES ASSUME IInv, OneHonestProposer, ThroughMPC, HonestVotes,
                      round >= MPCExecution
               PROVE  AllInputsSubmitted
    BY DEF NoTruncatedRun
  <2>1. MPCExecution \in trans_events
    BY ZenonT(30) DEF ThroughMPC
  <2>2. transition_votes[MPCExecution] \ (mpc_nodes \ Honest) # {}
    BY <2>1, HonestAssumption DEF OneHonestProposer
  <2>3. transition_votes[MPCExecution] \subseteq mpc_nodes
    BY <2>1 DEF IInv, TypeOK
  <2>4. InputCollection \in trans_events
    BY <2>2, <2>3 DEF HonestVotes
  <2> QED
    BY <2>1, <2>4 DEF IInv, CollectedInputsComplete
<1> QED
  BY <1>2, <1>3, <1>4, <1>5, PTL

-----------------------------------------------------------------------------
\* A non-empty set of natural numbers has a least element.
LEMMA LeastElement ==
  ASSUME NEW S \in SUBSET Nat, S # {}
  PROVE  \E m \in S : \A k \in S : m <= k
<1> DEFINE R == {ss \in Nat \X Nat : ss[1] < ss[2]}
<1>1. IsWellFoundedOn(R, Nat)
  BY NatLessThanWellFounded DEF OpToRel
<1>2. PICK m \in S : \A k \in S : ~(<<k, m>> \in R)
  BY <1>1, WFMin, Zenon
<1>3. \A k \in S : m <= k
  <2> TAKE k \in S
  <2>1. ~(k < m)
    BY <1>2, Zenon
  <2> QED
    BY <2>1
<1> QED
  BY <1>3

\* Induction up to a bound, for the numbers of a set.
LEMMA InductionUpTo ==
  ASSUME NEW N \in Nat, NEW S, 0 \in S,
         \A k \in 1..N : k - 1 \in S => k \in S
  PROVE  0..N \subseteq S
<1> DEFINE Out == {k \in 0..N : k \notin S}
<1> SUFFICES ASSUME Out # {} PROVE FALSE
  OBVIOUS
<1>1. PICK m \in Out : \A k \in Out : m <= k
  <2>1. Out \in SUBSET Nat
    OBVIOUS
  <2> QED
    BY <2>1, LeastElement, Zenon
<1>2. m \in 1..N /\ m - 1 \in 0..N
  OBVIOUS
<1>3. m - 1 \notin Out
  BY <1>1, <1>2
<1> QED
  BY <1>2, <1>3

\* The running sums of a sequence exist, so they satisfy their definition.
LEMMA RunningSum ==
  ASSUME NEW w \in Seq(Nat)
  PROVE  /\ RunningSums(w) \in [0..Len(w) -> Nat]
         /\ RunningSums(w)[0] = 0
         /\ \A k \in 1..Len(w) : RunningSums(w)[k] = RunningSums(w)[k - 1] + w[k]
<1> DEFINE N == Len(w)
           Sum(f, m) == f[0] = 0 /\ \A k \in 1..m : f[k] = f[k - 1] + w[k]
           S == {m \in 0..N : \E f \in [0..N -> Nat] : Sum(f, m)}
<1>0. N \in Nat /\ w \in [1..N -> Nat]
  OBVIOUS
<1> HIDE DEF N
<1>1. 0 \in S
  <2>1. \E f \in [0..N -> Nat] : Sum(f, 0)
    <3> DEFINE f == [k \in 0..N |-> 0]
    <3>1. f \in [0..N -> Nat]
      OBVIOUS
    <3>2. Sum(f, 0)
      BY <1>0
    <3> HIDE DEF f
    <3> QED
      BY <3>1, <3>2, Zenon
  <2> QED
    BY <1>0, <2>1
<1>2. ASSUME NEW m \in 1..N, m - 1 \in S
      PROVE  m \in S
  <2>1. PICK f \in [0..N -> Nat] : Sum(f, m - 1)
    BY <1>2
  <2> DEFINE g == [f EXCEPT ![m] = f[m - 1] + w[m]]
  <2>2. g \in [0..N -> Nat]
    BY <1>0
  <2>3. Sum(g, m)
    <3>1. g[0] = 0 /\ g[m] = f[m - 1] + w[m] /\ g[m - 1] = f[m - 1]
      BY <2>1
    <3>2. \A k \in 1..(m - 1) : g[k] = f[k] /\ g[k - 1] = f[k - 1]
      OBVIOUS
    <3>3. \A k \in 1..(m - 1) : f[k] = f[k - 1] + w[k]
      BY <2>1
    <3>4. \A k \in 1..m : k = m \/ k \in 1..(m - 1)
      OBVIOUS
    <3> HIDE DEF g
    <3> QED
      BY <3>1, <3>2, <3>3, <3>4
  <2>4. \E h \in [0..N -> Nat] : Sum(h, m)
    <3> HIDE DEF g, Sum
    <3> QED
      BY <2>2, <2>3
  <2>5. m \in 0..N
    OBVIOUS
  <2> HIDE DEF Sum
  <2> QED
    BY <2>4, <2>5
<1>3. N \in S
  <2>1. \A m \in 1..N : m - 1 \in S => m \in S
    BY <1>2, Zenon
  <2> HIDE DEF S
  <2>2. 0..N \subseteq S
    BY <1>0, <1>1, <2>1, InductionUpTo, Zenon
  <2> QED
    BY <1>0, <2>2
<1>4. PICK f \in [0..N -> Nat] : Sum(f, N)
  BY <1>3
<1>5. f = [k \in 0..N |-> IF k = 0 THEN 0 ELSE f[k - 1] + w[k]]
  BY <1>0, <1>4
<1>6. RunningSums(w) =
        [k \in 0..N |-> IF k = 0 THEN 0 ELSE RunningSums(w)[k - 1] + w[k]]
  BY <1>5, Zenon DEF RunningSums, N
<1> DEFINE R == RunningSums(w)
           T == {k \in 0..N : R[k] \in Nat}
<1>7. R = [k \in 0..N |-> IF k = 0 THEN 0 ELSE R[k - 1] + w[k]]
  BY <1>6, Zenon
<1> HIDE DEF R
<1>8. /\ R[0] = 0
      /\ \A k \in 1..N : R[k] = R[k - 1] + w[k]
  BY <1>0, <1>7, SMTT(30)
<1>9. 0 \in T /\ \A k \in 1..N : k - 1 \in T => k \in T
  <2>1. 0 \in T
    BY <1>0, <1>8
  <2>2. ASSUME NEW k \in 1..N, R[k - 1] \in Nat
        PROVE  k \in 0..N /\ R[k] \in Nat
    <3>1. w[k] \in Nat /\ k \in 0..N
      BY <1>0
    <3>2. R[k] = R[k - 1] + w[k]
      BY <1>8
    <3> QED
      BY <2>2, <3>1, <3>2
  <2> QED
    BY <2>1, <2>2
<1>10. 0..N \subseteq T
  <2> HIDE DEF T
  <2> QED
    BY <1>0, <1>9, InductionUpTo, Zenon
<1>11. R \in [0..N -> Nat]
  BY <1>7, <1>10
<1> QED
  BY <1>8, <1>11 DEF R, N

-----------------------------------------------------------------------------
\* No client lists a slot twice in a call.  Neither reserve_mask_indices nor
\* submit_masked_inputs refuses a call that does.
EachSlotOnce == \A batch \in Batches : ListsOnce(batch)

Reserved == {i \in Index : reserved_indices[i] # None}

\* Every reservation made so far listed its slots once.
AllListedOnce ==
  \A k \in DOMAIN reserved_index_events : ListsOnce(reserved_index_events[k].indices)

\* No slot is left out of the count, and one is counted twice exactly when a
\* client has listed one twice.
Counted ==
  /\ Cardinality(Reserved) <= n_reserved
  /\ AllListedOnce <=> Cardinality(Reserved) = n_reserved

\* A batch has at least as many entries as slots, and more if it repeats one.
LEMMA BatchSize ==
  ASSUME NEW batch \in Batches
  PROVE  /\ Len(batch) \in Nat
         /\ IsFiniteSet(Indices(batch))
         /\ Cardinality(Indices(batch)) <= Len(batch)
         /\ ListsOnce(batch) <=> Cardinality(Indices(batch)) = Len(batch)
<1>1. batch \in Seq(Index) /\ Len(batch) \in Nat
  BY BatchesAssumption
<1>2. batch \in [1..Len(batch) -> Indices(batch)] /\ DOMAIN batch = 1..Len(batch)
  BY <1>1 DEF Indices
<1>3. batch \in Surjection(1..Len(batch), Indices(batch))
  BY <1>2 DEF Surjection, Indices
<1>4. ListsOnce(batch) <=> batch \in Injection(1..Len(batch), Indices(batch))
  BY <1>2 DEF Injection, IsInjective, ListsOnce
<1>5. IsFiniteSet(1..Len(batch)) /\ Cardinality(1..Len(batch)) = Len(batch)
  BY <1>1, FS_Interval, SMTT(30)
<1> QED
  BY <1>1, <1>3, <1>4, <1>5, FS_Surjection

LEMMA SlotSets ==
  ASSUME NEW S \in SUBSET Index
  PROVE  /\ IsFiniteSet(S) /\ Cardinality(S) \in Nat /\ Cardinality(S) <= n_inputs
         /\ Cardinality(Index \ S) = n_inputs - Cardinality(S)
         /\ Cardinality(S) = n_inputs => S = Index
<1>0. n_inputs \in Nat /\ n_inputs - 1 \in Int /\ 0 \in Int
  BY InputsAssumption
<1>1. IsFiniteSet(Index) /\ Cardinality(Index) = n_inputs
  <2>1. /\ IsFiniteSet(0..(n_inputs - 1))
        /\ Cardinality(0..(n_inputs - 1)) =
             IF 0 > n_inputs - 1 THEN 0 ELSE n_inputs - 1 - 0 + 1
    BY <1>0, FS_Interval
  <2> QED
    BY <1>0, <2>1 DEF Index
<1>2. IsFiniteSet(S) /\ Cardinality(S) <= n_inputs /\ (Cardinality(S) = n_inputs => S = Index)
  BY <1>1, FS_Subset
<1>3. Index \cap S = S
  OBVIOUS
<1> QED
  BY <1>0, <1>1, <1>2, <1>3, FS_Difference, FS_CardinalityType, Zenon

LEMMA CountedStep == IInv /\ Counted /\ [Next]_vars => Counted'
<1> SUFFICES ASSUME IInv, Counted, [Next]_vars PROVE Counted'
  OBVIOUS
<1>1. CASE UNCHANGED <<reserved_indices, n_reserved, reserved_index_events>>
  BY <1>1 DEF Counted, Reserved, AllListedOnce
<1>2. ASSUME NEW c \in Client, NEW batch \in Batches, ReserveMaskIndices(c, batch)
      PROVE  Counted'
  <2>1. Indices(batch) \subseteq Index /\ c # None
    BY BatchIndices, InputsAssumption
  <2>2. Reserved' = Reserved \cup Indices(batch) /\ Reserved \cap Indices(batch) = {}
    BY <1>2, <2>1 DEF ReserveMaskIndices, Reserved
  <2>3. IsFiniteSet(Reserved) /\ Cardinality(Reserved) \in Nat
    BY SlotSets, Zenon DEF Reserved
  <2>6. IsFiniteSet(Indices(batch)) /\ Cardinality(Indices(batch)) \in Nat
    BY BatchSize, FS_CardinalityType
  <2>4. Cardinality(Reserved') = Cardinality(Reserved) + Cardinality(Indices(batch))
    <3>1. Cardinality(Reserved \cup Indices(batch)) =
            Cardinality(Reserved) + Cardinality(Indices(batch))
              - Cardinality(Reserved \cap Indices(batch))
      BY <2>3, <2>6, FS_Union
    <3>2. Cardinality(Reserved \cap Indices(batch)) = 0
      BY <2>2, FS_EmptySet
    <3> QED
      BY <2>2, <2>3, <2>6, <3>1, <3>2
  <2>5. n_reserved' = n_reserved + Len(batch) /\ n_reserved \in Nat
    BY <1>2 DEF ReserveMaskIndices, IInv, TypeOK
  <2>7. AllListedOnce' <=> AllListedOnce /\ ListsOnce(batch)
    <3> DEFINE old == reserved_index_events
               last == Len(old) + 1
    <3>1. old \in Seq([client : Client, indices : Batches])
      BY DEF IInv, TypeOK
    <3>2. old' = Append(old, Event(c, batch)) /\ Event(c, batch).indices = batch
      BY <1>2 DEF ReserveMaskIndices, Event
    <3>3. /\ DOMAIN old' = DOMAIN old \cup {last} /\ last \notin DOMAIN old
          /\ \A k \in DOMAIN old : old'[k] = old[k]
          /\ old'[last].indices = batch
      BY <3>1, <3>2
    <3> HIDE DEF last
    <3> QED
      BY <3>3, ZenonT(30) DEF AllListedOnce
  <2>8. /\ Cardinality(Indices(batch)) <= Len(batch) /\ Len(batch) \in Nat
        /\ ListsOnce(batch) <=> Cardinality(Indices(batch)) = Len(batch)
    BY BatchSize
  <2> QED
    BY <2>3, <2>4, <2>5, <2>6, <2>7, <2>8 DEF Counted
<1>3. \/ UNCHANGED <<reserved_indices, n_reserved, reserved_index_events>>
      \/ \E c \in Client, batch \in Batches : ReserveMaskIndices(c, batch)
  BY DEF Next, Transition, TransitionsDelivered, SubmitMaskedInputs, MaskedInputsSent,
     vars, inputVars
<1> QED
  BY <1>1, <1>2, <1>3

LEMMA CountedInvariant == Spec => []Counted
<1>1. Init => Counted
  <2> SUFFICES ASSUME Init PROVE Counted
    OBVIOUS
  <2>1. Reserved = {} /\ n_reserved = 0 /\ AllListedOnce
    BY DEF Init, Reserved, AllListedOnce
  <2>2. Cardinality(Reserved) = 0
    BY <2>1, FS_EmptySet
  <2> QED
    BY <2>1, <2>2 DEF Counted
<1> QED
  BY <1>1, CountedStep, InductiveInvariant, PTL DEF Spec

\* For any number of slots and clients and whatever they list in their calls,
\* available_input_masks answers the exact number of free slots until a call
\* lists a slot twice, and another number ever after (reserve_mask_indices).
THEOREM MasksExact == Spec => []AvailableMasksExact
<1>1. IInv /\ Counted => AvailableMasksExact
  <2> SUFFICES ASSUME IInv, Counted, n_reserved < U64
               PROVE  available_input_masks = Cardinality(Index \ Reserved) <=> AllListedOnce
    BY DEF Reserved, AvailableMasksExact, AllListedOnce
  <2>1. /\ Cardinality(Reserved) \in Nat /\ Cardinality(Reserved) <= n_inputs
        /\ Cardinality(Index \ Reserved) = n_inputs - Cardinality(Reserved)
    BY SlotSets DEF Reserved
  <2>2. n_reserved \in Nat /\ n_inputs \in Nat /\ U64 \in Nat /\ n_inputs < U64
    BY InputsAssumption DEF IInv, TypeOK
  <2>3. AllListedOnce <=> Cardinality(Reserved) = n_reserved
    BY DEF Counted
  <2> QED
    BY <2>1, <2>2, <2>3 DEF available_input_masks
<1> QED
  BY <1>1, InductiveInvariant, CountedInvariant, PTL

-----------------------------------------------------------------------------
LEMMA SumsGrow ==
  ASSUME NEW w \in Seq(Nat), NEW j \in 0..Len(w), NEW k \in 0..Len(w), j <= k
  PROVE  RunningSums(w)[j] <= RunningSums(w)[k]
<1> DEFINE N == Len(w)
           R == RunningSums(w)
           S == {m \in 0..N : \A i \in 0..m : R[i] <= R[m]}
<1>1. N \in Nat /\ \A m \in 1..N : w[m] \in Nat
  OBVIOUS
<1>2. R \in [0..N -> Nat] /\ \A m \in 1..N : R[m] = R[m - 1] + w[m]
  BY RunningSum
<1> HIDE DEF R, N
<1>3. 0 \in S
  BY <1>1, <1>2
<1>4. \A m \in 1..N : m - 1 \in S => m \in S
  <2> SUFFICES ASSUME NEW m \in 1..N, m - 1 \in S, NEW i \in 0..m
               PROVE  R[i] <= R[m]
    BY <1>1
  <2>1. /\ m - 1 \in 0..N /\ m \in 0..N /\ i \in 0..N
        /\ R[m - 1] \in Nat /\ R[m] \in Nat /\ R[i] \in Nat
    BY <1>1, <1>2
  <2>2. R[m - 1] <= R[m]
    <3>1. R[m] = R[m - 1] + w[m] /\ w[m] \in Nat
      BY <1>1, <1>2
    <3> QED
      BY <2>1, <3>1
  <2>3. CASE i = m
    BY <2>1, <2>3
  <2>4. CASE i \in 0..(m - 1)
    <3>1. R[i] <= R[m - 1]
      BY <2>4
    <3> QED
      BY <2>1, <2>2, <3>1
  <2> QED
    BY <1>1, <2>3, <2>4
<1>5. 0..N \subseteq S
  <2> HIDE DEF S
  <2> QED
    BY <1>1, <1>3, <1>4, InductionUpTo, Zenon
<1>6. k \in S /\ j \in 0..k
  <2>1. k \in 0..N /\ j \in 0..k
    BY <1>1 DEF N
  <2> HIDE DEF S
  <2> QED
    BY <1>5, <2>1
<1> QED
  BY <1>6 DEF R

\* Every number up to the total falls into one stretch between running sums.
LEMMA OneStretch ==
  ASSUME NEW w \in Seq(Nat), NEW i \in 1..RunningSums(w)[Len(w)]
  PROVE  \E k \in 1..Len(w) :
           /\ RunningSums(w)[k - 1] < i /\ i <= RunningSums(w)[k]
           /\ \A m \in 1..Len(w) :
                RunningSums(w)[m - 1] < i /\ i <= RunningSums(w)[m] => m = k
<1> DEFINE N == Len(w)
           R == RunningSums(w)
           S == {k \in 0..N : i <= R[k]}
<1>1. N \in Nat /\ R \in [0..N -> Nat] /\ R[0] = 0
  BY RunningSum
<1>2. \A a, b \in 0..N : a <= b => R[a] <= R[b]
  BY SumsGrow
<1> HIDE DEF N, R
<1>3. i \in 1..R[N]
  BY DEF N, R
<1>4. S \in SUBSET Nat /\ N \in S
  BY <1>1, <1>3
<1>5. PICK k \in S : \A m \in S : k <= m
  <2> HIDE DEF S
  <2> QED
    BY <1>4, LeastElement, ZenonT(30)
<1>6. k \in 1..N /\ k - 1 \in 0..N /\ i <= R[k]
  BY <1>1, <1>3, <1>5
<1>7. R[k - 1] < i
  BY <1>1, <1>3, <1>5, <1>6
<1>8. ASSUME NEW m \in 1..N, R[m - 1] < i, i <= R[m]
      PROVE  m = k
  <2>1. m \in S /\ m - 1 \in 0..N /\ R[m - 1] \in Nat
    BY <1>1, <1>8
  <2>2. k <= m
    BY <1>5, <2>1
  <2>3. ASSUME k <= m - 1 PROVE FALSE
    <3>1. R[k] <= R[m - 1] /\ R[k] \in Nat
      BY <1>1, <1>2, <1>6, <2>1, <2>3
    <3> QED
      BY <1>3, <1>6, <1>8, <2>1, <3>1
  <2> QED
    BY <1>6, <2>2, <2>3
<1> QED
  BY <1>6, <1>7, <1>8 DEF N, R

\* Retain takes each position that is kept once.
LEMMA RetainedOnce ==
  ASSUME NEW seq, NEW kept \in SUBSET Nat, IsFiniteSet(kept)
  PROVE  \E at \in Bijection(1..Cardinality(kept), kept) :
           Retain(seq, kept) = [j \in 1..Cardinality(kept) |-> seq[at[j]]]
<1> DEFINE N == Cardinality(kept)
           Below(k) == {i \in kept : i <= k}
           rank == [k \in kept |-> Cardinality(Below(k))]
           at == [j \in 1..N |-> CHOOSE k \in kept : Cardinality({i \in kept : i <= k}) = j]
<1>1. N \in Nat
  BY FS_CardinalityType
<1>2. \A k \in kept : /\ IsFiniteSet(Below(k)) /\ Cardinality(Below(k)) \in 1..N
                      /\ Below(k) \in SUBSET kept
  <2> SUFFICES ASSUME NEW k \in kept
               PROVE  IsFiniteSet(Below(k)) /\ Cardinality(Below(k)) \in 1..N
    OBVIOUS
  <2>1. Below(k) \in SUBSET kept /\ k \in Below(k)
    OBVIOUS
  <2> HIDE DEF Below
  <2>2. IsFiniteSet(Below(k)) /\ Cardinality(Below(k)) <= N
    BY <2>1, FS_Subset
  <2>3. Cardinality(Below(k)) \in Nat /\ Cardinality(Below(k)) # 0
    BY <2>1, <2>2, FS_CardinalityType, FS_EmptySet
  <2> QED
    BY <1>1, <2>2, <2>3
<1>3. \A k, m \in kept : k < m => Cardinality(Below(k)) < Cardinality(Below(m))
  <2> SUFFICES ASSUME NEW k \in kept, NEW m \in kept, k < m
               PROVE  Cardinality(Below(k)) < Cardinality(Below(m))
    OBVIOUS
  <2>0. k \in Nat /\ m \in Nat /\ \A i \in kept : i \in Nat
    OBVIOUS
  <2>1. Below(k) \in SUBSET Below(m) /\ m \in Below(m) /\ m \notin Below(k)
    <3>1. \A i \in kept : i <= k => i <= m
      BY <2>0
    <3>2. m <= m /\ ~(m <= k)
      BY <2>0
    <3> QED
      BY <3>1, <3>2, Zenon
  <2>2. IsFiniteSet(Below(m)) /\ Cardinality(Below(k)) \in Nat /\ Cardinality(Below(m)) \in Nat
    BY <1>1, <1>2
  <2> HIDE DEF Below
  <2>3. /\ Cardinality(Below(k)) <= Cardinality(Below(m))
        /\ Cardinality(Below(k)) = Cardinality(Below(m)) => Below(k) = Below(m)
    BY <2>1, <2>2, FS_Subset
  <2> QED
    BY <2>1, <2>2, <2>3
<1>4. rank \in Injection(kept, 1..N)
  <2>1. rank \in [kept -> 1..N]
    BY <1>2
  <2>2. \A k, m \in kept : rank[k] = rank[m] => k = m
    <3> SUFFICES ASSUME NEW k \in kept, NEW m \in kept,
                        Cardinality(Below(k)) = Cardinality(Below(m))
                 PROVE  k = m
      BY Zenon
    <3>1. ~(k < m) /\ ~(m < k)
      BY <1>1, <1>2, <1>3
    <3> QED
      BY <3>1
  <2> HIDE DEF rank
  <2> QED
    BY <2>1, <2>2 DEF Injection, IsInjective
<1>5. rank \in Surjection(kept, 1..N)
  <2>1. IsFiniteSet(1..N) /\ Cardinality(1..N) = N
    BY <1>1, FS_Interval
  <2> HIDE DEF rank
  <2> QED
    BY <1>4, <2>1, FS_Injection
<1>6. \A j \in 1..N : at[j] \in kept /\ rank[at[j]] = j
  <2> SUFFICES ASSUME NEW j \in 1..N
               PROVE  at[j] \in kept /\ rank[at[j]] = j
    BY Zenon
  <2>1. \E k \in kept : Cardinality(Below(k)) = j
    BY <1>5, Zenon DEF Surjection
  <2>2. at[j] = CHOOSE k \in kept : Cardinality(Below(k)) = j
    BY Zenon
  <2> HIDE DEF at, Below
  <2> QED
    BY <2>1, <2>2
<1>7. at \in Bijection(1..N, kept)
  <2> HIDE DEF at, rank
  <2>1. at \in [1..N -> kept]
    BY <1>6, Zenon DEF at
  <2>2. \A i, j \in 1..N : at[i] = at[j] => i = j
    BY <1>6
  <2>3. \A k \in kept : \E j \in 1..N : at[j] = k
    <3> TAKE k \in kept
    <3>1. rank[k] \in 1..N
      BY <1>4 DEF Injection
    <3>2. rank[at[rank[k]]] = rank[k] /\ at[rank[k]] \in kept
      BY <1>6, <3>1
    <3>3. at[rank[k]] = k
      BY <1>4, <3>2, Zenon DEF Injection, IsInjective
    <3> QED
      BY <3>1, <3>3
  <2> QED
    BY <2>1, <2>2, <2>3 DEF Bijection, Injection, Surjection, IsInjective
<1>8. Retain(seq, kept) = [j \in 1..N |-> seq[at[j]]]
  BY DEF Retain
<1> HIDE DEF at
<1> QED
  BY <1>7, <1>8

\* The slots of a range are the ones in its stretch.
LEMMA ExpandedRanges ==
  ASSUME NEW N \in Nat, NEW ranges \in [1..N -> [client_index : Nat, count : Nat]]
  PROVE  /\ SlotsUpTo(ranges) \in [0..N -> Nat]
         /\ \A k \in 1..N : SlotsUpTo(ranges)[k] = SlotsUpTo(ranges)[k - 1] + ranges[k].count
         /\ TotalInputs(ranges) = SlotsUpTo(ranges)[N]
         /\ \A k \in 1..N : SlotsUpTo(ranges)[k] <= TotalInputs(ranges)
         /\ \A i \in 1..TotalInputs(ranges) :
              /\ RangeOf(ranges, i) \in 1..N
              /\ \A k \in 1..N : RangeOf(ranges, i) = k <=>
                   SlotsUpTo(ranges)[k - 1] < i /\ i <= SlotsUpTo(ranges)[k]
<1> DEFINE w == [k \in DOMAIN ranges |-> ranges[k].count]
<1>1. /\ w \in Seq(Nat) /\ Len(w) = N /\ Len(ranges) = N /\ DOMAIN ranges = 1..N
      /\ \A k \in 1..N : w[k] = ranges[k].count
  <2> DEFINE T == [client_index : Nat, count : Nat]
  <2>1. ranges \in [1..N -> T] /\ \A k \in 1..N : ranges[k].count \in Nat
    OBVIOUS
  <2> HIDE DEF T
  <2>2. ranges \in Seq(T) /\ Len(ranges) = N /\ DOMAIN ranges = 1..N
    BY <2>1
  <2> QED
    BY <2>1, <2>2
<1>2. SlotsUpTo(ranges) = RunningSums(w)
  BY DEF SlotsUpTo
<1> DEFINE R == RunningSums(w)
<1> HIDE DEF w
<1>3. R \in [0..N -> Nat] /\ \A k \in 1..N : R[k] = R[k - 1] + w[k]
  BY <1>1, RunningSum, Zenon
<1>4. \A k \in 1..N : R[k] <= R[N]
  <2> TAKE k \in 1..N
  <2>1. k \in 0..Len(w) /\ N \in 0..Len(w) /\ k <= N
    BY <1>1
  <2> QED
    BY <1>1, <2>1, SumsGrow, Zenon
<1>5. TotalInputs(ranges) = R[N]
  BY <1>1, <1>2 DEF TotalInputs
<1>6. ASSUME NEW i \in 1..R[N]
      PROVE  /\ RangeOf(ranges, i) \in 1..N
             /\ \A k \in 1..N : RangeOf(ranges, i) = k <=> R[k - 1] < i /\ i <= R[k]
  <2>1. PICK k \in 1..N : /\ R[k - 1] < i /\ i <= R[k]
                          /\ \A m \in 1..N : R[m - 1] < i /\ i <= R[m] => m = k
    BY <1>1, OneStretch
  <2> HIDE DEF R
  <2>2. RangeOf(ranges, i) = CHOOSE m \in 1..N : R[m - 1] < i /\ i <= R[m]
    BY <1>1, <1>2 DEF RangeOf, R
  <2>3. RangeOf(ranges, i) = k
    BY <2>1, <2>2
  <2> QED
    BY <2>1, <2>3
<1> HIDE DEF R
<1>7. SlotsUpTo(ranges) = R
  BY <1>2 DEF R
<1> QED
  BY <1>1, <1>3, <1>4, <1>5, <1>6, <1>7

Schemas(Slot) == [client_slot : Slot, inputs : Nat, outputs : Nat]

Bound(Slot, Identity) == [client_slot : Slot, client : Identity]

LEMMA SlotSeqs ==
  ASSUME NEW T, NEW seq \in Seq(T)
  PROVE  /\ SlotSeq(seq) \in Surjection(1..Len(seq), SlotsIn(seq))
         /\ IsFiniteSet(1..Len(seq)) /\ Cardinality(1..Len(seq)) = Len(seq)
         /\ Len(seq) \in Nat /\ DOMAIN seq = 1..Len(seq) /\ DOMAIN SlotSeq(seq) = 1..Len(seq)
         /\ \A i \in 1..Len(seq) : SlotSeq(seq)[i] = seq[i].client_slot
<1>1. Len(seq) \in Nat /\ DOMAIN seq = 1..Len(seq)
  OBVIOUS
<1>2. /\ DOMAIN SlotSeq(seq) = 1..Len(seq)
      /\ \A i \in 1..Len(seq) : SlotSeq(seq)[i] = seq[i].client_slot
      /\ SlotSeq(seq) = [i \in 1..Len(seq) |-> seq[i].client_slot]
  BY <1>1 DEF SlotSeq
<1>3. IsFiniteSet(1..Len(seq)) /\ Cardinality(1..Len(seq)) = Len(seq)
  BY <1>1, FS_Interval
<1>4. SlotsIn(seq) = {SlotSeq(seq)[i] : i \in 1..Len(seq)}
  BY <1>2 DEF SlotsIn, Range
<1>5. SlotSeq(seq) \in Surjection(1..Len(seq), SlotsIn(seq))
  BY <1>2, <1>4 DEF Surjection
<1> QED
  BY <1>1, <1>2, <1>3, <1>5

\* What build_input_assignment refuses is not one-to-one: a slot that the
\* manifest repeats leaves a slot of the bindings, or a binding, over.
LEMMA RefusedNotOneToOne ==
  ASSUME NEW T, NEW U, NEW manifest \in Seq(T), NEW bindings \in Seq(U),
         \/ ~IsInjective(SlotSeq(manifest))
         \/ ~IsInjective(SlotSeq(bindings))
         \/ SlotsIn(bindings) # SlotsIn(manifest)
         \/ ~IsInjective([i \in DOMAIN bindings |-> bindings[i].client])
  PROVE  ~OneToOne(manifest, bindings)
<1> SUFFICES ASSUME OneToOne(manifest, bindings)
             PROVE  /\ IsInjective(SlotSeq(manifest))
                    /\ IsInjective(SlotSeq(bindings))
                    /\ SlotsIn(bindings) = SlotsIn(manifest)
                    /\ IsInjective([i \in DOMAIN bindings |-> bindings[i].client])
  BY ZenonT(30)
<1>1. IsInjective(SlotSeq(bindings))
  BY SlotSeqs, SMTT(30) DEF OneToOne, IsInjective
<1>2. IsInjective([i \in DOMAIN bindings |-> bindings[i].client])
  BY DEF OneToOne, IsInjective
<1>3. SlotsIn(bindings) = SlotsIn(manifest) /\ Len(manifest) = Len(bindings)
  BY ZenonT(30) DEF OneToOne
<1>4. Cardinality(SlotsIn(bindings)) = Len(bindings)
  <2>1. SlotSeq(bindings) \in Injection(1..Len(bindings), SlotsIn(bindings))
    BY <1>1, SlotSeqs, ZenonT(30) DEF Injection, Surjection
  <2> QED
    BY <2>1, SlotSeqs, FS_Surjection, ZenonT(30)
<1>5. SlotSeq(manifest) \in Injection(1..Len(manifest), SlotsIn(manifest))
  BY <1>3, <1>4, SlotSeqs, FS_Surjection
<1>6. IsInjective(SlotSeq(manifest))
  BY <1>5 DEF Injection
<1> QED
  BY <1>1, <1>2, <1>3, <1>6

\* The layout of any manifest under any bindings is as they ask, whatever the
\* number of clients and of their inputs, or is refused because they are not
\* one-to-one (build_input_assignment, CoordinatorExecutionState::new,
\* expand_input_ranges).
THEOREM LayoutsBound ==
  ASSUME NEW Slot, NEW Identity,
         NEW manifest \in Seq(Schemas(Slot)), NEW bindings \in Seq(Bound(Slot, Identity))
  PROVE  LayoutAsBound(manifest, bindings)
<1> DEFINE Refused ==
             \/ ~IsInjective(SlotSeq(manifest))
             \/ ~IsInjective(SlotSeq(bindings))
             \/ SlotsIn(bindings) # SlotsIn(manifest)
             \/ ~IsInjective([i \in DOMAIN bindings |-> bindings[i].client])
           B == Len(bindings)
           Schema(b) == SchemaOf(manifest, bindings[b].client_slot)
           W == {b \in DOMAIN bindings : Schema(b).inputs > 0}
           O == {b \in DOMAIN bindings : Schema(b).outputs > 0}
           M == Cardinality(W)
           built == build_input_assignment(manifest, bindings)
<1>1. CASE Refused
  <2>1. built = Error
    BY <1>1, ZenonT(30) DEF build_input_assignment
  <2>2. ~OneToOne(manifest, bindings)
    BY <1>1, RefusedNotOneToOne
  <2> QED
    BY <2>1, <2>2, ZenonT(30) DEF LayoutAsBound
<1>2. CASE ~Refused
  <2>1. B \in Nat /\ DOMAIN bindings = 1..B
    OBVIOUS
  <2>2. \A b \in 1..B : Schema(b) \in Schemas(Slot)
    <3> TAKE b \in 1..B
    <3>1. bindings[b].client_slot \in SlotsIn(manifest)
      BY <1>2, <2>1, SlotSeqs, Zenon DEF Surjection
    <3>2. \E i \in DOMAIN manifest : manifest[i].client_slot = bindings[b].client_slot
      BY <3>1, SlotSeqs DEF Surjection
    <3>3. PICK i \in DOMAIN manifest : Schema(b) = manifest[i]
      BY <3>2, Zenon DEF SchemaOf
    <3> QED
      BY <3>3
  <2>3. \A b, d \in 1..B : bindings[b].client = bindings[d].client => b = d
    BY <1>2, <2>1 DEF IsInjective
  <2>4. /\ W \in SUBSET Nat /\ IsFiniteSet(W) /\ M \in Nat
        /\ O \in SUBSET Nat /\ IsFiniteSet(O) /\ Cardinality(O) \in Nat
    <3>1. IsFiniteSet(1..B) /\ W \in SUBSET (1..B) /\ O \in SUBSET (1..B)
      BY <2>1, SlotSeqs
    <3> HIDE DEF W, O
    <3>2. IsFiniteSet(W) /\ IsFiniteSet(O)
      BY <3>1, FS_Subset, Zenon
    <3> QED
      BY <2>1, <3>1, <3>2, FS_CardinalityType
  <2>5. PICK at \in Bijection(1..Cardinality(W), W) :
          Retain(bindings, W) = [j \in 1..Cardinality(W) |-> bindings[at[j]]]
    <3>1. W \in SUBSET Nat /\ IsFiniteSet(W)
      BY <2>4
    <3> HIDE DEF W
    <3> QED
      BY <3>1, RetainedOnce, Zenon
  <2>6. PICK out \in Bijection(1..Cardinality(O), O) :
          Retain(bindings, O) = [j \in 1..Cardinality(O) |-> bindings[out[j]]]
    <3>1. O \in SUBSET Nat /\ IsFiniteSet(O)
      BY <2>4
    <3> HIDE DEF O
    <3> QED
      BY <3>1, RetainedOnce, Zenon
  <2> DEFINE clients == [k \in 1..M |-> bindings[at[k]].client]
             ranges == [k \in 1..M |-> [client_index |-> k - 1, count |-> Schema(at[k]).inputs]]
             output_clients == [k \in 1..Cardinality(O) |-> bindings[out[k]].client]
  <2>7. built = [clients |-> clients, ranges |-> ranges, output_clients |-> output_clients]
    <3> DEFINE wi == Retain(bindings, W)
               wo == Retain(bindings, O)
    <3>1. built =
            [clients |-> [k \in DOMAIN wi |-> wi[k].client],
             ranges |-> [k \in DOMAIN wi |->
                           [client_index |-> k - 1,
                            count |-> SchemaOf(manifest, wi[k].client_slot).inputs]],
             output_clients |-> [k \in DOMAIN wo |-> wo[k].client]]
      BY <1>2, ZenonT(30) DEF build_input_assignment
    <3> HIDE DEF W, O
    <3>2. DOMAIN wi = 1..M /\ \A k \in 1..M : wi[k] = bindings[at[k]]
      BY <2>5
    <3>3. DOMAIN wo = 1..Cardinality(O) /\ \A k \in 1..Cardinality(O) : wo[k] = bindings[out[k]]
      BY <2>6
    <3> HIDE DEF wi, wo, built, M
    <3>4. [k \in DOMAIN wi |-> wi[k].client] = clients
      BY <3>2
    <3>5. [k \in DOMAIN wi |->
            [client_index |-> k - 1, count |-> SchemaOf(manifest, wi[k].client_slot).inputs]]
            = ranges
      BY <3>2
    <3>6. [k \in DOMAIN wo |-> wo[k].client] = output_clients
      BY <3>3
    <3> HIDE DEF clients, ranges, output_clients
    <3> QED
      BY <3>1, <3>4, <3>5, <3>6, ZenonT(30)
  <2>8. /\ at \in [1..M -> 1..B]
        /\ \A b \in 1..B : Schema(b).inputs > 0 <=> \E k \in 1..M : at[k] = b
        /\ \A k, m \in 1..M : at[k] = at[m] => k = m
    <3>1. /\ at \in [1..M -> W] /\ \A b \in W : \E k \in 1..M : at[k] = b
          /\ \A k, m \in 1..M : at[k] = at[m] => k = m
      <4> HIDE DEF W
      <4> QED
        BY DEF Bijection, Injection, Surjection, IsInjective
    <3>2. \A b \in 1..B : Schema(b).inputs > 0 <=> b \in W
      BY <2>1
    <3>3. W \subseteq 1..B
      BY <2>1
    <3> HIDE DEF W, Schema
    <3> QED
      BY <3>1, <3>2, <3>3, ZenonT(30)
  <2>9. \A b \in 1..B : Schema(b).outputs > 0 <=>
          bindings[b].client \in {output_clients[k] : k \in DOMAIN output_clients}
    <3>1. out \in [1..Cardinality(O) -> O] /\ \A b \in O : \E k \in 1..Cardinality(O) : out[k] = b
      <4> HIDE DEF O
      <4> QED
        BY DEF Bijection, Injection, Surjection
    <3>2. O \subseteq 1..B /\ \A b \in 1..B : Schema(b).outputs > 0 <=> b \in O
      BY <2>1
    <3> HIDE DEF O, Schema
    <3>3. \A b \in 1..B : b \in O <=>
            \E k \in 1..Cardinality(O) : bindings[out[k]].client = bindings[b].client
      BY <2>3, <3>1, <3>2, ZenonT(30)
    <3> QED
      BY <3>2, <3>3, ZenonT(30)
  <2>10. ranges \in [1..M -> [client_index : Nat, count : Nat]]
    <3>1. \A k \in 1..M : Schema(at[k]).inputs \in Nat
      BY <2>2, <2>8, Zenon DEF Schemas
    <3> HIDE DEF Schema, M
    <3>2. \A k \in 1..M : k - 1 \in Nat
      BY <2>4, SMTT(30)
    <3>3. \A k \in 1..M : [client_index |-> k - 1, count |-> Schema(at[k]).inputs]
                            \in [client_index : Nat, count : Nat]
      BY <3>1, <3>2, Zenon
    <3> QED
      BY <3>3, Zenon
  <2>11. built.clients = clients /\ built.ranges = ranges /\ built.output_clients = output_clients
    <3> HIDE DEF built, clients, ranges, output_clients
    <3> QED
      BY <2>7, Zenon
  <2> HIDE DEF built, W, O
  <2> DEFINE up == SlotsUpTo(ranges)
             total == TotalInputs(ranges)
             slots == expand_input_ranges(built.ranges)
             Of(c) == {i \in DOMAIN slots : SlotClients(built)[i] = c}
  <2>12. /\ up \in [0..M -> Nat] /\ total \in Nat
         /\ \A k \in 1..M : up[k] = up[k - 1] + ranges[k].count /\ up[k] <= total
         /\ \A i \in 1..total :
              /\ RangeOf(ranges, i) \in 1..M
              /\ \A k \in 1..M : RangeOf(ranges, i) = k <=> up[k - 1] < i /\ i <= up[k]
    <3>1. M \in 0..M
      BY <2>4
    <3> HIDE DEF M, ranges
    <3>2. up \in [0..M -> Nat] /\ total = up[M]
      BY <2>4, <2>10, ExpandedRanges, ZenonT(30)
    <3>3. total \in Nat
      BY <3>1, <3>2
    <3> QED
      BY <2>4, <2>10, <3>2, <3>3, ExpandedRanges, Zenon
  <2>13. \A k \in 1..M : ranges[k].client_index = k - 1 /\ ranges[k].count = Schema(at[k]).inputs
    OBVIOUS
  <2>14. /\ DOMAIN slots = 1..total
         /\ \A i \in 1..total :
              /\ slots[i].client_index = RangeOf(ranges, i) - 1
              /\ slots[i].label = i - up[RangeOf(ranges, i) - 1] - 1
    <3> HIDE DEF ranges
    <3>1. /\ DOMAIN slots = 1..total
          /\ \A i \in 1..total :
               /\ slots[i].client_index = ranges[RangeOf(ranges, i)].client_index
               /\ slots[i].label = i - up[RangeOf(ranges, i) - 1] - 1
      BY <2>11 DEF expand_input_ranges
    <3> HIDE DEF slots, total, up, M
    <3> QED
      BY <2>12, <2>13, <3>1, ZenonT(30)
  <2>15. built # Error
    <3>1. DOMAIN built = {"clients", "ranges", "output_clients"} /\ DOMAIN Error = {"refused"}
      BY <2>7, ZenonT(30) DEF Error
    <3> QED
      BY <3>1, ZenonT(30)
  <2>16. /\ DOMAIN SlotClients(built) = 1..total
         /\ \A i \in 1..total : SlotClients(built)[i] = bindings[at[RangeOf(ranges, i)]].client
    <3>1. SlotClients(built) = [i \in DOMAIN slots |-> clients[slots[i].client_index + 1]]
      <4> HIDE DEF clients, ranges, M
      <4> QED
        BY <2>11, ZenonT(30) DEF SlotClients
    <3>2. \A i \in 1..total :
            clients[slots[i].client_index + 1] = bindings[at[RangeOf(ranges, i)]].client
      <4>1. \A k \in 1..M : clients[k] = bindings[at[k]].client
        OBVIOUS
      <4> HIDE DEF slots, ranges, total, up, clients, M
      <4>2. \A i \in 1..total : RangeOf(ranges, i) \in 1..M
        BY <2>12, SMTT(30)
      <4>3. \A i \in 1..total : slots[i].client_index + 1 = RangeOf(ranges, i)
        BY <2>4, <2>14, <4>2, SMTT(30)
      <4> QED
        BY <4>1, <4>2, <4>3
    <3> HIDE DEF slots, total, clients, ranges
    <3> QED
      BY <2>14, <3>1, <3>2, ZenonT(30)
  <2>17. ValidAssignment(built, Len(slots))
    <3>1. Len(slots) = total
      <4> HIDE DEF ranges
      <4>1. slots = [i \in 1..total |-> slots[i]]
        BY <2>11, SMTT(30) DEF expand_input_ranges
      <4> HIDE DEF slots, total
      <4> QED
        BY <2>12, <4>1, SMTT(30)
    <3>2. Len(clients) = M /\ DOMAIN ranges = 1..M
      <4> HIDE DEF M
      <4> QED
        BY <2>4
    <3>3. \A k \in 1..M : k - 1 < M
      <4> HIDE DEF M
      <4> QED
        BY <2>4, SMTT(30)
    <3> HIDE DEF M, slots, ranges, clients
    <3> QED
      BY <2>13, <2>11, <3>1, <3>2, <3>3, SMTT(30) DEF ValidAssignment
  <2>18. ASSUME NEW b \in DOMAIN bindings
         PROVE  /\ {slots[i].label : i \in Of(bindings[b].client)} = 0..Schema(b).inputs - 1
                /\ \A i, j \in Of(bindings[b].client) : slots[i].label - slots[j].label = i - j
    <3> DEFINE mine == Of(bindings[b].client)
    <3> HIDE DEF M, slots, total, up, clients, ranges, output_clients, Schema
    <3>1. b \in 1..B /\ Schema(b).inputs \in Nat
      BY <2>1, <2>2, <2>18, SMTT(30) DEF Schemas
    <3>2. mine = {i \in 1..total : at[RangeOf(ranges, i)] = b}
      <4>1. \A i \in 1..total : at[RangeOf(ranges, i)] \in 1..B
        BY <2>8, <2>12, ZenonT(30)
      <4>2. \A i \in 1..total : SlotClients(built)[i] = bindings[b].client
                               <=> at[RangeOf(ranges, i)] = b
        BY <2>3, <2>16, <3>1, <4>1, ZenonT(30)
      <4> QED
        BY <2>14, <4>2, SMTT(30)
    <3>3. CASE Schema(b).inputs = 0
      <4>1. mine = {}
        <5>1. ~(Schema(b).inputs > 0)
          BY <3>3
        <5>2. ~\E k \in 1..M : at[k] = b
          BY <2>8, <3>1, <5>1
        <5> QED
          BY <2>12, <3>2, <5>2, Zenon
      <4> HIDE DEF mine
      <4>2. 0..Schema(b).inputs - 1 = {}
        BY <3>3
      <4>3. {slots[i].label : i \in mine} = {}
        BY <4>1, ZenonT(30)
      <4> QED
        BY <4>1, <4>2, <4>3 DEF mine
    <3>4. CASE Schema(b).inputs > 0
      <4>1. PICK k \in 1..M : at[k] = b
        BY <2>8, <3>1, <3>4
      <4> DEFINE from == up[k - 1]
                 count == Schema(b).inputs
      <4>2. k - 1 \in 0..M /\ k \in 0..M
        BY <2>4, SMTT(30)
      <4>3. from \in Nat /\ up[k] = from + count /\ from + count <= total
        <5>1. up[k] = up[k - 1] + ranges[k].count /\ up[k] <= total
          BY <2>12, ZenonT(30)
        <5>2. ranges[k].count = count
          BY <2>13, <4>1
        <5> QED
          BY <2>12, <4>2, <5>1, <5>2, ZenonT(30)
      <4>4. \A i \in 1..total : at[RangeOf(ranges, i)] = b <=> from < i /\ i <= from + count
        <5>1. \A i \in 1..total : at[RangeOf(ranges, i)] = b <=> RangeOf(ranges, i) = k
          BY <2>8, <2>12, <4>1, Zenon
        <5> QED
          BY <2>12, <4>3, <5>1
      <4>5. \A i : i \in mine <=> i \in (from + 1)..(from + count)
        <5> HIDE DEF mine, from, count
        <5>1. \A i : i \in mine <=> i \in 1..total /\ from < i /\ i <= from + count
          BY <3>2, <4>4
        <5>2. count \in Nat
          BY <3>1 DEF count
        <5>3. total \in Nat
          BY <2>12
        <5> QED
          BY <4>3, <5>1, <5>2, <5>3, SMTT(30)
      <4>6. \A i \in mine : slots[i].label = i - from - 1
        <5> TAKE i \in mine
        <5>1. i \in 1..total /\ at[RangeOf(ranges, i)] = b
          BY <3>2, SMTT(30)
        <5>2. RangeOf(ranges, i) = k
          BY <2>8, <2>12, <4>1, <5>1
        <5> QED
          BY <2>14, <5>1, <5>2, ZenonT(30)
      <4> HIDE DEF mine, from, count
      <4>7. {slots[i].label : i \in mine} = 0..count - 1
        <5>1. count \in Nat
          BY <3>1 DEF count
        <5>2. \A i \in mine : slots[i].label \in 0..count - 1
          BY <4>3, <4>5, <4>6, <5>1
        <5>3. \A l \in 0..count - 1 : \E i \in mine : slots[i].label = l
          <6> TAKE l \in 0..count - 1
          <6>1. PICK i : i = from + l + 1
            OBVIOUS
          <6>2. i \in mine /\ i - from - 1 = l
            BY <4>3, <4>5, <5>1, <6>1, SMTT(30)
          <6>3. slots[i].label = l
            BY <4>6, <6>2
          <6> QED
            BY <6>2, <6>3
        <5> QED
          BY <5>2, <5>3, SMTT(30)
      <4>8. \A i, j \in mine : slots[i].label - slots[j].label = i - j
        <5> TAKE i, j \in mine
        <5>1. i \in Int /\ j \in Int
          BY <4>3, <4>5, SMTT(30)
        <5> QED
          BY <4>3, <4>6, <5>1, SMTT(30)
      <4> QED
        BY <4>7, <4>8 DEF mine, count
    <3> QED
      BY <3>1, <3>3, <3>4
  <2> HIDE DEF slots, clients, ranges, output_clients, total, up, M, Schema
  <2>19. ASSUME NEW b \in DOMAIN bindings
         PROVE  Schema(b).outputs > 0 <=>
                  bindings[b].client \in
                    {built.output_clients[k] : k \in DOMAIN built.output_clients}
    BY <2>1, <2>9, <2>11, SMTT(30)
  <2>20. /\ ValidAssignment(built, Len(slots))
         /\ \A b \in DOMAIN bindings :
              /\ {slots[i].label : i \in Of(bindings[b].client)} = 0..Schema(b).inputs - 1
              /\ \A i, j \in Of(bindings[b].client) : slots[i].label - slots[j].label = i - j
              /\ Schema(b).outputs > 0 <=>
                   bindings[b].client \in
                     {built.output_clients[k] : k \in DOMAIN built.output_clients}
    <3> HIDE DEF Of
    <3> QED
      BY <2>17, <2>18, <2>19
  <2>21. AsBound(built, manifest, bindings)
    BY <2>20, Zenon DEF AsBound, Schema, slots
  <2> QED
    BY <2>15, <2>21 DEF LayoutAsBound, built
<1> QED
  BY <1>1, <1>2

LEMMA LayoutOf ==
  ASSUME NEW l \in Layouts
  PROVE  LayoutAsBound(l.manifest, l.bindings)
<1>1. /\ l.manifest \in Seq(Schemas(Nat))
      /\ l.bindings \in Seq(Bound(Nat, Client))
  BY LayoutsAssumption, Zenon DEF Schemas, Bound
<1> QED
  BY <1>1, LayoutsBound, Zenon

\* Whatever layouts run-coord is given, each is as bound or refused for a reason.
THEOREM LayoutsAlwaysBound == HonestSpec => []LayoutsAsBound
<1>1. LayoutsAsBound
  BY LayoutOf, Zenon DEF LayoutsAsBound
<1> QED
  BY <1>1, PTL

\* The masked inputs of an execution without an empty slot are those of the clients
\* that the registration assigns the slots to.
LEMMA FilledAsAssigned ==
  ASSUME IInv, AllInputsSubmitted, Len(input_assignments) = n_inputs, NEW i \in Index
  PROVE  i + 1 \in 1..n_inputs /\ masked_inputs[i] = input_assignments[i + 1]
<1>1. i + 1 \in 1..n_inputs /\ 1..n_inputs = DOMAIN input_assignments
  BY InputsAssumption DEF Index
<1>2. input_assignments[i + 1] \in Client /\ AssignedClient(i) = input_assignments[i + 1]
  BY <1>1, InputsAssumption DEF AssignedClient
<1>3. masked_inputs[i] # None /\ masked_inputs[i] = reserved_indices[i]
  BY DEF AllInputsSubmitted, IInv, InputProvenance
<1>4. reserved_indices[i] = AssignedClient(i)
  BY <1>2, <1>3, InputsAssumption DEF IInv, InputProvenance
<1> QED
  BY <1>1, <1>2, <1>3, <1>4

\* From any manifest to the program, with any number of clients, inputs and parties,
\* no more than t of these faulty: the program runs on exactly the inputs that the
\* manifest has for each client, from that client (build_input_assignment,
\* expand_input_ranges, reserve_mask_indices, submit_masked_inputs, try_advance).
THEOREM ProgramInputs == HonestSpec => []InputsAsBound
<1>1. IInv /\ NoTruncatedRun => InputsAsBound
  <2> SUFFICES ASSUME IInv, AllInputsSubmitted, NEW e \in Expected
               PROVE  LET given == {i \in Index : masked_inputs[i] = e.client}
                      IN  /\ {e.slots[i + 1].label : i \in given} = 0..e.inputs - 1
                          /\ \A i, j \in given :
                               e.slots[i + 1].label - e.slots[j + 1].label = i - j
    BY Zenon DEF NoTruncatedRun, InputsAsBound
  <2>0. PICK l \in Registered : \E b \in DOMAIN l.bindings :
          e = [client |-> l.bindings[b].client,
               inputs |-> SchemaOf(l.manifest, l.bindings[b].client_slot).inputs,
               slots  |-> expand_input_ranges(
                            build_input_assignment(l.manifest, l.bindings).ranges)]
    BY Zenon DEF Expected
  <2>1. PICK b \in DOMAIN l.bindings :
          e = [client |-> l.bindings[b].client,
               inputs |-> SchemaOf(l.manifest, l.bindings[b].client_slot).inputs,
               slots  |-> expand_input_ranges(
                            build_input_assignment(l.manifest, l.bindings).ranges)]
    BY <2>0, Zenon
  <2> DEFINE built == build_input_assignment(l.manifest, l.bindings)
             slots == expand_input_ranges(built.ranges)
             clients == SlotClients(built)
             c == l.bindings[b].client
             inputs == SchemaOf(l.manifest, l.bindings[b].client_slot).inputs
             Of == {j \in DOMAIN slots : clients[j] = c}
             given == {i \in Index : masked_inputs[i] = c}
  <2>2. /\ built # Error /\ n_inputs = TotalInputs(built.ranges)
        /\ input_assignments = clients
        /\ l \in Layouts
    BY DEF Registered
  <2>3. AsBound(built, l.manifest, l.bindings)
    BY <2>2, LayoutOf, Zenon DEF LayoutAsBound
  <2>4. /\ {slots[j].label : j \in Of} = 0..inputs - 1
        /\ \A i, j \in Of : slots[i].label - slots[j].label = i - j
    BY <2>3, Zenon DEF AsBound
  <2>5. DOMAIN slots = 1..n_inputs
    BY <2>2, Zenon DEF expand_input_ranges
  <2>6. DOMAIN clients = DOMAIN slots
    BY Zenon DEF SlotClients
  <2>7. Len(input_assignments) = n_inputs
    BY <2>2, <2>5, <2>6, InputsAssumption
  <2>8. e.client = c /\ e.inputs = inputs /\ e.slots = slots
    BY <2>1, Zenon
  <2> HIDE DEF built, slots, clients, c, inputs
  <2>9. \A i \in Index : i + 1 \in 1..n_inputs /\ masked_inputs[i] = clients[i + 1]
    BY <2>2, <2>7, FilledAsAssigned, Zenon
  <2>10. \A i \in given : i \in Int /\ i + 1 \in Of
    BY <2>5, <2>9 DEF Index
  <2>11. \A j \in Of : j - 1 \in given /\ (j - 1) + 1 = j
    <3> TAKE j \in Of
    <3>1. j \in 1..n_inputs /\ clients[j] = c
      BY <2>5
    <3>2. j - 1 \in Index /\ (j - 1) + 1 = j
      BY <3>1, InputsAssumption DEF Index
    <3> QED
      BY <2>9, <3>1, <3>2
  <2>12. {slots[i + 1].label : i \in given} = {slots[j].label : j \in Of}
    <3> HIDE DEF given, Of
    <3> QED
      BY <2>10, <2>11
  <2>13. \A i, j \in given : slots[i + 1].label - slots[j + 1].label = i - j
    <3> TAKE i, j \in given
    <3>1. i \in Int /\ j \in Int /\ i + 1 \in Of /\ j + 1 \in Of
      BY <2>10, Zenon
    <3>2. slots[i + 1].label - slots[j + 1].label = (i + 1) - (j + 1)
      BY <2>4, <3>1, Zenon
    <3> QED
      BY <3>1, <3>2
  <2> QED
    BY <2>4, <2>8, <2>12, <2>13, ZenonT(30)
<1>2. HonestSpec => []IInv
  BY HonestStep, InductiveInvariant, PTL DEF HonestSpec, Spec
<1> QED
  BY <1>1, <1>2, NoTruncation, PTL
=============================================================================
