--------------------------- MODULE EventFeedsProofs ---------------------------
(***************************************************************************)
(* Subscriptions lose, repeat and reorder nothing, for any number of       *)
(* subscribers and waiters.  The execution under the feeds is the one of   *)
(* CoordinatorExecution, whose theorems carry over.  A client that waits   *)
(* for all slots by counting what it receives has them all when it has     *)
(* counted enough, because no slot is announced twice (Owned).             *)
(*                                                                         *)
(* For the same reason an honest execution is never stuck: as long as a    *)
(* wait has not counted enough there is a slot that is free or not filled, *)
(* and the client it is assigned to is not refused (HonestInv).            *)
(***************************************************************************)
EXTENDS EventFeeds, CoordinatorExecutionProofs, SequenceTheorems

\* Every step of the feeds is a step of the execution or leaves it alone.
LEMMA FeedsStep == [NextFeeds]_allVars => [Next]_vars
<1> SUFFICES ASSUME [NextFeeds]_allVars PROVE [Next]_vars
  OBVIOUS
<1>1. CASE UNCHANGED allVars
  BY <1>1 DEF allVars
<1>2. CASE \E p \in mpc_nodes, next \in ORDERED_ROUNDS : FeedTransition(p, next)
  BY <1>2 DEF FeedTransition, Next
<1>3. CASE FeedTransitionsDelivered
  BY <1>3 DEF FeedTransitionsDelivered, Next
<1>4. CASE \E c \in Client, batch \in Batches : FeedReserve(c, batch)
  BY <1>4 DEF FeedReserve, Next
<1>5. CASE \E c \in Client, batch \in Batches : FeedSubmit(c, batch)
  BY <1>5 DEF FeedSubmit, Next
<1>6. CASE FeedSent
  BY <1>6, ZenonT(30) DEF FeedSent, Next
<1>7. CASE \E s \in Subscriber : \/ sub_reserved_indices(s)
                                 \/ sub_masked_inputs(s)
                                 \/ sub_assigned_reserved_indices(s)
                                 \/ sub_assigned_masked_inputs(s)
  BY <1>7 DEF sub_reserved_indices, sub_masked_inputs, sub_assigned_reserved_indices,
    sub_assigned_masked_inputs, Subscribe
<1>8. CASE \E w \in Waiter, r \in ORDERED_ROUNDS : SubRound(w, r)
  BY <1>8 DEF SubRound
<1> QED
  BY <1>1, <1>2, <1>3, <1>4, <1>5, <1>6, <1>7, <1>8, ZenonT(30) DEF NextFeeds

\* The execution under the feeds keeps its invariant.
LEMMA FeedsIInv == SpecFeeds => []IInv
<1>1. InitFeeds => Init
  BY DEF InitFeeds
<1> QED
  BY <1>1, FeedsStep, InitIInv, NextIInv, PTL DEF SpecFeeds

\* So it implements InputCommitment with its feeds too.
THEOREM FeedsKeepCommitment == SpecFeeds => KeepsCommitment
<1>1. InitFeeds => Init
  BY DEF InitFeeds
<1> QED
  BY <1>1, FeedsStep, CommitmentKept, PTL DEF SpecFeeds, Spec

-----------------------------------------------------------------------------
\* A round up to the current one was entered or is one that was skipped.
Passed ==
  \A r \in ORDERED_ROUNDS : r <= round => r \in trans_events \/ Skipped(r)

LEMMA PassedStep == IInv /\ Passed /\ [Next]_vars => Passed'
<1> SUFFICES ASSUME IInv, Passed, [Next]_vars PROVE Passed'
  OBVIOUS
<1> DEFINE E == trans_events' \ trans_events
<1>1. round \in Round /\ round' \in Round /\ round <= round'
  BY RoundGrows
<1>2. CASE UNCHANGED vars
  BY <1>2 DEF Passed, Skipped, vars
<1>3. CASE EnteredInOrder
  <2>1. /\ trans_events' = trans_events \cup E
        /\ round' # round => round' \in E
        /\ \A x \in E : round < x /\ x <= round'
        /\ \A x \in E : \E y \in E \cup {round} : Follows(y, x)
    BY <1>3 DEF EnteredInOrder
  <2>2. \A x \in trans_events : x \in Int /\ x <= round
    BY DEF IInv, TypeOK, QuorumBacked, ORDERED_ROUNDS, Preprocessing, ProgramFinished
  <2> HIDE DEF E
  <2> SUFFICES ASSUME NEW r \in ORDERED_ROUNDS, r <= round', r \notin trans_events'
               PROVE  Skipped(r)'
    BY DEF Passed
  <2>3. CASE r <= round
    <3>1. Skipped(r)
      BY <2>1, <2>3 DEF Passed
    <3>2. InputCollection \notin E \/ round < MPCExecution
      BY <1>1, <2>1 DEF Round, Idle, ProgramFinished, InputCollection, MPCExecution
    <3> QED
      BY <1>1, <2>1, <3>1, <3>2 DEF Skipped, Round, Idle, ProgramFinished, MPCExecution
  <2>4. CASE r > round
    <3>1. \A x \in E :
            \/ x - 1 \in E \cup {round}
            \/ x = 4 /\ 1 \in E \cup {round}
            \/ x = 6 /\ 4 \in E \cup {round}
      <4> SUFFICES ASSUME NEW x \in E
                   PROVE  \/ x - 1 \in E \cup {round}
                          \/ x = 4 /\ 1 \in E \cup {round}
                          \/ x = 6 /\ 4 \in E \cup {round}
        OBVIOUS
      <4>1. PICK y \in E \cup {round} : Follows(y, x)
        BY <2>1
      <4> QED
        BY <4>1 DEF Follows, round_before, skips_empty_input_rounds,
          skips_empty_output_rounds, Preprocessing, MPCExecution, ProgramFinished
    <3>2. round' \in E /\ r \notin E
      BY <1>1, <2>1, <2>4 DEF Round, Idle, ProgramFinished, ORDERED_ROUNDS, Preprocessing
    <3>3. round \in 0..6 /\ round' \in 0..6 /\ r \in 1..6
      BY <1>1 DEF Round, Idle, ProgramFinished, ORDERED_ROUNDS, Preprocessing
    <3>4. r \in {2, 3} /\ 3 \in trans_events' => 3 \in E
      BY <2>1, <2>2, <3>2, <3>3, <2>4
    <3>5. \/ r = 5 /\ round' = 6
          \/ r \in {2, 3} /\ 3 \notin E /\ round' >= 4
      BY <2>4, <3>1, <3>2, <3>3
    <3> QED
      BY <3>4, <3>5 DEF Skipped, ProgramFinished, OutputDistribution, MPCExecution,
        InputCollection, InputMaskReservation
  <2> QED
    BY <1>1, <2>3, <2>4 DEF Round, ORDERED_ROUNDS, Idle, Preprocessing, ProgramFinished
<1> QED
  BY <1>2, <1>3, EnteredInOrderStep

LEMMA PassedInvariant == SpecFeeds => []Passed
<1>1. InitFeeds => Passed
  BY DEF InitFeeds, Init, Passed, ORDERED_ROUNDS, Idle, Preprocessing, ProgramFinished
<1> QED
  BY <1>1, PassedStep, FeedsStep, FeedsIInv, PTL DEF SpecFeeds

-----------------------------------------------------------------------------
\* Where a waiter is, and what has happened to the round it waits for.
WaiterInv ==
  /\ awaits \in [Waiter -> Round]
  /\ sinks \in [ORDERED_ROUNDS -> SUBSET Waiter]
  /\ announcing \subseteq Waiter
  /\ told \subseteq Waiter
  /\ \A w \in Waiter :
       /\ \A r \in ORDERED_ROUNDS : w \in sinks[r] =>
            awaits[w] = r /\ w \notin announcing \cup told /\ r \notin trans_events
       /\ w \in announcing => w \notin told
       /\ w \in announcing \cup told => awaits[w] \in trans_events

\* A step that enters rounds takes out exactly the sinks of those rounds.
LEMMA TakeRoundSinksStep ==
  ASSUME IInv, WaiterInv, [Next]_vars, TakeRoundSinks
  PROVE  WaiterInv'
<1> DEFINE E == trans_events' \ trans_events
<1>1. /\ E \subseteq ORDERED_ROUNDS
      /\ trans_events' = trans_events \cup E
  <2>1. IInv'
    BY NextIInv
  <2>2. trans_events \subseteq trans_events'
    BY EnteredInOrderStep DEF EnteredInOrder, vars
  <2> QED
    BY <2>1, <2>2 DEF IInv, TypeOK
<1>2. /\ announcing' = announcing \cup UNION {sinks[r] : r \in E}
      /\ sinks' = [r \in ORDERED_ROUNDS |-> IF r \in E THEN {} ELSE sinks[r]]
      /\ awaits' = awaits /\ told' = told
  BY DEF TakeRoundSinks
<1> HIDE DEF E
<1>3. \A w : w \in announcing' <=> w \in announcing \/ \E r \in E : w \in sinks[r]
  BY <1>2
<1>4. announcing' \subseteq Waiter
  BY <1>1, <1>3 DEF WaiterInv
<1>5. sinks' \in [ORDERED_ROUNDS -> SUBSET Waiter]
  BY <1>2 DEF WaiterInv
<1>6. ASSUME NEW w \in Waiter, NEW r \in ORDERED_ROUNDS, w \in sinks'[r]
      PROVE  awaits'[w] = r /\ w \notin announcing' \cup told' /\ r \notin trans_events'
  <2>1. r \notin E /\ w \in sinks[r]
    BY <1>2, <1>6
  <2>2. awaits[w] = r /\ w \notin announcing \cup told /\ r \notin trans_events
    BY <2>1 DEF WaiterInv
  <2>3. \A x \in E : w \notin sinks[x]
    BY <1>1, <2>1, <2>2, ZenonT(30) DEF WaiterInv
  <2> QED
    BY <1>1, <1>2, <1>3, <2>1, <2>2, <2>3, ZenonT(30)
<1>7. ASSUME NEW w \in Waiter
      PROVE  /\ w \in announcing' => w \notin told'
             /\ w \in announcing' \cup told' => awaits'[w] \in trans_events'
  <2>1. CASE w \in announcing \/ w \notin announcing'
    BY <1>1, <1>2, <2>1, ZenonT(30) DEF WaiterInv
  <2>2. CASE \E r \in E : w \in sinks[r]
    BY <1>1, <1>2, <2>2 DEF WaiterInv
  <2> QED
    BY <1>3, <2>1, <2>2, ZenonT(30)
<1> QED
  BY <1>2, <1>4, <1>5, <1>6, <1>7, ZenonT(30) DEF WaiterInv

LEMMA WaiterStep == IInv /\ WaiterInv /\ [NextFeeds]_allVars => WaiterInv'
<1> SUFFICES ASSUME IInv, WaiterInv, [NextFeeds]_allVars PROVE WaiterInv'
  OBVIOUS
<1>1. CASE TakeRoundSinks
  BY <1>1, FeedsStep, TakeRoundSinksStep, ZenonT(30)
<1>2. CASE UNCHANGED <<roundVars, trans_events>>
  BY <1>2 DEF WaiterInv, roundVars
<1>3. CASE FeedTransitionsDelivered
  <2>1. PICK ok \in SUBSET announcing : told' = told \cup ok
    BY <1>3 DEF FeedTransitionsDelivered
  <2>2. /\ announcing' = {} /\ awaits' = awaits /\ sinks' = sinks
        /\ trans_events' = trans_events
    BY <1>3 DEF FeedTransitionsDelivered, TransitionsDelivered
  <2> QED
    BY <2>1, <2>2 DEF WaiterInv
<1>4. ASSUME NEW w \in Waiter, NEW r \in ORDERED_ROUNDS, SubRound(w, r)
      PROVE  WaiterInv'
  <2>1. /\ awaits[w] = Idle /\ awaits' = [awaits EXCEPT ![w] = r]
        /\ announcing' = announcing /\ trans_events' = trans_events
    BY <1>4 DEF SubRound, vars
  <2>2. /\ Idle \notin ORDERED_ROUNDS
        /\ trans_events \subseteq ORDERED_ROUNDS
        /\ r \in Round
    BY DEF IInv, TypeOK, ORDERED_ROUNDS, Round, Idle, Preprocessing, ProgramFinished
  <2>3. /\ w \notin announcing \cup told
        /\ \A x \in ORDERED_ROUNDS : w \notin sinks[x]
    BY <2>1, <2>2, ZenonT(30) DEF WaiterInv
  <2>4. CASE r \in trans_events
    <3>1. PICK ok \in SUBSET {w} : told' = told \cup ok /\ sinks' = sinks
      BY <1>4, <2>4 DEF SubRound
    <3> QED
      BY <2>1, <2>2, <2>3, <2>4, <3>1, ZenonT(30) DEF WaiterInv
  <2>5. CASE r \notin trans_events
    <3>1. sinks' = [sinks EXCEPT ![r] = @ \cup {w}] /\ told' = told
      BY <1>4, <2>5, ZenonT(30) DEF SubRound
    <3> QED
      BY <2>1, <2>2, <2>3, <2>5, <3>1, ZenonT(30) DEF WaiterInv
  <2> QED
    BY <2>4, <2>5, ZenonT(30)
<1>5. \/ TakeRoundSinks
      \/ UNCHANGED <<roundVars, trans_events>>
      \/ FeedTransitionsDelivered
      \/ \E w \in Waiter, r \in ORDERED_ROUNDS : SubRound(w, r)
  <2>1. CASE \E c \in Client, batch \in Batches : FeedReserve(c, batch)
    BY <2>1 DEF FeedReserve, ReserveMaskIndices, roundVars
  <2>2. CASE \E c \in Client, batch \in Batches : FeedSubmit(c, batch)
    BY <2>2, ZenonT(30) DEF FeedSubmit, SubmitMaskedInputs, roundVars
  <2>3. CASE \E s \in Subscriber, f \in Feed : Subscribe(s, f)
    BY <2>3 DEF Subscribe, vars, roundVars
  <2> QED
    BY <2>1, <2>2, <2>3, ZenonT(30) DEF NextFeeds, allVars, vars, FeedTransition, FeedSent, Feed,
      sub_reserved_indices, sub_masked_inputs, sub_assigned_reserved_indices,
      sub_assigned_masked_inputs
<1> QED
  BY <1>1, <1>2, <1>3, <1>4, <1>5, ZenonT(30)

LEMMA WaiterInvariant == SpecFeeds => []WaiterInv
<1>1. InitFeeds => WaiterInv
  BY DEF InitFeeds, WaiterInv, ORDERED_ROUNDS, Round, Idle, Preprocessing, ProgramFinished
<1> QED
  BY <1>1, WaiterStep, FeedsIInv, PTL DEF SpecFeeds

\* Nobody is left waiting for a round that the execution went through, whether
\* it subscribed before, while or after the round was announced.
THEOREM RoundWaiters == SpecFeeds => []WaitersNotLost
<1>1. IInv /\ Passed /\ WaiterInv => WaitersNotLost
  <2> SUFFICES ASSUME IInv, Passed, WaiterInv,
                      NEW w \in Waiter, NEW r \in ORDERED_ROUNDS, w \in sinks[r]
               PROVE  r > round \/ Skipped(r)
    BY DEF WaitersNotLost, WaiterInv
  <2> QED
    BY DEF WaiterInv, Passed, IInv, TypeOK, Round, ORDERED_ROUNDS, Idle, Preprocessing,
      ProgramFinished
<1> QED
  BY <1>1, FeedsIInv, PassedInvariant, WaiterInvariant, PTL

-----------------------------------------------------------------------------
\* Where the sink of a subscription is.
SinkInv ==
  /\ feed \in [Subscriber -> Feed \cup {None}]
  /\ feed_sinks \in [Feed -> SUBSET Subscriber]
  /\ taken \subseteq Subscriber
  /\ closed \subseteq Subscriber
  /\ \A f \in Feed : \A s \in feed_sinks[f] : feed[s] = f
  /\ \A s \in taken : feed[s] \in {"masked", "assigned_masked"}
  /\ \A s \in closed : feed[s] # None
  /\ taken # {} => delivery = "submitting"
  /\ NoSinkForgotten

\* While nothing is being submitted no sink is taken out.
LEMMA NothingTaken ==
  ASSUME SinkInv, delivery # "submitting" PROVE taken = {}
BY DEF SinkInv

LEMMA SinkSubscribe ==
  ASSUME SinkInv, NEW s \in Subscriber, NEW f \in Feed, Subscribe(s, f)
  PROVE  SinkInv'
<1>1. /\ feed[s] = None
      /\ feed' = [feed EXCEPT ![s] = f]
      /\ taken' = taken /\ delivery' = delivery
      /\ \/ feed_sinks' = [feed_sinks EXCEPT ![f] = @ \cup {s}] /\ closed' = closed
         \/ closed' = closed \cup {s} /\ feed_sinks' = feed_sinks
  BY DEF Subscribe, vars
<1>2. s \notin taken /\ s \notin closed /\ \A g \in Feed : s \notin feed_sinks[g]
  BY <1>1, FeedAssumption DEF SinkInv, Feed
<1>3. NoSinkForgotten'
  <2> SUFFICES ASSUME NEW x \in Subscriber, feed'[x] # None
               PROVE  \/ x \in feed_sinks'[feed'[x]] \ (taken' \cup closed')
                      \/ x \in taken' \ (feed_sinks'[feed'[x]] \cup closed')
                      \/ x \in closed' \ (feed_sinks'[feed'[x]] \cup taken')
    BY DEF NoSinkForgotten
  <2>1. CASE x = s
    BY <1>1, <1>2, <2>1 DEF SinkInv
  <2>2. CASE x # s
    BY <1>1, <2>2 DEF SinkInv, NoSinkForgotten
  <2> QED
    BY <2>1, <2>2
<1> QED
  BY <1>1, <1>2, <1>3, FeedAssumption DEF SinkInv

LEMMA SinkReserve ==
  ASSUME SinkInv, NEW c \in Client, NEW batch \in Batches, FeedReserve(c, batch)
  PROVE  SinkInv'
<1> DEFINE more == AssignedEvents(c, batch)
           live == feed_sinks["reserved"]
           liveAssigned == IF more = <<>> THEN {} ELSE feed_sinks["assigned_reserved"]
<1>1. PICK ok \in SUBSET (live \cup liveAssigned) :
        /\ feed_sinks' = [feed_sinks EXCEPT
             !["reserved"] = @ \cap ok,
             !["assigned_reserved"] = IF more = <<>> THEN @ ELSE @ \cap ok]
        /\ closed' = closed \cup ((live \cup liveAssigned) \ ok)
  BY Zenon DEF FeedReserve
<1>2. feed' = feed /\ taken' = taken /\ delivery' = delivery
  BY DEF FeedReserve, ReserveMaskIndices
<1>3. /\ feed_sinks'["masked"] = feed_sinks["masked"]
      /\ feed_sinks'["assigned_masked"] = feed_sinks["assigned_masked"]
      /\ feed_sinks'["reserved"] = live \cap ok
      /\ feed_sinks'["assigned_reserved"] =
           IF more = <<>> THEN feed_sinks["assigned_reserved"]
           ELSE feed_sinks["assigned_reserved"] \cap ok
      /\ feed_sinks' \in [Feed -> SUBSET Subscriber]
  BY <1>1 DEF SinkInv, Feed
<1>4. \A f \in Feed : \A s \in feed_sinks'[f] : s \in feed_sinks[f]
  BY <1>3 DEF Feed
<1> HIDE DEF more
<1>5. NoSinkForgotten'
  <2> SUFFICES ASSUME NEW x \in Subscriber, feed[x] # None
               PROVE  \/ x \in feed_sinks'[feed[x]] \ (taken \cup closed')
                      \/ x \in taken \ (feed_sinks'[feed[x]] \cup closed')
                      \/ x \in closed' \ (feed_sinks'[feed[x]] \cup taken)
    BY <1>2 DEF NoSinkForgotten
  <2>1. /\ feed[x] \in Feed
        /\ \A f \in Feed : x \in feed_sinks[f] => feed[x] = f
    BY DEF SinkInv
  <2>2. \/ x \in feed_sinks[feed[x]] \ (taken \cup closed)
        \/ x \in taken \ (feed_sinks[feed[x]] \cup closed)
        \/ x \in closed \ (feed_sinks[feed[x]] \cup taken)
    BY DEF SinkInv, NoSinkForgotten
  <2>3. CASE feed[x] = "reserved"
    BY <1>1, <1>3, <2>1, <2>2, <2>3 DEF Feed
  <2>4. CASE feed[x] = "assigned_reserved"
    BY <1>1, <1>3, <2>1, <2>2, <2>4, ZenonT(30) DEF Feed
  <2>5. CASE feed[x] \in {"masked", "assigned_masked"}
    BY <1>1, <1>3, <2>1, <2>2, <2>5, ZenonT(30) DEF Feed
  <2> QED
    BY <2>1, <2>3, <2>4, <2>5, ZenonT(30) DEF Feed
<1>6. \A s \in closed' : s \in Subscriber /\ feed[s] # None
  BY <1>1, FeedAssumption DEF SinkInv, Feed
<1> QED
  BY <1>1, <1>2, <1>3, <1>4, <1>5, <1>6 DEF SinkInv

LEMMA SinkSubmit ==
  ASSUME SinkInv, NEW c \in Client, NEW batch \in Batches, FeedSubmit(c, batch)
  PROVE  SinkInv'
<1> DEFINE more == AssignedEvents(c, batch)
<1>1. /\ taken' = feed_sinks["masked"] \cup
                  (IF more = <<>> THEN {} ELSE feed_sinks["assigned_masked"])
      /\ feed_sinks' = [feed_sinks EXCEPT
           !["masked"] = {},
           !["assigned_masked"] = IF more = <<>> THEN @ ELSE {}]
      /\ feed' = feed /\ closed' = closed
      /\ delivery = "free" /\ delivery' = "submitting"
  BY DEF FeedSubmit, SubmitMaskedInputs
<1> HIDE DEF more
<1>2. taken = {}
  BY <1>1, NothingTaken
<1>3. /\ feed_sinks'["masked"] = {}
      /\ feed_sinks'["assigned_masked"] =
           IF more = <<>> THEN feed_sinks["assigned_masked"] ELSE {}
      /\ feed_sinks'["reserved"] = feed_sinks["reserved"]
      /\ feed_sinks'["assigned_reserved"] = feed_sinks["assigned_reserved"]
      /\ feed_sinks' \in [Feed -> SUBSET Subscriber]
  BY <1>1 DEF SinkInv, Feed
<1>4. \A f \in Feed : \A s \in feed_sinks'[f] : s \in feed_sinks[f]
  BY <1>3 DEF Feed
<1>5. NoSinkForgotten'
  <2> SUFFICES ASSUME NEW x \in Subscriber, feed[x] # None
               PROVE  \/ x \in feed_sinks'[feed[x]] \ (taken' \cup closed)
                      \/ x \in taken' \ (feed_sinks'[feed[x]] \cup closed)
                      \/ x \in closed \ (feed_sinks'[feed[x]] \cup taken')
    BY <1>1, Zenon DEF NoSinkForgotten
  <2>1. /\ feed[x] \in Feed
        /\ \A f \in Feed : x \in feed_sinks[f] => feed[x] = f
    BY DEF SinkInv
  <2>2. \/ x \in feed_sinks[feed[x]] \ closed
        \/ x \in closed \ feed_sinks[feed[x]]
    BY <1>2 DEF SinkInv, NoSinkForgotten
  <2>3. CASE feed[x] = "masked"
    BY <1>1, <1>3, <2>1, <2>2, <2>3 DEF Feed
  <2>4. CASE feed[x] = "assigned_masked"
    BY <1>1, <1>3, <2>1, <2>2, <2>4 DEF Feed
  <2>5. CASE feed[x] \in {"reserved", "assigned_reserved"}
    BY <1>1, <1>3, <2>1, <2>2, <2>5 DEF Feed
  <2> QED
    BY <2>1, <2>3, <2>4, <2>5 DEF Feed
<1>6. \A s \in taken' : s \in Subscriber /\ feed[s] \in {"masked", "assigned_masked"}
  BY <1>1 DEF SinkInv, Feed
<1> QED
  BY <1>1, <1>3, <1>4, <1>5, <1>6, ZenonT(30) DEF SinkInv

LEMMA SinkSent == ASSUME SinkInv, FeedSent PROVE SinkInv'
<1>1. PICK ok \in SUBSET taken :
        /\ feed_sinks' = [f \in Feed |-> feed_sinks[f] \cup {s \in ok : feed[s] = f}]
        /\ closed' = closed \cup (taken \ ok)
  BY DEF FeedSent
<1>2. feed' = feed /\ taken' = {}
  BY DEF FeedSent
<1>3. feed_sinks' \in [Feed -> SUBSET Subscriber]
  BY <1>1 DEF SinkInv
<1>4. NoSinkForgotten'
  <2> SUFFICES ASSUME NEW x \in Subscriber, feed[x] # None
               PROVE  \/ x \in feed_sinks'[feed[x]] \ closed'
                      \/ x \in closed' \ feed_sinks'[feed[x]]
    BY <1>2 DEF NoSinkForgotten
  <2>1. feed[x] \in Feed
    BY DEF SinkInv
  <2>2. \/ x \in feed_sinks[feed[x]] \ (taken \cup closed)
        \/ x \in taken \ (feed_sinks[feed[x]] \cup closed)
        \/ x \in closed \ (feed_sinks[feed[x]] \cup taken)
    BY DEF SinkInv, NoSinkForgotten
  <2>3. x \in feed_sinks'[feed[x]] <=> x \in feed_sinks[feed[x]] \cup ok
    BY <1>1, <2>1
  <2> QED
    BY <1>1, <2>2, <2>3
<1>5. \A s \in closed' : s \in Subscriber /\ feed[s] # None
  BY <1>1, FeedAssumption DEF SinkInv, Feed
<1> QED
  BY <1>1, <1>2, <1>3, <1>4, <1>5, ZenonT(30) DEF SinkInv

LEMMA SinkStep == SinkInv /\ [NextFeeds]_allVars => SinkInv'
<1> SUFFICES ASSUME SinkInv, [NextFeeds]_allVars PROVE SinkInv'
  OBVIOUS
<1>1. CASE UNCHANGED <<feedVars, delivery>>
  BY <1>1 DEF SinkInv, NoSinkForgotten, feedVars
<1>2. ASSUME UNCHANGED feedVars, delivery # "submitting" PROVE SinkInv'
  <2>1. taken = {}
    BY <1>2, NothingTaken
  <2> QED
    BY <1>2, <2>1 DEF SinkInv, NoSinkForgotten, feedVars
<1>3. ASSUME NEW p \in mpc_nodes, NEW next \in ORDERED_ROUNDS, FeedTransition(p, next)
      PROVE  SinkInv'
  BY <1>2, <1>3 DEF FeedTransition, Transition
<1>4. CASE FeedTransitionsDelivered
  BY <1>2, <1>4 DEF FeedTransitionsDelivered, TransitionsDelivered
<1>5. ASSUME NEW w \in Waiter, NEW r \in ORDERED_ROUNDS, SubRound(w, r)
      PROVE  SinkInv'
  BY <1>1, <1>5 DEF SubRound, vars
<1>6. ASSUME NEW s \in Subscriber,
             \/ sub_reserved_indices(s)
             \/ sub_masked_inputs(s)
             \/ sub_assigned_reserved_indices(s)
             \/ sub_assigned_masked_inputs(s)
      PROVE  \E f \in Feed : Subscribe(s, f)
  BY <1>6 DEF sub_reserved_indices, sub_masked_inputs, sub_assigned_reserved_indices,
    sub_assigned_masked_inputs, Feed
<1> QED
  BY <1>1, <1>3, <1>4, <1>5, <1>6, SinkSubscribe, SinkReserve, SinkSubmit, SinkSent, ZenonT(30)
    DEF NextFeeds, allVars, vars

LEMMA SinkInvariant == SpecFeeds => []SinkInv
<1>1. InitFeeds => SinkInv
  BY FeedAssumption DEF InitFeeds, SinkInv, NoSinkForgotten, Feed
<1> QED
  BY <1>1, SinkStep, PTL DEF SpecFeeds

\* A sink is in one place from the moment it is subscribed, and leaves the lists
\* only when a send to it fails.
THEOREM SinksKept == SpecFeeds => []NoSinkForgotten
<1>1. SinkInv => NoSinkForgotten
  BY DEF SinkInv
<1> QED
  BY <1>1, SinkInvariant, PTL

\* No masked input is on its way once MPCStarted is: the round a waiter is told
\* of has been entered, and it is not beyond InputCollection while a submission
\* holds the mutex.
THEOREM InputsComeFirst == SpecFeeds => []InputsBeforeMPCStarted
<1>1. IInv /\ WaiterInv /\ SinkInv => InputsBeforeMPCStarted
  <2> SUFFICES ASSUME IInv, WaiterInv, SinkInv, taken # {},
                      NEW w \in announcing \cup told, awaits[w] >= MPCExecution
               PROVE  FALSE
    BY DEF InputsBeforeMPCStarted
  <2>1. round = InputCollection
    BY DEF SinkInv, IInv, InputsAnnouncedBeforeMPC
  <2>2. awaits[w] \in trans_events
    BY DEF WaiterInv
  <2>3. awaits[w] <= round /\ awaits[w] \in ORDERED_ROUNDS
    BY <2>2 DEF IInv, TypeOK, QuorumBacked
  <2> QED
    BY <2>1, <2>3 DEF ORDERED_ROUNDS, Preprocessing, ProgramFinished, InputCollection,
      MPCExecution
<1> QED
  BY <1>1, FeedsIInv, WaiterInvariant, SinkInvariant, PTL

-----------------------------------------------------------------------------
BatchEvent == [client : Client, indices : Batches]

SlotEvent == [client : Client, index : Index]

Entry == BatchEvent \cup SlotEvent

Prefix(u, v) == Len(u) <= Len(v) /\ u = SubSeq(v, 1, Len(u))

LEMMA PrefixSelf == ASSUME NEW u \in Seq(Entry) PROVE Prefix(u, u)
BY SubSeqFull, LenProperties DEF Prefix

LEMMA PrefixGrows ==
  ASSUME NEW u \in Seq(Entry), NEW v \in Seq(Entry), NEW w \in Seq(Entry), Prefix(u, v)
  PROVE  Prefix(u, v \o w)
<1>1. /\ Len(u) \in Nat /\ Len(v) \in Nat /\ Len(w) \in Nat
      /\ Len(v \o w) = Len(v) + Len(w)
  BY LenProperties, ConcatProperties
<1>2. CASE Len(u) = 0
  <2>1. SubSeq(v \o w, 1, Len(u)) = <<>> /\ SubSeq(v, 1, Len(u)) = <<>>
    BY <1>2, SubSeqEmpty
  <2> QED
    BY <1>1, <2>1 DEF Prefix
<1>3. CASE Len(u) > 0
  <2>1. 1 \in 1..Len(v) /\ Len(u) \in 1..Len(v)
    BY <1>1, <1>3 DEF Prefix
  <2>2. SubSeq(v \o w, 1, Len(u)) = SubSeq(v, 1, Len(u))
    BY <2>1, SubSeqOfConcat1
  <2> QED
    BY <1>1, <2>2 DEF Prefix
<1> QED
  BY <1>1, <1>2, <1>3

LEMMA PrefixOf ==
  ASSUME NEW v \in Seq(Entry), NEW k \in 0..Len(v)
  PROVE  /\ SubSeq(v, 1, k) \in Seq(Entry)
         /\ Prefix(SubSeq(v, 1, k), v)
         /\ k = Len(v) => SubSeq(v, 1, k) = v
<1>1. Len(v) \in Nat /\ DOMAIN v = 1..Len(v)
  BY LenProperties
<1>2. \A i \in 1..k : v[i] \in Entry
  BY <1>1, ElementOfSeq
<1>3. k \in Int /\ 1 \in Int
  BY <1>1
<1>4. /\ SubSeq(v, 1, k) \in Seq(Entry)
      /\ Len(SubSeq(v, 1, k)) = IF 1 <= k THEN k - 1 + 1 ELSE 0
  BY <1>2, <1>3, SubSeqProperties
<1>5. Len(SubSeq(v, 1, k)) = k
  BY <1>1, <1>4
<1>6. k = Len(v) => SubSeq(v, 1, k) = v
  BY SubSeqFull
<1>7. Prefix(SubSeq(v, 1, k), v)
  BY <1>1, <1>5 DEF Prefix
<1> QED
  BY <1>4, <1>6, <1>7

\* The assigned form of a batch is empty or has an entry for each of its slots.
LEMMA AssignedEventsType ==
  ASSUME NEW c \in Client, NEW batch \in Batches
  PROVE  AssignedEvents(c, batch) \in Seq(SlotEvent)
<1>1. batch \in Seq(Index)
  BY BatchesAssumption
<1>2. DOMAIN batch = 1..Len(batch) /\ Len(batch) \in Nat
  BY <1>1, LenProperties
<1>3. [k \in DOMAIN batch |-> [client |-> c, index |-> batch[k]]] \in [1..Len(batch) -> SlotEvent]
  BY <1>1, <1>2, ElementOfSeq DEF SlotEvent
<1>4. [k \in DOMAIN batch |-> [client |-> c, index |-> batch[k]]] \in Seq(SlotEvent)
  BY <1>2, <1>3, SeqDef
<1> QED
  BY <1>4, EmptySeq DEF AssignedEvents

\* What is being sent to a sink that is taken out.
OnTheWay(s) ==
  LET event == masked_input_events[Len(masked_input_events)]
  IN  IF feed[s] = "masked" THEN <<event>>
      ELSE AssignedEvents(event.client, event.indices)

\* A subscriber has got a prefix of its feed: all of it while its sink is kept,
\* and all but what is on the way while its sink is taken out.
Exact(got, all, kept, out, way) ==
  /\ Prefix(got, all)
  /\ kept => got = all
  /\ out => got \o way = all /\ Len(got) < Len(all)

ReceivedInv ==
  /\ received \in [Subscriber -> Seq(Entry)]
  /\ assigned_reserved_index_events \in Seq(SlotEvent)
  /\ assigned_masked_input_events \in Seq(SlotEvent)
  /\ \A s \in Subscriber : feed[s] # None =>
       Exact(received[s], History[feed[s]], s \in feed_sinks[feed[s]], s \in taken,
             OnTheWay(s))

LEMMA HistoryType ==
  ASSUME IInv, ReceivedInv, NEW f \in Feed
  PROVE  History[f] \in Seq(Entry)
<1>1. /\ reserved_index_events \in Seq(BatchEvent)
      /\ masked_input_events \in Seq(BatchEvent)
  BY DEF IInv, TypeOK, BatchEvent
<1>2. /\ reserved_index_events \in Seq(Entry)
      /\ masked_input_events \in Seq(Entry)
      /\ assigned_reserved_index_events \in Seq(Entry)
      /\ assigned_masked_input_events \in Seq(Entry)
  BY <1>1, SeqMonotonic DEF ReceivedInv, Entry
<1> QED
  BY <1>2 DEF History, Feed

\* A step that changes neither a feed nor what was received from it.
LEMMA ReceivedSame ==
  ASSUME ReceivedInv, UNCHANGED feedVars,
         UNCHANGED <<reserved_index_events, masked_input_events>>
  PROVE  ReceivedInv'
BY ZenonT(30) DEF ReceivedInv, feedVars, History, OnTheWay, AssignedEvents

LEMMA ReceivedSubscribe ==
  ASSUME IInv, SinkInv, ReceivedInv, NEW s \in Subscriber, NEW f \in Feed,
         Subscribe(s, f)
  PROVE  ReceivedInv'
<1>1. PICK sent \in 0..Len(History[f]) :
        /\ received' = [received EXCEPT ![s] = SubSeq(History[f], 1, sent)]
        /\ IF sent = Len(History[f])
           THEN feed_sinks' = [feed_sinks EXCEPT ![f] = @ \cup {s}] /\ UNCHANGED closed
           ELSE closed' = closed \cup {s} /\ UNCHANGED feed_sinks
  BY Zenon DEF Subscribe
<1>2. /\ feed[s] = None /\ feed' = [feed EXCEPT ![s] = f]
      /\ taken' = taken /\ History' = History
      /\ UNCHANGED <<assigned_reserved_index_events, assigned_masked_input_events>>
      /\ masked_input_events' = masked_input_events
  BY DEF Subscribe, vars, inputVars, History
<1>3. s \notin taken /\ \A g \in Feed : s \notin feed_sinks[g]
  BY <1>2, FeedAssumption DEF SinkInv, Feed
<1>4. /\ SubSeq(History[f], 1, sent) \in Seq(Entry)
      /\ Prefix(SubSeq(History[f], 1, sent), History[f])
      /\ sent = Len(History[f]) => SubSeq(History[f], 1, sent) = History[f]
  BY HistoryType, PrefixOf, ZenonT(30)
<1>5. ASSUME NEW x \in Subscriber, feed'[x] # None
      PROVE  Exact(received'[x], History'[feed'[x]], x \in feed_sinks'[feed'[x]],
                   x \in taken', OnTheWay(x)')
  <2>1. CASE x = s
    <3>1. /\ feed'[x] = f
          /\ received'[x] = SubSeq(History[f], 1, sent)
          /\ x \in feed_sinks'[f] => sent = Len(History[f])
      BY <1>1, <1>2, <1>3, <2>1, ZenonT(30) DEF SinkInv, ReceivedInv
    <3> QED
      BY <1>2, <1>3, <1>4, <2>1, <3>1, ZenonT(30) DEF Exact
  <2>2. CASE x # s
    <3>1. /\ feed'[x] = feed[x] /\ received'[x] = received[x]
          /\ feed[x] \in Feed
          /\ x \in feed_sinks'[feed[x]] <=> x \in feed_sinks[feed[x]]
      <4>1. feed'[x] = feed[x] /\ received'[x] = received[x]
        BY <1>1, <1>2, <2>2, ZenonT(30) DEF SinkInv, ReceivedInv
      <4>2. feed[x] \in Feed
        BY <1>5, <4>1 DEF SinkInv
      <4>3. x \in feed_sinks'[feed[x]] <=> x \in feed_sinks[feed[x]]
        BY <1>1, <2>2, <4>2, SMTT(30) DEF SinkInv
      <4> QED
        BY <4>1, <4>2, <4>3, ZenonT(30)
    <3>2. OnTheWay(x)' = OnTheWay(x)
      BY <1>2, <3>1, ZenonT(30) DEF OnTheWay, AssignedEvents
    <3>3. Exact(received[x], History[feed[x]], x \in feed_sinks[feed[x]], x \in taken,
                OnTheWay(x))
      BY <1>5, <3>1, ZenonT(30) DEF ReceivedInv
    <3> QED
      BY <1>2, <3>1, <3>2, <3>3, ZenonT(30) DEF Exact
  <2> QED
    BY <2>1, <2>2, ZenonT(30)
<1>6. received' \in [Subscriber -> Seq(Entry)]
  BY <1>1, <1>4, ZenonT(30) DEF ReceivedInv
<1> QED
  BY <1>2, <1>5, <1>6 DEF ReceivedInv

LEMMA ReceivedReserve ==
  ASSUME IInv, SinkInv, ReceivedInv, NEW c \in Client, NEW batch \in Batches,
         FeedReserve(c, batch)
  PROVE  ReceivedInv'
<1> DEFINE more == AssignedEvents(c, batch)
           live == feed_sinks["reserved"]
           liveAssigned == IF more = <<>> THEN {} ELSE feed_sinks["assigned_reserved"]
<1>1. PICK ok \in SUBSET (live \cup liveAssigned) :
        /\ received' = [s \in Subscriber |->
             IF s \in ok
             THEN received[s] \o (IF s \in live THEN <<Event(c, batch)>> ELSE more)
             ELSE received[s]]
        /\ feed_sinks' = [feed_sinks EXCEPT
             !["reserved"] = @ \cap ok,
             !["assigned_reserved"] = IF more = <<>> THEN @ ELSE @ \cap ok]
  <2>1. PICK ok \in SUBSET (live \cup liveAssigned) :
          /\ Deliver(ok, [s \in ok |-> IF s \in live THEN <<Event(c, batch)>> ELSE more])
          /\ feed_sinks' = [feed_sinks EXCEPT
               !["reserved"] = @ \cap ok,
               !["assigned_reserved"] = IF more = <<>> THEN @ ELSE @ \cap ok]
    BY ZenonT(30) DEF FeedReserve
  <2> HIDE DEF more, live, liveAssigned
  <2> QED
    BY <2>1, Zenon DEF Deliver
<1>2. /\ feed' = feed /\ taken' = taken
      /\ reserved_index_events' = Append(reserved_index_events, Event(c, batch))
      /\ assigned_reserved_index_events' = assigned_reserved_index_events \o more
      /\ masked_input_events' = masked_input_events
      /\ assigned_masked_input_events' = assigned_masked_input_events
  BY DEF FeedReserve, ReserveMaskIndices
<1>3. /\ more \in Seq(SlotEvent) /\ more \in Seq(Entry)
      /\ Event(c, batch) \in BatchEvent
      /\ <<Event(c, batch)>> \in Seq(Entry)
  BY AssignedEventsType, SeqMonotonic, SMTT(30) DEF Event, BatchEvent, Entry
<1>4. /\ History'["reserved"] = History["reserved"] \o <<Event(c, batch)>>
      /\ History'["assigned_reserved"] = History["assigned_reserved"] \o more
      /\ History'["masked"] = History["masked"]
      /\ History'["assigned_masked"] = History["assigned_masked"]
  <2>1. reserved_index_events \in Seq(BatchEvent)
    BY ZenonT(30) DEF IInv, TypeOK, BatchEvent
  <2>2. reserved_index_events' = reserved_index_events \o <<Event(c, batch)>>
    BY <1>2, <1>3, <2>1, AppendIsConcat, ZenonT(30)
  <2> QED
    BY <1>2, <2>2, ZenonT(30) DEF History
<1>5. /\ feed_sinks'["masked"] = feed_sinks["masked"]
      /\ feed_sinks'["assigned_masked"] = feed_sinks["assigned_masked"]
      /\ feed_sinks'["reserved"] = live \cap ok
      /\ feed_sinks'["assigned_reserved"] =
           IF more = <<>> THEN feed_sinks["assigned_reserved"]
           ELSE feed_sinks["assigned_reserved"] \cap ok
  BY <1>1, ZenonT(30) DEF SinkInv, Feed
<1>6. assigned_reserved_index_events' \in Seq(SlotEvent)
  BY <1>2, <1>3, ConcatProperties, ZenonT(30) DEF ReceivedInv
<1>7. received' \in [Subscriber -> Seq(Entry)]
  <2> HIDE DEF more, live, liveAssigned
  <2>1. \A s \in Subscriber :
          /\ received[s] \in Seq(Entry)
          /\ received[s] \o more \in Seq(Entry)
          /\ received[s] \o <<Event(c, batch)>> \in Seq(Entry)
    BY <1>3, ConcatProperties, ZenonT(30) DEF ReceivedInv
  <2> QED
    BY <1>1, <2>1, ZenonT(30)
<1>8. ASSUME NEW x \in Subscriber, feed[x] # None
      PROVE  Exact(received'[x], History'[feed[x]], x \in feed_sinks'[feed[x]],
                   x \in taken, OnTheWay(x)')
  <2>1. /\ feed[x] \in Feed
        /\ \A g \in Feed : x \in feed_sinks[g] => feed[x] = g
        /\ x \in taken => feed[x] \in {"masked", "assigned_masked"}
    BY <1>8, ZenonT(30) DEF SinkInv
  <2>2. OnTheWay(x)' = OnTheWay(x)
    BY <1>2, ZenonT(30) DEF OnTheWay, AssignedEvents
  <2>3. /\ Exact(received[x], History[feed[x]], x \in feed_sinks[feed[x]], x \in taken,
                 OnTheWay(x))
        /\ received[x] \in Seq(Entry)
        /\ History[feed[x]] \in Seq(Entry)
    BY <1>8, <2>1, HistoryType DEF ReceivedInv
  <2>4. ASSUME NEW w \in Seq(Entry), History'[feed[x]] = History[feed[x]] \o w
        PROVE  /\ Prefix(received[x], History'[feed[x]])
               /\ History'[feed[x]] \in Seq(Entry)
               /\ Prefix(History'[feed[x]], History'[feed[x]])
    <3>1. Prefix(received[x], History[feed[x]])
      BY <2>3, ZenonT(30) DEF Exact
    <3>2. Prefix(received[x], History[feed[x]] \o w)
      BY <2>3, <3>1, PrefixGrows, ZenonT(30)
    <3>3. History[feed[x]] \o w \in Seq(Entry)
      BY <2>3, ConcatProperties, ZenonT(30)
    <3> QED
      BY <2>4, <3>2, <3>3, PrefixSelf, ZenonT(30)
  <2> HIDE DEF more
  <2>5. CASE feed[x] = "reserved"
    <3>1. x \notin taken /\ (x \in ok => x \in live)
      BY <2>1, <2>5 DEF Feed
    <3>2. CASE x \in ok
      <4>1. received'[x] = received[x] \o <<Event(c, batch)>>
        BY <1>1, <3>1, <3>2, ZenonT(30)
      <4>2. received[x] = History["reserved"]
        BY <2>3, <2>5, <3>1, <3>2 DEF Exact
      <4> QED
        BY <1>3, <1>4, <2>4, <2>5, <3>1, <4>1, <4>2, ZenonT(30) DEF Exact
    <3>3. CASE x \notin ok
      BY <1>1, <1>3, <1>4, <1>5, <2>4, <2>5, <3>1, <3>3, ZenonT(30) DEF Exact
    <3> QED
      BY <3>2, <3>3
  <2>6. CASE feed[x] = "assigned_reserved"
    <3>1. x \notin taken /\ x \notin live /\ (x \in ok => more # <<>>)
      BY <2>1, <2>6 DEF Feed
    <3>2. CASE x \in ok
      <4>1. received'[x] = received[x] \o more
        BY <1>1, <3>1, <3>2, ZenonT(30)
      <4>2. received[x] = History["assigned_reserved"]
        BY <2>1, <2>3, <2>6, <3>1, <3>2, ZenonT(30) DEF Exact
      <4> QED
        BY <1>3, <1>4, <2>4, <2>6, <3>1, <4>1, <4>2, ZenonT(30) DEF Exact
    <3>3. CASE x \notin ok /\ more # <<>>
      <4>1. received'[x] = received[x]
        BY <1>1, <3>3
      <4>2. feed_sinks'["assigned_reserved"] = feed_sinks["assigned_reserved"] \cap ok
        BY <1>5, <3>3, SMTT(30)
      <4>3. Prefix(received[x], History'[feed[x]])
        BY <1>3, <1>4, <2>4, <2>6, ZenonT(30)
      <4> QED
        BY <2>6, <3>1, <3>3, <4>1, <4>2, <4>3, ZenonT(30) DEF Exact
    <3>4. CASE x \notin ok /\ more = <<>>
      <4>1. History'["assigned_reserved"] = History["assigned_reserved"]
        BY <1>4, <2>3, <2>6, <3>4, ConcatEmptySeq, ZenonT(30)
      <4> QED
        BY <1>1, <1>5, <2>3, <2>6, <3>1, <3>4, <4>1, ZenonT(30) DEF Exact
    <3> QED
      BY <3>2, <3>3, <3>4, ZenonT(30)
  <2>7. CASE feed[x] \in {"masked", "assigned_masked"}
    <3>1. x \notin ok
      BY <2>1, <2>7 DEF Feed
    <3>2. received'[x] = received[x]
      BY <1>1, <3>1
    <3> QED
      BY <1>4, <1>5, <2>2, <2>3, <2>7, <3>2, ZenonT(30)
  <2> QED
    BY <2>1, <2>5, <2>6, <2>7, ZenonT(30) DEF Feed
<1> QED
  BY <1>2, <1>6, <1>7, <1>8 DEF ReceivedInv

LEMMA ReceivedSubmit ==
  ASSUME IInv, SinkInv, ReceivedInv, NEW c \in Client, NEW batch \in Batches,
         FeedSubmit(c, batch)
  PROVE  ReceivedInv'
<1> DEFINE more == AssignedEvents(c, batch)
<1>1. /\ taken' = feed_sinks["masked"] \cup
                  (IF more = <<>> THEN {} ELSE feed_sinks["assigned_masked"])
      /\ feed_sinks' = [feed_sinks EXCEPT
           !["masked"] = {},
           !["assigned_masked"] = IF more = <<>> THEN @ ELSE {}]
      /\ feed' = feed /\ received' = received
      /\ masked_input_events' = Append(masked_input_events, Event(c, batch))
      /\ assigned_masked_input_events' = assigned_masked_input_events \o more
      /\ reserved_index_events' = reserved_index_events
      /\ assigned_reserved_index_events' = assigned_reserved_index_events
  BY DEF FeedSubmit, SubmitMaskedInputs
<1>2. /\ more \in Seq(SlotEvent) /\ more \in Seq(Entry)
      /\ Event(c, batch) \in BatchEvent
      /\ <<Event(c, batch)>> \in Seq(Entry)
  BY AssignedEventsType, SeqMonotonic DEF Event, BatchEvent, Entry
<1>3. /\ masked_input_events' = masked_input_events \o <<Event(c, batch)>>
      /\ masked_input_events'[Len(masked_input_events')] = Event(c, batch)
  <2>1. masked_input_events \in Seq(BatchEvent)
    BY DEF IInv, TypeOK, BatchEvent
  <2> QED
    BY <1>1, <1>2, <2>1, AppendIsConcat, AppendProperties
<1>4. \A x : OnTheWay(x)' = IF feed[x] = "masked" THEN <<Event(c, batch)>> ELSE more
  BY <1>1, <1>3 DEF OnTheWay, Event
<1>5. /\ History'["reserved"] = History["reserved"]
      /\ History'["assigned_reserved"] = History["assigned_reserved"]
      /\ History'["masked"] = History["masked"] \o <<Event(c, batch)>>
      /\ History'["assigned_masked"] = History["assigned_masked"] \o more
  BY <1>1, <1>3 DEF History
<1>6. /\ feed_sinks'["masked"] = {}
      /\ feed_sinks'["assigned_masked"] =
           IF more = <<>> THEN feed_sinks["assigned_masked"] ELSE {}
      /\ feed_sinks'["reserved"] = feed_sinks["reserved"]
      /\ feed_sinks'["assigned_reserved"] = feed_sinks["assigned_reserved"]
  BY <1>1 DEF SinkInv, Feed
<1>7. assigned_masked_input_events' \in Seq(SlotEvent)
  BY <1>1, <1>2, ConcatProperties, ZenonT(30) DEF ReceivedInv
<1> HIDE DEF more
<1>8. ASSUME NEW x \in Subscriber, feed[x] # None
      PROVE  Exact(received[x], History'[feed[x]], x \in feed_sinks'[feed[x]],
                   x \in taken', OnTheWay(x)')
  <2>1. /\ feed[x] \in Feed
        /\ \A g \in Feed : x \in feed_sinks[g] => feed[x] = g
    BY <1>8, ZenonT(30) DEF SinkInv
  <2>2. /\ Exact(received[x], History[feed[x]], x \in feed_sinks[feed[x]], x \in taken,
                 OnTheWay(x))
        /\ received[x] \in Seq(Entry)
        /\ History[feed[x]] \in Seq(Entry)
    BY <1>8, <2>1, HistoryType, ZenonT(30) DEF ReceivedInv
  <2>3. ASSUME NEW w \in Seq(Entry), History'[feed[x]] = History[feed[x]] \o w
        PROVE  /\ Prefix(received[x], History'[feed[x]])
               /\ /\ w # <<>>
                  /\ received[x] = History[feed[x]]
                  => Len(received[x]) < Len(History'[feed[x]])
    <3>1. Prefix(received[x], History[feed[x]])
      BY <2>2 DEF Exact
    <3>2. Prefix(received[x], History[feed[x]] \o w)
      BY <2>2, <3>1, PrefixGrows, ZenonT(30)
    <3>3. /\ Len(History[feed[x]] \o w) = Len(History[feed[x]]) + Len(w)
          /\ Len(History[feed[x]]) \in Nat
          /\ w # <<>> => Len(w) \in Nat \ {0}
      BY <2>2, ConcatProperties, LenProperties, EmptySeq
    <3> QED
      BY <2>3, <3>2, <3>3, SMTT(30)
  <2>4. CASE feed[x] = "masked"
    <3>1. x \in taken' => x \in feed_sinks["masked"]
      BY <1>1, <2>1, <2>4 DEF Feed
    <3>2. x \in feed_sinks["masked"] => received[x] = History["masked"]
      BY <2>2, <2>4 DEF Exact
    <3>3. OnTheWay(x)' = <<Event(c, batch)>> /\ <<Event(c, batch)>> # <<>>
      BY <1>4, <2>4
    <3>4. /\ Prefix(received[x], History'["masked"])
          /\ received[x] = History["masked"] =>
               Len(received[x]) < Len(History'["masked"])
      BY <1>2, <1>5, <2>3, <2>4, <3>3, Zenon
    <3> QED
      BY <1>5, <1>6, <2>4, <3>1, <3>2, <3>3, <3>4, ZenonT(30) DEF Exact
  <2>5. CASE feed[x] = "assigned_masked" /\ more # <<>>
    <3>1. x \in taken' => x \in feed_sinks["assigned_masked"]
      BY <1>1, <2>1, <2>5, SMTT(30) DEF Feed
    <3>2. x \in feed_sinks["assigned_masked"] => received[x] = History["assigned_masked"]
      BY <2>2, <2>5 DEF Exact
    <3>3. OnTheWay(x)' = more
      BY <1>4, <2>5
    <3>4. /\ Prefix(received[x], History'["assigned_masked"])
          /\ received[x] = History["assigned_masked"] =>
               Len(received[x]) < Len(History'["assigned_masked"])
      BY <1>2, <1>5, <2>3, <2>5, ZenonT(30)
    <3> QED
      BY <1>5, <1>6, <2>5, <3>1, <3>2, <3>3, <3>4, ZenonT(30) DEF Exact
  <2>6. CASE \/ feed[x] = "assigned_masked" /\ more = <<>>
             \/ feed[x] \in {"reserved", "assigned_reserved"}
    <3>1. History'[feed[x]] = History[feed[x]]
      BY <1>5, <2>2, <2>6, ConcatEmptySeq, ZenonT(30)
    <3>2. feed_sinks'[feed[x]] = feed_sinks[feed[x]] /\ x \notin taken'
      BY <1>1, <1>6, <2>1, <2>6, ZenonT(30) DEF Feed
    <3> QED
      BY <2>2, <3>1, <3>2 DEF Exact
  <2> QED
    BY <2>1, <2>4, <2>5, <2>6 DEF Feed
<1> QED
  BY <1>1, <1>7, <1>8, Zenon DEF ReceivedInv

LEMMA ReceivedSent ==
  ASSUME IInv, SinkInv, ReceivedInv, FeedSent
  PROVE  ReceivedInv'
<1> DEFINE event == masked_input_events[Len(masked_input_events)]
           more == AssignedEvents(event.client, event.indices)
<1>1. PICK ok \in SUBSET taken :
        /\ received' = [s \in Subscriber |->
             IF s \in ok
             THEN received[s] \o (IF feed[s] = "masked" THEN <<event>> ELSE more)
             ELSE received[s]]
        /\ feed_sinks' = [f \in Feed |-> feed_sinks[f] \cup {s \in ok : feed[s] = f}]
  <2>1. PICK ok \in SUBSET taken :
          /\ Deliver(ok, [s \in ok |-> IF feed[s] = "masked" THEN <<event>> ELSE more])
          /\ feed_sinks' = [f \in Feed |-> feed_sinks[f] \cup {s \in ok : feed[s] = f}]
    BY DEF FeedSent
  <2> HIDE DEF event, more
  <2> QED
    BY <2>1, ZenonT(30) DEF Deliver
<1>2. /\ feed' = feed /\ taken' = {} /\ History' = History
      /\ UNCHANGED <<assigned_reserved_index_events, assigned_masked_input_events>>
  BY Zenon DEF FeedSent, MaskedInputsSent, inputVars, History
<1>3. \A x \in ok : received'[x] = received[x] \o OnTheWay(x)
  BY <1>1, Zenon DEF OnTheWay, SinkInv
<1> HIDE DEF event, more
<1>4. ASSUME NEW x \in Subscriber, feed[x] # None
      PROVE  /\ Exact(received'[x], History[feed[x]], x \in feed_sinks'[feed[x]], FALSE,
                      OnTheWay(x)')
             /\ received'[x] \in Seq(Entry)
  <2>1. feed[x] \in Feed
    BY <1>4, ZenonT(30) DEF SinkInv
  <2>2. /\ Exact(received[x], History[feed[x]], x \in feed_sinks[feed[x]], x \in taken,
                 OnTheWay(x))
        /\ received[x] \in Seq(Entry)
        /\ History[feed[x]] \in Seq(Entry)
    BY <1>4, <2>1, HistoryType, ZenonT(30) DEF ReceivedInv
  <2>3. CASE x \in ok
    <3>1. received'[x] = History[feed[x]]
      BY <1>1, <1>3, <2>2, <2>3, ZenonT(30) DEF Exact
    <3> QED
      BY <2>2, <3>1, PrefixSelf DEF Exact
  <2>4. CASE x \notin ok
    <3>1. received'[x] = received[x] /\ feed_sinks'[feed[x]] \cap {x} = feed_sinks[feed[x]] \cap {x}
      BY <1>1, <2>1, <2>4
    <3> QED
      BY <2>2, <3>1 DEF Exact
  <2> QED
    BY <2>3, <2>4, ZenonT(30)
<1>5. received' \in [Subscriber -> Seq(Entry)]
  <2>1. \A x \in Subscriber : received'[x] \in Seq(Entry)
    <3> SUFFICES ASSUME NEW x \in Subscriber PROVE received'[x] \in Seq(Entry)
      OBVIOUS
    <3>1. CASE feed[x] # None
      BY <1>4, <3>1, ZenonT(30)
    <3>2. CASE feed[x] = None
      BY <1>1, <3>2, FeedAssumption, ZenonT(30) DEF SinkInv, ReceivedInv, Feed
    <3> QED
      BY <3>1, <3>2
  <2>2. received' = [s \in Subscriber |-> received'[s]]
    BY <1>1
  <2> QED
    BY <2>1, <2>2
<1>6. ASSUME NEW x \in Subscriber, feed'[x] # None
      PROVE  Exact(received'[x], History'[feed'[x]], x \in feed_sinks'[feed'[x]],
                   x \in taken', OnTheWay(x)')
  BY <1>2, <1>4, <1>6, ZenonT(30) DEF Exact
<1>7. /\ assigned_reserved_index_events' \in Seq(SlotEvent)
      /\ assigned_masked_input_events' \in Seq(SlotEvent)
  BY <1>2 DEF ReceivedInv
<1> QED
  BY <1>5, <1>6, <1>7 DEF ReceivedInv

LEMMA ReceivedStep ==
  IInv /\ SinkInv /\ ReceivedInv /\ [NextFeeds]_allVars => ReceivedInv'
<1> SUFFICES ASSUME IInv, SinkInv, ReceivedInv, [NextFeeds]_allVars PROVE ReceivedInv'
  OBVIOUS
<1>1. ASSUME NEW p \in mpc_nodes, NEW next \in ORDERED_ROUNDS, FeedTransition(p, next)
      PROVE  ReceivedInv'
  BY <1>1, ReceivedSame DEF FeedTransition, Transition, vars, inputVars
<1>2. CASE FeedTransitionsDelivered
  BY <1>2, ReceivedSame DEF FeedTransitionsDelivered, TransitionsDelivered, inputVars
<1>3. ASSUME NEW w \in Waiter, NEW r \in ORDERED_ROUNDS, SubRound(w, r)
      PROVE  ReceivedInv'
  BY <1>3, ReceivedSame DEF SubRound, vars, inputVars
<1>4. CASE UNCHANGED allVars
  BY <1>4, ReceivedSame DEF allVars, vars, inputVars
<1>5. ASSUME NEW s \in Subscriber,
             \/ sub_reserved_indices(s)
             \/ sub_masked_inputs(s)
             \/ sub_assigned_reserved_indices(s)
             \/ sub_assigned_masked_inputs(s)
      PROVE  \E f \in Feed : Subscribe(s, f)
  BY <1>5 DEF sub_reserved_indices, sub_masked_inputs, sub_assigned_reserved_indices,
    sub_assigned_masked_inputs, Feed
<1> QED
  BY <1>1, <1>2, <1>3, <1>4, <1>5, ReceivedSubscribe, ReceivedReserve, ReceivedSubmit,
    ReceivedSent, ZenonT(30) DEF NextFeeds

LEMMA ReceivedInvariant == SpecFeeds => []ReceivedInv
<1>1. InitFeeds => ReceivedInv
  BY EmptySeq DEF InitFeeds, ReceivedInv
<1> QED
  BY <1>1, ReceivedStep, SinkInvariant, FeedsIInv, PTL DEF SpecFeeds

\* Every subscriber gets every event of its feed once and in order, whenever it
\* subscribes and whatever is being sent at that moment.
THEOREM FeedsExact == SpecFeeds => []FeedExact
<1>1. SinkInv /\ ReceivedInv => FeedExact
  BY DEF ReceivedInv, FeedExact, Exact, Prefix
<1> QED
  BY <1>1, ReceivedInvariant, SinkInvariant, PTL

\* Every variable keeps its type.
THEOREM FeedTypes == SpecFeeds => []TypeOKFeeds
<1>1. IInv /\ WaiterInv /\ SinkInv /\ ReceivedInv => TypeOKFeeds
  BY DEF TypeOKFeeds, IInv, WaiterInv, SinkInv, ReceivedInv, SlotEvent
<1> QED
  BY <1>1, FeedsIInv, WaiterInvariant, SinkInvariant, ReceivedInvariant, PTL

-----------------------------------------------------------------------------
\* The counter of the two wait loops starts at zero and adds, for every event,
\* the indices listed in it.
LEMMA ReceivedSums ==
  ASSUME NEW events \in Seq(BatchEvent)
  PROVE  /\ Received(events) \in [0..Len(events) -> Nat]
         /\ Received(events)[0] = 0
         /\ \A k \in 1..Len(events) :
              Received(events)[k] = Received(events)[k - 1] + Len(events[k].indices)
<1> DEFINE N == Len(events)
           w == [k \in DOMAIN events |-> Len(events[k].indices)]
<1>1. N \in Nat /\ DOMAIN events = 1..N
  BY LenProperties
<1>2. \A k \in 1..N : Len(events[k].indices) \in Nat
  BY BatchSize, ElementOfSeq DEF BatchEvent
<1>3. /\ w \in Seq(Nat) /\ Len(w) = N
      /\ \A k \in 1..N : w[k] = Len(events[k].indices)
  BY <1>1, <1>2
<1> HIDE DEF w
<1>4. /\ RunningSums(w) \in [0..Len(w) -> Nat]
      /\ RunningSums(w)[0] = 0
      /\ \A k \in 1..Len(w) : RunningSums(w)[k] = RunningSums(w)[k - 1] + w[k]
  BY <1>3, RunningSum
<1>5. Received(events) = RunningSums(w)
  BY DEF Received, w
<1> QED
  BY <1>3, <1>4, <1>5

\* No slot is in two events, and every event is of the client that reserved
\* the slots in it.
Owned(events) ==
  \A j, k \in DOMAIN events : \A i \in Indices(events[j].indices) :
    /\ reserved_indices[i] = events[j].client
    /\ i \in Indices(events[k].indices) => j = k

\* The slots in the first k events.
Seen(events, k) == UNION {Indices(events[j].indices) : j \in 1..k}

\* With no slot in two events, the wait loops count slots up to the first event
\* that lists a slot twice.
LEMMA CountsSlots ==
  ASSUME NEW events \in Seq(BatchEvent), Owned(events), NEW m \in 0..Len(events),
         \A j \in 1..m : ListsOnce(events[j].indices)
  PROVE  \A k \in 0..m :
           Seen(events, k) \subseteq Index /\ Received(events)[k] = Cardinality(Seen(events, k))
<1> DEFINE N == Len(events)
           P(k) == /\ Seen(events, k) \subseteq Index
                   /\ Received(events)[k] = Cardinality(Seen(events, k))
           S == {k \in 0..m : P(k)}
<1>1. N \in Nat /\ DOMAIN events = 1..N /\ m \in Nat /\ 1..m \subseteq 1..N
  BY LenProperties
<1>2. 0 \in S
  <2>1. Seen(events, 0) = {}
    BY DEF Seen
  <2> QED
    BY <1>1, <2>1, ReceivedSums, FS_EmptySet, SMTT(30)
<1>3. ASSUME NEW k \in 1..m, k - 1 \in S
      PROVE  k \in S
  <2> DEFINE batch == events[k].indices
             before == Seen(events, k - 1)
  <2>1. batch \in Batches
    <3>1. events[k] \in BatchEvent
      BY <1>1, ElementOfSeq
    <3> QED
      BY <3>1 DEF BatchEvent
  <2>2. Indices(batch) \subseteq Index
    BY <2>1, BatchIndices
  <2>3. Seen(events, k) = before \cup Indices(batch)
    <3>1. 1..k = 1..(k - 1) \cup {k}
      OBVIOUS
    <3> QED
      BY <3>1 DEF Seen
  <2>4. before \cap Indices(batch) = {}
    <3>1. \A j \in 1..(k - 1) : j \in 1..N /\ j # k
      BY <1>1
    <3>2. ASSUME NEW i \in before, i \in Indices(batch)
          PROVE  FALSE
      <4>1. PICK j \in 1..(k - 1) : i \in Indices(events[j].indices)
        BY <3>2 DEF Seen
      <4> QED
        BY <1>1, <3>1, <3>2, <4>1, ZenonT(30) DEF Owned
    <3> QED
      BY <3>2
  <2>5. before \subseteq Index /\ Received(events)[k - 1] = Cardinality(before)
    BY <1>3
  <2>6. Received(events)[k] = Cardinality(before) + Len(batch)
    BY <1>1, <2>5, ReceivedSums
  <2>7. Cardinality(Indices(batch)) = Len(batch) /\ IsFiniteSet(Indices(batch))
    BY <2>1, BatchSize, Zenon
  <2>8. IsFiniteSet(before) /\ Cardinality(before) \in Nat
    BY <2>5, SlotSets, Zenon
  <2>9. Cardinality(before \cup Indices(batch)) =
          Cardinality(before) + Cardinality(Indices(batch))
            - Cardinality(before \cap Indices(batch))
    BY <2>7, <2>8, FS_Union
  <2>10. Cardinality(before \cap Indices(batch)) = 0
    BY <2>4, FS_EmptySet, ZenonT(30)
  <2>11. Len(batch) \in Nat
    BY <2>1, BatchSize
  <2> HIDE DEF batch, before
  <2>12. Received(events)[k] = Cardinality(Seen(events, k)) /\ Seen(events, k) \subseteq Index
    BY <2>2, <2>3, <2>5, <2>6, <2>7, <2>8, <2>9, <2>10, <2>11, SMTT(30)
  <2>13. k \in 0..m
    OBVIOUS
  <2> QED
    BY <2>12, <2>13
<1>4. \A k \in 1..m : k - 1 \in S => k \in S
  BY <1>3
<1>5. 0..m \subseteq S
  <2> HIDE DEF S
  <2> QED
    BY <1>1, <1>2, <1>4, InductionUpTo, ZenonT(30)
<1> QED
  BY <1>5

\* A wait loop that has returned took a prefix of the events, with enough in it.
LEMMA WaitTakes ==
  ASSUME NEW events \in Seq(BatchEvent), WaitReturns(events)
  PROVE  \E m \in 0..Len(events) :
           /\ Received(events)[m] >= n_inputs
           /\ DOMAIN Awaited(events) = 1..m
           /\ \A j \in 1..m : /\ j \in 1..Len(events) /\ Awaited(events)[j] = events[j]
                              /\ events[j].client \in Client
<1> DEFINE N == Len(events)
           Enough == {k \in 0..N : Received(events)[k] >= n_inputs}
           m == Min(Enough)
<1>1. N \in Nat /\ DOMAIN events = 1..N
  BY LenProperties
<1>2. m \in Enough
  <2>1. Enough \in SUBSET Nat /\ N \in Enough
    BY <1>1 DEF WaitReturns
  <2> HIDE DEF Enough
  <2>2. \E x \in Enough : \A y \in Enough : x <= y
    BY <2>1, LeastElement
  <2> QED
    BY <2>2 DEF Min
<1>3. Awaited(events) = SubSeq(events, 1, m)
  BY DEF Awaited
<1>4. m \in 0..N /\ Received(events)[m] >= n_inputs
  BY <1>2
<1> HIDE DEF m
<1>5. \A j \in 1..m : j \in 1..N
  BY <1>1, <1>4
<1>6. \A j \in 1..N : events[j].client \in Client
  <2>1. \A j \in 1..N : events[j] \in BatchEvent
    BY ElementOfSeq, ZenonT(30)
  <2> QED
    BY <2>1 DEF BatchEvent
<1>7. DOMAIN Awaited(events) = 1..m /\ \A j \in 1..m : Awaited(events)[j] = events[j]
  BY <1>1, <1>3, <1>4, SubSeqProperties
<1> QED
  BY <1>4, <1>5, <1>6, <1>7, Zenon

\* The result of a wait loop that has returned gives a client only its slots.
LEMMA WaitOwners ==
  ASSUME NEW events \in Seq(BatchEvent), Owned(events), WaitReturns(events),
         NEW c \in Client, NEW i \in WaitResult(events)[c]
  PROVE  reserved_indices[i] = c
<1>1. PICK m \in 0..Len(events) :
        /\ DOMAIN Awaited(events) = 1..m
        /\ \A j \in 1..m : j \in 1..Len(events) /\ Awaited(events)[j] = events[j]
  BY WaitTakes, ZenonT(30)
<1>2. PICK j \in 1..m : /\ Awaited(events)[j].client = c
                        /\ i \in Indices(Awaited(events)[j].indices)
  BY <1>1, ZenonT(30) DEF WaitResult
<1>3. j \in DOMAIN events /\ events[j].client = c /\ i \in Indices(events[j].indices)
  BY <1>1, <1>2, LenProperties, ZenonT(30)
<1> QED
  BY <1>3, ZenonT(30) DEF Owned

\* If no event it took lists a slot twice, it holds every slot with its owner.
LEMMA WaitComplete ==
  ASSUME NEW events \in Seq(BatchEvent), Owned(events), WaitReturns(events),
         \A k \in DOMAIN Awaited(events) : ListsOnce(Awaited(events)[k].indices),
         NEW i \in Index
  PROVE  \E c \in Client : reserved_indices[i] = c /\ i \in WaitResult(events)[c]
<1>1. PICK m \in 0..Len(events) :
        /\ Received(events)[m] >= n_inputs
        /\ DOMAIN Awaited(events) = 1..m
        /\ \A j \in 1..m : /\ j \in 1..Len(events) /\ Awaited(events)[j] = events[j]
                           /\ events[j].client \in Client
  BY WaitTakes, ZenonT(30)
<1>2. m \in 0..m
  BY LenProperties
<1>3. Seen(events, m) = Index
  <2>0. \A j \in 1..m : ListsOnce(events[j].indices)
    BY <1>1, ZenonT(30)
  <2>1. /\ Seen(events, m) \subseteq Index
        /\ Received(events)[m] = Cardinality(Seen(events, m))
    BY <1>2, <2>0, CountsSlots, ZenonT(30)
  <2>2. Cardinality(Seen(events, m)) = n_inputs
    <3>1. /\ Cardinality(Seen(events, m)) \in Nat
          /\ Cardinality(Seen(events, m)) <= n_inputs
      BY <2>1, SlotSets, ZenonT(30)
    <3> QED
      BY <1>1, <2>1, <3>1, InputsAssumption
  <2> QED
    BY <2>1, <2>2, SlotSets, Zenon
<1>4. PICK j \in 1..m : i \in Indices(events[j].indices)
  BY <1>3, ZenonT(30) DEF Seen
<1>5. i \in WaitResult(events)[events[j].client]
  BY <1>1, <1>4, ZenonT(30) DEF WaitResult
<1> QED
  BY <1>1, <1>4, <1>5, WaitOwners, ZenonT(30)

\* If no call ever lists a slot twice, no event does.
LEMMA EventsListOnce ==
  ASSUME EachSlotOnce, NEW events \in Seq(BatchEvent)
  PROVE  /\ \A j \in 1..Len(events) : ListsOnce(events[j].indices)
         /\ WaitReturns(events) =>
              \A k \in DOMAIN Awaited(events) : ListsOnce(Awaited(events)[k].indices)
<1>1. \A j \in 1..Len(events) : ListsOnce(events[j].indices)
  <2>1. \A j \in 1..Len(events) : events[j] \in BatchEvent
    BY ElementOfSeq, ZenonT(30)
  <2>2. \A j \in 1..Len(events) : events[j].indices \in Batches
    BY <2>1 DEF BatchEvent
  <2> QED
    BY <2>2, Zenon DEF EachSlotOnce
<1>2. ASSUME WaitReturns(events), NEW k \in DOMAIN Awaited(events)
      PROVE  k \in 1..Len(events) /\ Awaited(events)[k] = events[k]
  BY <1>2, WaitTakes, ZenonT(30)
<1> QED
  BY <1>1, <1>2, ZenonT(30)

\* A reservation is announced once, by the client that made it.
LEMMA ReservationsOwned ==
  IInv /\ Owned(reserved_index_events) /\ [Next]_vars => Owned(reserved_index_events)'
<1> SUFFICES ASSUME IInv, Owned(reserved_index_events), [Next]_vars
             PROVE  Owned(reserved_index_events)'
  OBVIOUS
<1>1. CASE UNCHANGED <<reserved_indices, reserved_index_events>>
  BY <1>1 DEF Owned
<1>2. ASSUME NEW c \in Client, NEW batch \in Batches, ReserveMaskIndices(c, batch)
      PROVE  Owned(reserved_index_events)'
  <2> DEFINE old == reserved_index_events
             new == reserved_index_events'
             last == Len(old) + 1
  <2>1. old \in Seq(BatchEvent) /\ Event(c, batch) \in BatchEvent
    BY DEF IInv, TypeOK, BatchEvent, Event
  <2>2. new = Append(old, Event(c, batch))
    BY <1>2 DEF ReserveMaskIndices
  <2>3. /\ DOMAIN new = DOMAIN old \cup {last}
        /\ \A k \in DOMAIN old : new[k] = old[k]
        /\ new[last] = Event(c, batch)
    BY <2>1, <2>2, SMTT(30)
  <2>4. new[last].client = c /\ new[last].indices = batch
    BY <2>3 DEF Event
  <2>5. Indices(batch) \subseteq Index
    BY BatchIndices
  <2>6. \A i \in Indices(batch) : reserved_indices[i] = None /\ reserved_indices'[i] = c
    BY <1>2, <2>5, ZenonT(30) DEF ReserveMaskIndices
  <2>7. ASSUME NEW k \in DOMAIN old, NEW i \in Indices(old[k].indices)
        PROVE  /\ i \in Index /\ i \notin Indices(batch)
               /\ reserved_indices[i] = old[k].client
               /\ reserved_indices'[i] = old[k].client
    <3>1. old[k] \in BatchEvent
      BY <2>1, LenProperties, ElementOfSeq, SMTT(30)
    <3>2. old[k].client \in Client /\ old[k].indices \in Batches
      BY <3>1 DEF BatchEvent
    <3>3. i \in Index
      BY <3>2, BatchIndices, SMTT(30)
    <3>4. reserved_indices[i] = old[k].client /\ old[k].client # None
      BY <3>2, InputsAssumption DEF Owned
    <3> QED
      BY <1>2, <2>6, <3>3, <3>4 DEF ReserveMaskIndices
  <2>8. \A j, k \in DOMAIN old : \A i \in Indices(old[j].indices) :
          i \in Indices(old[k].indices) => j = k
    BY ZenonT(30) DEF Owned
  <2> HIDE DEF old, new, last
  <2>9. ASSUME NEW j \in DOMAIN new, NEW k \in DOMAIN new, NEW i \in Indices(new[j].indices)
        PROVE  /\ reserved_indices'[i] = new[j].client
               /\ i \in Indices(new[k].indices) => j = k
    <3>1. CASE j \in DOMAIN old /\ k \in DOMAIN old
      BY <2>3, <2>7, <2>8, <2>9, <3>1, ZenonT(30)
    <3>2. CASE j \in DOMAIN old /\ k = last
      BY <2>3, <2>4, <2>7, <2>9, <3>2, ZenonT(30)
    <3>3. CASE j = last /\ k \in DOMAIN old
      BY <2>3, <2>4, <2>6, <2>7, <2>9, <3>3, ZenonT(30)
    <3>4. CASE j = last /\ k = last
      BY <2>4, <2>6, <2>9, <3>4, ZenonT(30)
    <3> QED
      BY <2>3, <3>1, <3>2, <3>3, <3>4
  <2> QED
    BY <2>9 DEF Owned, new
<1>3. \/ UNCHANGED <<reserved_indices, reserved_index_events>>
      \/ \E c \in Client, batch \in Batches : ReserveMaskIndices(c, batch)
  BY ZenonT(30) DEF Next, Transition, TransitionsDelivered, SubmitMaskedInputs, MaskedInputsSent,
     vars, inputVars
<1> QED
  BY <1>1, <1>2, <1>3

LEMMA SubmissionsOwned == IInv /\ OneEventPerInput => Owned(masked_input_events)
<1> SUFFICES ASSUME IInv, OneEventPerInput,
                    NEW j \in DOMAIN masked_input_events,
                    NEW k \in DOMAIN masked_input_events,
                    NEW i \in Indices(masked_input_events[j].indices)
             PROVE  /\ reserved_indices[i] = masked_input_events[j].client
                    /\ i \in Indices(masked_input_events[k].indices) => j = k
  BY DEF Owned
<1>1. masked_input_events[j] \in BatchEvent
  BY LenProperties, ElementOfSeq, ZenonT(30) DEF IInv, TypeOK, BatchEvent
<1>2. i \in Index
  BY <1>1, BatchIndices, ZenonT(30) DEF BatchEvent
<1>3. masked_inputs[i] # None => masked_inputs[i] = reserved_indices[i]
  BY <1>2, ZenonT(30) DEF IInv, InputProvenance
<1>4. masked_inputs[i] # None
  BY <1>2, ZenonT(30) DEF OneEventPerInput
<1>5. PICK only \in DOMAIN masked_input_events :
        /\ {m \in DOMAIN masked_input_events :
              i \in Indices(masked_input_events[m].indices)} = {only}
        /\ masked_input_events[only].client = masked_inputs[i]
  BY <1>2, <1>4, ZenonT(30) DEF OneEventPerInput
<1>6. j = only /\ (i \in Indices(masked_input_events[k].indices) => k = only)
  BY <1>5
<1> QED
  BY <1>3, <1>4, <1>5, <1>6, ZenonT(30)

\* What is true of a history is true of the part of it a subscriber has got.
LEMMA PrefixOwned ==
  ASSUME NEW all \in Seq(BatchEvent), NEW got, Len(got) \in Nat, Prefix(got, all), Owned(all)
  PROVE  got \in Seq(BatchEvent) /\ Owned(got)
<1>1. Len(all) \in Nat /\ DOMAIN all = 1..Len(all)
  BY LenProperties
<1>2. \A i \in 1..Len(got) : all[i] \in BatchEvent
  BY <1>1, ElementOfSeq, SMTT(30) DEF Prefix
<1>3. /\ SubSeq(all, 1, Len(got)) \in Seq(BatchEvent)
      /\ \A i \in 1..Len(got) : SubSeq(all, 1, Len(got))[i] = all[i]
  BY <1>2, SubSeqProperties, SMTT(30)
<1>4. got \in Seq(BatchEvent) /\ DOMAIN got = 1..Len(got)
      /\ \A i \in DOMAIN got : got[i] = all[i] /\ i \in DOMAIN all
  BY <1>1, <1>3, LenProperties DEF Prefix
<1> QED
  BY <1>4 DEF Owned

\* When wait_for_indices or wait_for_inputs returns, its result gives clients only
\* their own slots and has all slots, unless one of the events that it took lists a
\* slot twice, for any subscriber, any number of slots and whatever clients list.
THEOREM WaitsComplete == SpecFeeds => []WaitedForAll
<1>1. SpecFeeds => Spec
  <2>1. InitFeeds => Init
    BY DEF InitFeeds
  <2> QED
    BY <2>1, FeedsStep, PTL DEF SpecFeeds, Spec
<1>2. Spec => []Owned(reserved_index_events)
  <2>1. Init => Owned(reserved_index_events)
    BY DEF Init, Owned
  <2> QED
    BY <2>1, ReservationsOwned, InductiveInvariant, PTL DEF Spec
<1>3. IInv /\ OneEventPerInput /\ Owned(reserved_index_events) /\ ReceivedInv => WaitedForAll
  <2> SUFFICES ASSUME IInv, OneEventPerInput, Owned(reserved_index_events), ReceivedInv,
                      NEW s \in Subscriber, feed[s] \in {"reserved", "masked"},
                      WaitReturns(received[s])
               PROVE  /\ \A c \in Client : \A i \in WaitResult(received[s])[c] :
                           reserved_indices[i] = c
                      /\ (\A k \in DOMAIN Awaited(received[s]) :
                            ListsOnce(Awaited(received[s])[k].indices)) =>
                         \A i \in Index : \E c \in Client : i \in WaitResult(received[s])[c]
    BY ZenonT(30) DEF WaitedForAll
  <2> DEFINE all == History[feed[s]]
  <2>1. all \in Seq(BatchEvent) /\ Owned(all)
    BY SubmissionsOwned, SMTT(30) DEF IInv, TypeOK, BatchEvent, History
  <2>2. feed[s] # None
    BY FeedAssumption DEF Feed
  <2>3. Prefix(received[s], all) /\ received[s] \in Seq(Entry)
    BY <2>2, ZenonT(30) DEF ReceivedInv, Exact
  <2>4. Len(received[s]) \in Nat
    BY <2>3, LenProperties, SMTT(30)
  <2>5. received[s] \in Seq(BatchEvent) /\ Owned(received[s])
    BY <2>1, <2>3, <2>4, PrefixOwned, ZenonT(30)
  <2>6. \A c \in Client : \A i \in WaitResult(received[s])[c] : reserved_indices[i] = c
    BY <2>5, WaitOwners, ZenonT(30)
  <2>7. ASSUME \A k \in DOMAIN Awaited(received[s]) :
                 ListsOnce(Awaited(received[s])[k].indices)
        PROVE  \A i \in Index : \E c \in Client : i \in WaitResult(received[s])[c]
    BY <2>5, <2>7, WaitComplete, ZenonT(30)
  <2> QED
    BY <2>6, <2>7, ZenonT(30)
<1> QED
  BY <1>1, <1>2, <1>3, InductiveInvariant, EventsMatchInputs, ReceivedInvariant, PTL

-----------------------------------------------------------------------------
\* A wait for a history that has every slot in it returns.
LEMMA WaitEnds ==
  ASSUME EachSlotOnce, NEW events \in Seq(BatchEvent), Owned(events),
         \A i \in Index : \E k \in DOMAIN events : i \in Indices(events[k].indices)
  PROVE  WaitReturns(events)
<1>1. Len(events) \in Nat /\ DOMAIN events = 1..Len(events)
  BY LenProperties
<1>2. Index \subseteq Seen(events, Len(events))
  BY <1>1 DEF Seen
<1>3. /\ Seen(events, Len(events)) \subseteq Index
      /\ Received(events)[Len(events)] = Cardinality(Seen(events, Len(events)))
  <2>1. Len(events) \in 0..Len(events)
    BY <1>1
  <2> QED
    BY <2>1, EventsListOnce, CountsSlots, ZenonT(30)
<1>4. Seen(events, Len(events)) = Index
  BY <1>2, <1>3, Zenon
<1>5. Cardinality(Index \ {}) = n_inputs - Cardinality({}) /\ Cardinality({}) = 0
  BY SlotSets, FS_EmptySet, Zenon
<1>6. Cardinality(Index) = n_inputs /\ n_inputs \in Nat
  BY <1>5, InputsAssumption
<1> QED
  BY <1>3, <1>4, <1>6 DEF WaitReturns

\* Every reserved slot is in the history of reservations.
ReservedAnnounced ==
  \A i \in Index : reserved_indices[i] # None =>
    \E k \in DOMAIN reserved_index_events : i \in Indices(reserved_index_events[k].indices)

LEMMA ReservedAnnouncedStep ==
  IInv /\ ReservedAnnounced /\ [Next]_vars => ReservedAnnounced'
<1> SUFFICES ASSUME IInv, ReservedAnnounced, [Next]_vars PROVE ReservedAnnounced'
  OBVIOUS
<1>1. CASE UNCHANGED <<reserved_indices, reserved_index_events>>
  BY <1>1 DEF ReservedAnnounced
<1>2. ASSUME NEW c \in Client, NEW batch \in Batches, ReserveMaskIndices(c, batch)
      PROVE  ReservedAnnounced'
  <2> DEFINE old == reserved_index_events
             new == reserved_index_events'
             last == Len(old) + 1
  <2>1. old \in Seq(BatchEvent) /\ Event(c, batch) \in BatchEvent
    BY DEF IInv, TypeOK, BatchEvent, Event
  <2>2. new = Append(old, Event(c, batch))
    BY <1>2 DEF ReserveMaskIndices
  <2>3. /\ DOMAIN new = DOMAIN old \cup {last}
        /\ \A k \in DOMAIN old : new[k] = old[k]
        /\ new[last] = Event(c, batch)
    BY <2>1, <2>2, SMTT(30)
  <2>4. new[last].indices = batch
    BY <2>3, SMTT(30) DEF Event
  <2> HIDE DEF new, last
  <2> SUFFICES ASSUME NEW i \in Index, reserved_indices'[i] # None
               PROVE  \E k \in DOMAIN new : i \in Indices(new[k].indices)
    BY SMTT(30) DEF ReservedAnnounced, new
  <2>5. CASE i \in Indices(batch)
    BY <2>3, <2>4, <2>5, ZenonT(30)
  <2>6. CASE i \notin Indices(batch)
    <3>1. reserved_indices[i] # None
      BY <1>2, <2>6, SMTT(30) DEF ReserveMaskIndices
    <3>2. PICK k \in DOMAIN old : i \in Indices(old[k].indices)
      BY <3>1, SMTT(30) DEF ReservedAnnounced
    <3> QED
      BY <2>3, <3>2, SMTT(30)
  <2> QED
    BY <2>5, <2>6, SMTT(30)
<1>3. \/ UNCHANGED <<reserved_indices, reserved_index_events>>
      \/ \E c \in Client, batch \in Batches : ReserveMaskIndices(c, batch)
  BY DEF Next, Transition, TransitionsDelivered, SubmitMaskedInputs, MaskedInputsSent,
     vars, inputVars
<1> QED
  BY <1>1, <1>2, <1>3

AllReserved == \A i \in Index : reserved_indices[i] # None

\* An honest party proposes InputCollection only when every slot is reserved.
HonestReservations ==
  \A p \in Honest : p \in transition_votes[InputCollection] => AllReserved

\* An honest client reserves all its slots or none.
WholeReservations ==
  \A i, j \in Index :
    reserved_indices[i] # None /\ AssignedClient(j) = reserved_indices[i] =>
      reserved_indices[j] # None

\* What a client reserved stays reserved.
LEMMA ReservedStays ==
  ASSUME IInv, [Next]_vars, NEW i \in Index, reserved_indices[i] # None
  PROVE  reserved_indices'[i] = reserved_indices[i]
<1>1. ASSUME NEW c \in Client, NEW batch \in Batches, ReserveMaskIndices(c, batch)
      PROVE  reserved_indices'[i] = reserved_indices[i]
  BY <1>1, ZenonT(30) DEF ReserveMaskIndices
<1>2. \/ reserved_indices' = reserved_indices
      \/ \E c \in Client, batch \in Batches : ReserveMaskIndices(c, batch)
  BY DEF Next, Transition, TransitionsDelivered, SubmitMaskedInputs, MaskedInputsSent,
     vars, inputVars
<1> QED
  BY <1>1, <1>2, SMTT(30)

LEMMA HonestReservationsStep ==
  ASSUME EachSlotOnce, IInv, Owned(reserved_index_events), HonestReservations,
         [HonestNext]_vars
  PROVE  HonestReservations'
<1>0. [Next]_vars
  BY HonestStep
<1>1. AllReserved => AllReserved'
  BY <1>0, ReservedStays, ZenonT(30) DEF AllReserved
<1>2. CASE transition_votes' = transition_votes
  BY <1>1, <1>2, SMTT(30) DEF HonestReservations
<1>3. ASSUME NEW p \in mpc_nodes, NEW next \in ORDERED_ROUNDS, Transition(p, next),
             p \in Honest => ProtocolAllows(next),
             transition_votes' # transition_votes
      PROVE  HonestReservations'
  <2>1. transition_votes' = [transition_votes EXCEPT ![next] = @ \cup {p}]
    BY <1>3 DEF Transition, vars
  <2>2. p \in Honest /\ next = InputCollection => AllReserved
    <3> SUFFICES ASSUME p \in Honest, next = InputCollection, NEW i \in Index
                 PROVE  reserved_indices[i] # None
      BY DEF AllReserved
    <3>1. WaitReturns(reserved_index_events)
      BY <1>3 DEF ProtocolAllows
    <3>2. reserved_index_events \in Seq(BatchEvent)
      BY DEF IInv, TypeOK, BatchEvent
    <3>3. \E c \in Client : reserved_indices[i] = c
      BY <3>1, <3>2, EventsListOnce, WaitComplete, ZenonT(30)
    <3> QED
      BY <3>3, InputsAssumption, SMTT(30)
  <2>3. InputCollection \in ORDERED_ROUNDS
    BY DEF ORDERED_ROUNDS, Preprocessing, InputCollection, ProgramFinished
  <2>4. \A q \in transition_votes'[InputCollection] :
          q \in transition_votes[InputCollection] \/ (q = p /\ next = InputCollection)
    BY <2>1, <2>3, ZenonT(30) DEF IInv, TypeOK
  <2> QED
    BY <1>1, <2>2, <2>4, SMTT(30) DEF HonestReservations
<1>4. \/ transition_votes' = transition_votes
      \/ \E p \in mpc_nodes, next \in ORDERED_ROUNDS :
           Transition(p, next) /\ (p \in Honest => ProtocolAllows(next))
  BY HonestAssumption DEF HonestNext, HonestTransition, HonestReserve, HonestSubmit,
     TransitionsDelivered, ReserveMaskIndices, SubmitMaskedInputs, MaskedInputsSent, vars
<1> QED
  BY <1>2, <1>3, <1>4

LEMMA WholeReservationsStep ==
  ASSUME IInv, WholeReservations, [HonestNext]_vars
  PROVE  WholeReservations'
<1>1. CASE reserved_indices' = reserved_indices
  BY <1>1 DEF WholeReservations
<1>2. ASSUME NEW c \in Client, NEW batch \in Batches, Indices(batch) = SlotsOf(c),
             ReserveMaskIndices(c, batch)
      PROVE  WholeReservations'
  <2> SUFFICES ASSUME NEW i \in Index, NEW j \in Index, reserved_indices'[i] # None,
                      AssignedClient(j) = reserved_indices'[i]
               PROVE  reserved_indices'[j] # None
    BY ZenonT(30) DEF WholeReservations
  <2>1. reserved_indices' =
          [k \in Index |-> IF k \in SlotsOf(c) THEN c ELSE reserved_indices[k]]
    BY <1>2 DEF ReserveMaskIndices
  <2>2. c # None
    BY InputsAssumption
  <2>3. CASE j \in SlotsOf(c)
    BY <2>1, <2>2, <2>3, SMTT(30)
  <2>4. CASE j \notin SlotsOf(c)
    <3>1. AssignedClient(j) # c
      BY <2>4 DEF SlotsOf
    <3>2. i \notin SlotsOf(c)
      BY <2>1, <3>1
    <3>3. reserved_indices'[i] = reserved_indices[i] /\ reserved_indices'[j] = reserved_indices[j]
      BY <2>1, <2>4, <3>2, ZenonT(30)
    <3> QED
      BY <3>3 DEF WholeReservations
  <2> QED
    BY <2>3, <2>4, ZenonT(30)
<1>3. \/ reserved_indices' = reserved_indices
      \/ \E c \in Client, batch \in Batches :
           Indices(batch) = SlotsOf(c) /\ ReserveMaskIndices(c, batch)
  BY ZenonT(30) DEF HonestNext, HonestTransition, HonestReserve, HonestSubmit, Transition,
     TransitionsDelivered, SubmitMaskedInputs, MaskedInputsSent, vars, inputVars
<1> QED
  BY <1>1, <1>2, <1>3

\* The honest parties alone are a quorum.
LEMMA HonestQuorum ==
  ASSUME IInv, NEW next \in ORDERED_ROUNDS, Honest \subseteq transition_votes[next]
  PROVE  HasQuorum(transition_votes, next)
<1>1. IsFiniteSet(mpc_nodes) /\ Honest \subseteq mpc_nodes
  BY TopologyAssumption, HonestAssumption, SMTT(30)
<1>2. IsFiniteSet(Honest) /\ Cardinality(Honest) \in Nat /\ n \in Nat
  BY <1>1, FS_Subset, FS_CardinalityType, SMTT(30) DEF n
<1>3. mpc_nodes \cap Honest = Honest
  BY <1>1
<1>4. Cardinality(mpc_nodes \ Honest) = n - Cardinality(Honest)
  BY <1>1, <1>3, FS_Difference, SMTT(30) DEF n
<1>5. transition_votes[next] \subseteq mpc_nodes
  BY DEF IInv, TypeOK
<1>6. /\ IsFiniteSet(transition_votes[next])
      /\ Cardinality(Honest) <= Cardinality(transition_votes[next])
      /\ Cardinality(transition_votes[next]) \in Nat
  BY <1>1, <1>5, FS_Subset, FS_CardinalityType, ZenonT(30)
<1>7. transition_quorum(n, t) <= n - t /\ transition_quorum(n, t) \in Nat /\ t \in Nat
  BY QuorumBounds, TopologyAssumption
<1> QED
  BY <1>2, <1>4, <1>6, <1>7, HonestAssumption, SMTT(30) DEF HasQuorum

\* The state of an honest execution, as far as who has to act is concerned.
HonestInv ==
  /\ IInv /\ NoStrandedProposal /\ OneHonestProposer /\ OneEventPerInput
  /\ ThroughMPC
  /\ Owned(reserved_index_events) /\ ReservedAnnounced
  /\ HonestReservations /\ WholeReservations

LEMMA HonestInvariant ==
  ASSUME EachSlotOnce
  PROVE  HonestSpec => []HonestInv
<1>1. Init => /\ Owned(reserved_index_events) /\ ReservedAnnounced
              /\ HonestReservations /\ WholeReservations /\ ThroughMPC
  BY DEF Init, Owned, ReservedAnnounced, HonestReservations, WholeReservations, ThroughMPC,
     Idle, InputCollection, MPCExecution, ORDERED_ROUNDS, Preprocessing, ProgramFinished
<1>2. HonestSpec => Spec
  BY HonestStep, PTL DEF HonestSpec, Spec
<1>3. HonestSpec => [](IInv /\ NoStrandedProposal /\ OneHonestProposer /\ OneEventPerInput)
  BY <1>2, InductiveInvariant, ProposalsNotStranded, HonestProposer, EventsMatchInputs, PTL
<1>4. HonestSpec => [](ThroughMPC /\ Owned(reserved_index_events) /\ ReservedAnnounced)
  BY <1>1, <1>3, ThroughMPCStep, ReservationsOwned, ReservedAnnouncedStep, HonestStep, PTL
  DEF HonestSpec
<1>5. IInv /\ Owned(reserved_index_events) /\ HonestReservations /\ [HonestNext]_vars =>
        HonestReservations'
  BY HonestReservationsStep
<1>6. IInv /\ WholeReservations /\ [HonestNext]_vars => WholeReservations'
  BY WholeReservationsStep
<1>7. HonestSpec => [](HonestReservations /\ WholeReservations)
  BY <1>1, <1>3, <1>4, <1>5, <1>6, PTL DEF HonestSpec
<1>8. /\ IInv /\ NoStrandedProposal /\ OneHonestProposer /\ OneEventPerInput
      /\ ThroughMPC /\ Owned(reserved_index_events) /\ ReservedAnnounced
      /\ HonestReservations /\ WholeReservations
      => HonestInv
  BY DEF HonestInv
<1> QED
  BY <1>3, <1>4, <1>7, <1>8, PTL

\* In InputCollection every slot is reserved, because an honest party proposed it.
LEMMA CollectionReserved ==
  ASSUME HonestInv, round = InputCollection
  PROVE  AllReserved
<1>1. InputCollection \in trans_events
  BY DEF HonestInv, ThroughMPC, Idle, InputCollection
<1>2. transition_votes[InputCollection] \ (mpc_nodes \ Honest) # {}
  BY <1>1, HonestAssumption, SMTT(30) DEF HonestInv, OneHonestProposer
<1>3. transition_votes[InputCollection] \subseteq mpc_nodes
  BY <1>1, SMTT(30) DEF HonestInv, IInv, TypeOK
<1> QED
  BY <1>2, <1>3, SMTT(30) DEF HonestInv, HonestReservations

\* When not all slots are reserved, a client's call would be taken.
LEMMA SomebodyReserves ==
  ASSUME HonestInv, Len(input_assignments) = n_inputs, ~AllReserved
  PROVE  \E c \in Client : /\ SlotsOf(c) # {}
                           /\ \A i \in Index : reserved_indices[i] # c
                           /\ \A i \in SlotsOf(c) : reserved_indices[i] = None
<1>1. PICK i \in Index : reserved_indices[i] = None
  BY DEF AllReserved
<1>2. \A j \in Index : AssignedClient(j) \in Client
  BY InputsAssumption DEF AssignedClient, Index
<1> DEFINE c == AssignedClient(i)
<1>3. c \in Client /\ c # None /\ i \in SlotsOf(c)
  BY <1>2, InputsAssumption DEF SlotsOf
<1> HIDE DEF c
<1>4. \A j \in Index : reserved_indices[j] # c
  <2> SUFFICES ASSUME NEW j \in Index, reserved_indices[j] = c PROVE FALSE
    OBVIOUS
  <2>1. reserved_indices[j] # None /\ AssignedClient(i) = reserved_indices[j]
    BY <1>3 DEF c
  <2> QED
    BY <1>1, <2>1, ZenonT(30) DEF HonestInv, WholeReservations
<1>5. ASSUME NEW j \in SlotsOf(c)
      PROVE  reserved_indices[j] = None
  <2>1. j \in Index /\ AssignedClient(j) = c
    BY DEF SlotsOf
  <2>2. reserved_indices[j] # None => reserved_indices[j] = c
    BY <1>3, <2>1 DEF HonestInv, IInv, InputProvenance
  <2> QED
    BY <1>4, <2>1, <2>2, SMTT(30)
<1> QED
  BY <1>3, <1>4, <1>5, SMTT(30)

\* What liveness rests on, for any number of parties, clients and slots and any t of
\* the parties faulty: an honest execution is never stuck before it has finished.  The
\* honest parties are a quorum, no quorum is left unattended, a wait that does not
\* return is short of a slot, and a client is refused nothing that it has to do.  The
\* wait loops count indices, so a call that lists a slot twice could make a party
\* propose InputCollection with a slot that nobody can fill any more (transition,
\* wait_for_indices, wait_for_inputs, reserve_mask_indices, submit_masked_inputs).
THEOREM HonestNeverStuck ==
  ASSUME EachSlotOnce, Len(input_assignments) = n_inputs
  PROVE  HonestSpec => []NeverStuck
<1>1. HonestInv => NeverStuck
  <2> SUFFICES ASSUME HonestInv PROVE NeverStuck
    BY SMTT(30)
  <2> SUFFICES ASSUME round # ProgramFinished, delivery = "free",
                      ~(/\ ProtocolAllows(round + 1)
                        /\ \E p \in Honest : p \notin transition_votes[round + 1])
               PROVE  \/ round = InputMaskReservation /\ ~AllReserved
                      \/ round = InputCollection /\ ~AllInputsSubmitted
    <3>1. round = InputCollection /\ ~AllInputsSubmitted =>
            \E i \in Index : reserved_indices[i] # None /\ masked_inputs[i] = None
      BY CollectionReserved, SMTT(30) DEF AllReserved, AllInputsSubmitted
    <3> QED
      BY <3>1, SomebodyReserves, ZenonT(30) DEF NeverStuck
  <2>1. /\ round \in 0..5 /\ round + 1 \in ORDERED_ROUNDS
        /\ InputCollection = 3 /\ MPCExecution = 4 /\ InputMaskReservation = 2
    BY SMTT(30) DEF HonestInv, IInv, TypeOK, Round, ORDERED_ROUNDS, Idle, Preprocessing,
       ProgramFinished, InputMaskReservation, InputCollection, MPCExecution
  <2>2. CASE ProtocolAllows(round + 1)
    <3>1. HasQuorum(transition_votes, round + 1)
      BY <2>1, <2>2, HonestQuorum, ZenonT(30) DEF HonestInv
    <3>2. Follows(round, round + 1)
      BY <2>1 DEF Follows, round_before
    <3> QED
      BY <2>1, <3>1, <3>2, ZenonT(30) DEF HonestInv, NoStrandedProposal
  <2>3. CASE ~ProtocolAllows(round + 1)
    <3>1. \/ round = InputMaskReservation /\ ~WaitReturns(reserved_index_events)
          \/ round = InputCollection /\ ~WaitReturns(masked_input_events)
      BY <2>1, <2>3, SMTT(30) DEF ProtocolAllows
    <3>2. AllReserved => WaitReturns(reserved_index_events)
      <4>1. reserved_index_events \in Seq(BatchEvent)
        BY SMTT(30) DEF HonestInv, IInv, TypeOK, BatchEvent
      <4> QED
        BY <4>1, WaitEnds, SMTT(30) DEF HonestInv, ReservedAnnounced, AllReserved
    <3>3. AllInputsSubmitted => WaitReturns(masked_input_events)
      <4>1. masked_input_events \in Seq(BatchEvent) /\ Owned(masked_input_events)
        BY SubmissionsOwned, ZenonT(30) DEF HonestInv, IInv, TypeOK, BatchEvent
      <4>2. ASSUME NEW i \in Index, masked_inputs[i] # None
            PROVE  \E k \in DOMAIN masked_input_events :
                     i \in Indices(masked_input_events[k].indices)
        BY <4>2, SMTT(30) DEF HonestInv, OneEventPerInput
      <4> QED
        BY <4>1, <4>2, WaitEnds, ZenonT(30) DEF AllInputsSubmitted
    <3> QED
      BY <3>1, <3>2, <3>3, ZenonT(30)
  <2> QED
    BY <2>2, <2>3
<1> QED
  BY <1>1, HonestInvariant, PTL

-----------------------------------------------------------------------------
\* A counter that has seen a part of a history is not ahead of the whole of it.
LEMMA ReceivedPrefix ==
  ASSUME NEW all \in Seq(BatchEvent), NEW got \in Seq(BatchEvent), Prefix(got, all)
  PROVE  Received(got)[Len(got)] <= Received(all)[Len(all)]
<1> DEFINE G == Received(got)
           A == Received(all)
           N == Len(got)
           M == Len(all)
           S == {k \in 0..N : G[k] = A[k]}
           T == {k \in 0..M : \A j \in 0..k : A[j] <= A[k]}
<1>1. N \in Nat /\ M \in Nat /\ N <= M
  BY LenProperties, ZenonT(30) DEF Prefix
<1>2. \A k \in 1..N : got[k] = all[k] /\ k \in 1..M
  BY <1>1, SubSeqProperties, SMTT(30) DEF Prefix
<1>3. /\ G \in [0..N -> Nat] /\ G[0] = 0
      /\ \A k \in 1..N : G[k] = G[k - 1] + Len(got[k].indices)
      /\ A \in [0..M -> Nat] /\ A[0] = 0
      /\ \A k \in 1..M : A[k] = A[k - 1] + Len(all[k].indices)
  BY ReceivedSums, ZenonT(30)
<1>4. \A k \in 1..M : Len(all[k].indices) \in Nat
  BY BatchSize, ElementOfSeq DEF BatchEvent
<1> HIDE DEF G, A, N, M
<1>5. N \in S
  <2>1. 0 \in S
    BY <1>1, <1>3, SMTT(30)
  <2>2. \A k \in 1..N : k - 1 \in S => k \in S
    <3> SUFFICES ASSUME NEW k \in 1..N, G[k - 1] = A[k - 1]
                 PROVE  k \in 0..N /\ G[k] = A[k]
      BY SMTT(30)
    <3>1. k \in 0..N /\ k \in 1..M /\ got[k] = all[k]
      BY <1>1, <1>2
    <3>2. G[k] = G[k - 1] + Len(got[k].indices) /\ A[k] = A[k - 1] + Len(all[k].indices)
      BY <1>3, <3>1, Zenon
    <3> QED
      BY <3>1, <3>2, ZenonT(30)
  <2> HIDE DEF S
  <2>3. 0..N \subseteq S
    BY <1>1, <2>1, <2>2, InductionUpTo, ZenonT(30)
  <2> QED
    BY <1>1, <2>3, SMTT(30)
<1>6. M \in T
  <2>1. 0 \in T
    BY <1>1, <1>3, SMTT(30)
  <2>2. ASSUME NEW k \in 1..M, k - 1 \in T
        PROVE  k \in T
    <3>1. /\ k - 1 \in 0..M /\ k \in 0..M /\ A[k - 1] \in Nat /\ A[k] \in Nat
          /\ A[k - 1] <= A[k]
      <4>1. k - 1 \in 0..M /\ k \in 0..M
        BY <1>1
      <4>2. A[k - 1] \in Nat /\ A[k] \in Nat
        BY <1>3, <4>1, ZenonT(30)
      <4>3. A[k] = A[k - 1] + Len(all[k].indices) /\ Len(all[k].indices) \in Nat
        BY <1>3, <1>4, ZenonT(30)
      <4> QED
        BY <4>1, <4>2, <4>3
    <3>2. ASSUME NEW j \in 0..k
          PROVE  A[j] <= A[k]
      <4>1. j = k \/ j \in 0..(k - 1)
        OBVIOUS
      <4>2. A[j] \in Nat
        BY <1>1, <1>3
      <4> QED
        BY <2>2, <3>1, <4>1, <4>2, SMTT(30)
    <3> QED
      BY <3>1, <3>2, SMTT(30)
  <2>3. \A k \in 1..M : k - 1 \in T => k \in T
    BY <2>2, Zenon
  <2> HIDE DEF T
  <2>4. 0..M \subseteq T
    BY <1>1, <2>1, <2>3, InductionUpTo, ZenonT(30)
  <2> QED
    BY <1>1, <2>4, SMTT(30)
<1>7. G[N] = A[N] /\ A[N] <= A[M]
  BY <1>1, <1>5, <1>6
<1> QED
  BY <1>7 DEF G, A, N, M

\* What a party that waits goes by is what the coordinator has recorded: a wait
\* that returned would also return on the whole history, whatever calls repeat, and
\* a subscription that is kept returns as soon as the history allows it.  This is
\* what HonestExecution takes a wait for (wait_for_indices, wait_for_inputs,
\* sub_reserved_indices, sub_masked_inputs).
THEOREM WaitsAgree ==
  SpecFeeds => [](\A s \in {x \in Subscriber : feed[x] \in {"reserved", "masked"}} :
                    /\ WaitReturns(received[s]) => WaitReturns(History[feed[s]])
                    /\ s \in feed_sinks[feed[s]] =>
                         (WaitReturns(received[s]) <=> WaitReturns(History[feed[s]])))
<1> DEFINE Agree(s) == /\ WaitReturns(received[s]) => WaitReturns(History[feed[s]])
                       /\ s \in feed_sinks[feed[s]] =>
                            (WaitReturns(received[s]) <=> WaitReturns(History[feed[s]]))
<1>1. IInv /\ ReceivedInv /\ FeedExact =>
        \A s \in {x \in Subscriber : feed[x] \in {"reserved", "masked"}} : Agree(s)
  <2> SUFFICES ASSUME IInv, ReceivedInv, FeedExact,
                      NEW s \in Subscriber, feed[s] \in {"reserved", "masked"}
               PROVE  Agree(s)
    BY ZenonT(30)
  <2> DEFINE all == History[feed[s]]
             got == received[s]
  <2>1. all \in Seq(BatchEvent)
    BY SMTT(30) DEF IInv, TypeOK, BatchEvent, History
  <2>2. feed[s] # None
    BY FeedAssumption DEF Feed
  <2>3. Prefix(got, all) /\ got \in Seq(Entry)
    BY <2>2, ZenonT(30) DEF ReceivedInv, Exact
  <2>4. s \in feed_sinks[feed[s]] => got = all
    BY <2>2, ZenonT(30) DEF FeedExact
  <2> HIDE DEF all, got
  <2>5. Len(got) \in Nat /\ Len(all) \in Nat
    BY <2>1, <2>3, LenProperties, SMTT(30)
  <2>6. got \in Seq(BatchEvent)
    <3>1. \A i \in 1..Len(got) : all[i] \in BatchEvent
      BY <2>1, <2>3, <2>5, ElementOfSeq, SMTT(30) DEF Prefix
    <3>2. SubSeq(all, 1, Len(got)) \in Seq(BatchEvent)
      BY <2>5, <3>1, SubSeqProperties, SMTT(30)
    <3> QED
      BY <2>3, <3>2, SMTT(30) DEF Prefix
  <2>7. Received(got)[Len(got)] <= Received(all)[Len(all)]
    BY <2>1, <2>3, <2>6, ReceivedPrefix, SMTT(30)
  <2>8. Received(got)[Len(got)] \in Nat /\ Received(all)[Len(all)] \in Nat
    <3>1. Len(got) \in 0..Len(got) /\ Len(all) \in 0..Len(all)
      BY <2>5
    <3>2. /\ Received(got) \in [0..Len(got) -> Nat]
          /\ Received(all) \in [0..Len(all) -> Nat]
      BY <2>1, <2>6, ReceivedSums, ZenonT(30)
    <3> QED
      BY <3>1, <3>2, SMTT(30)
  <2>9. WaitReturns(got) => WaitReturns(all)
    BY <2>7, <2>8, InputsAssumption DEF WaitReturns
  <2> QED
    BY <2>4, <2>9, SMTT(30) DEF got, all
<1> QED
  BY <1>1, FeedsIInv, ReceivedInvariant, FeedsExact, PTL
===============================================================================
