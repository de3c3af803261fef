------------------------------ MODULE EventFeeds ------------------------------
(***************************************************************************)
(* The subscriptions of one execution: the four event feeds that nodes     *)
(* follow (reserved indices, masked inputs, and the assigned form of both) *)
(* and the subscriptions to a round.  Each action is the action of         *)
(* CoordinatorExecution it extends, with what the handler does to sinks.   *)
(*                                                                         *)
(* A send succeeds, or fails because the subscriber is gone or does not    *)
(* take the message within SUBSCRIPTION_SEND_TIMEOUT; a sink whose send    *)
(* failed is dropped.  The state lock is held while a history is replayed  *)
(* and while a reservation is broadcast, but not while masked inputs are.  *)
(***************************************************************************)
EXTENDS CoordinatorExecution, FiniteSetsExt

CONSTANTS
  Subscriber,  \* subscriptions to a feed
  Waiter       \* subscriptions to a round

VARIABLES
  assigned_reserved_index_events, \* history of AssignedMaskReservations
  assigned_masked_input_events,   \* history of AssignedMaskedInputEvents
  feed,        \* the feed a subscription was opened on
  feed_sinks,  \* for every feed, the sinks events are sent to
  taken,       \* the sinks taken out of feed_sinks by the submission under way
  received,    \* what a subscription has received
  closed,      \* the subscriptions whose sink was dropped after a failed send
  awaits,      \* the round a waiter subscribed to, Idle before it does
  sinks,       \* for every round, the sinks waiting for it
  announcing,  \* the sinks taken out of sinks by the transitions under way
  told         \* the waiters that have received their event

feedVars == <<assigned_reserved_index_events, assigned_masked_input_events,
              feed, feed_sinks, taken, received, closed>>
roundVars == <<awaits, sinks, announcing, told>>
allVars == <<vars, feedVars, roundVars>>

Feed == {"reserved", "masked", "assigned_reserved", "assigned_masked"}

ASSUME FeedAssumption == None \notin Feed

History == [reserved          |-> reserved_index_events,
            masked            |-> masked_input_events,
            assigned_reserved |-> assigned_reserved_index_events,
            assigned_masked   |-> assigned_masked_input_events]

\* The assigned form of a batch: an entry for each index, if slots are assigned.
AssignedEvents(c, batch) ==
  IF input_assignments = <<>> THEN <<>>
  ELSE [k \in DOMAIN batch |-> [client |-> c, index |-> batch[k]]]

Deliver(ok, entries) ==
  received' = [s \in Subscriber |->
                IF s \in ok THEN received[s] \o entries[s] ELSE received[s]]

-----------------------------------------------------------------------------
InitFeeds ==
  /\ Init
  /\ assigned_reserved_index_events = <<>>
  /\ assigned_masked_input_events = <<>>
  /\ feed = [s \in Subscriber |-> None]
  /\ feed_sinks = [f \in Feed |-> {}]
  /\ taken = {}
  /\ received = [s \in Subscriber |-> <<>>]
  /\ closed = {}
  /\ awaits = [w \in Waiter |-> Idle]
  /\ sinks = [r \in ORDERED_ROUNDS |-> {}]
  /\ announcing = {}
  /\ told = {}

\* A subscription replays the history one message per event, the assigned
\* feeds all in one message, and joins the sinks when every send succeeded.
Subscribe(s, f) ==
  /\ feed[s] = None
  /\ feed' = [feed EXCEPT ![s] = f]
  /\ \E sent \in 0..Len(History[f]) :
       /\ f \in {"assigned_reserved", "assigned_masked"}
          => sent \in {0, Len(History[f])}
       /\ received' = [received EXCEPT ![s] = SubSeq(History[f], 1, sent)]
       /\ IF sent = Len(History[f])
          THEN feed_sinks' = [feed_sinks EXCEPT ![f] = @ \cup {s}] /\ UNCHANGED closed
          ELSE closed' = closed \cup {s} /\ UNCHANGED feed_sinks
  /\ UNCHANGED <<vars, assigned_reserved_index_events,
                 assigned_masked_input_events, taken, roundVars>>

sub_reserved_indices(s) == Subscribe(s, "reserved")

sub_masked_inputs(s) == Subscribe(s, "masked")

sub_assigned_reserved_indices(s) == Subscribe(s, "assigned_reserved")

sub_assigned_masked_inputs(s) == Subscribe(s, "assigned_masked")

\* reserve_mask_indices broadcasts under the state lock and prunes the sinks.
FeedReserve(c, batch) ==
  LET more == AssignedEvents(c, batch)
      live == feed_sinks["reserved"]
      liveAssigned == IF more = <<>> THEN {} ELSE feed_sinks["assigned_reserved"]
  IN  /\ ReserveMaskIndices(c, batch)
      /\ assigned_reserved_index_events' = assigned_reserved_index_events \o more
      /\ \E ok \in SUBSET (live \cup liveAssigned) :
           /\ Deliver(ok, [s \in ok |-> IF s \in live THEN <<Event(c, batch)>> ELSE more])
           /\ feed_sinks' = [feed_sinks EXCEPT
                !["reserved"] = @ \cap ok,
                !["assigned_reserved"] = IF more = <<>> THEN @ ELSE @ \cap ok]
           /\ closed' = closed \cup ((live \cup liveAssigned) \ ok)
      /\ UNCHANGED <<assigned_masked_input_events, feed, taken, roundVars>>

\* submit_masked_inputs takes the sinks out before it releases the state lock.
FeedSubmit(c, batch) ==
  LET more == AssignedEvents(c, batch)
  IN  /\ SubmitMaskedInputs(c, batch)
      /\ assigned_masked_input_events' = assigned_masked_input_events \o more
      /\ taken' = feed_sinks["masked"] \cup
                  (IF more = <<>> THEN {} ELSE feed_sinks["assigned_masked"])
      /\ feed_sinks' = [feed_sinks EXCEPT
           !["masked"] = {},
           !["assigned_masked"] = IF more = <<>> THEN @ ELSE {}]
      /\ UNCHANGED <<assigned_reserved_index_events, feed, received,
                     closed, roundVars>>

\* The sinks of the rounds that a step enters are taken out for delivery.
TakeRoundSinks ==
  LET entered == trans_events' \ trans_events
  IN  /\ announcing' = announcing \cup UNION {sinks[r] : r \in entered}
      /\ sinks' = [r \in ORDERED_ROUNDS |-> IF r \in entered THEN {} ELSE sinks[r]]
      /\ UNCHANGED <<awaits, told>>

\* Fault: the event also goes to the sinks that joined, and replayed it, while
\* it was being sent.
FeedSent_ToJoined ==
  LET event == masked_input_events[Len(masked_input_events)]
      more == AssignedEvents(event.client, event.indices)
  IN  /\ MaskedInputsSent
      /\ \E ok \in SUBSET (taken \cup feed_sinks["masked"]) :
           /\ Deliver(ok, [s \in ok |-> IF feed[s] = "masked" THEN <<event>> ELSE more])
           /\ feed_sinks' = [f \in Feed |-> feed_sinks[f] \cup {s \in ok : feed[s] = f}]
           /\ closed' = closed \cup (taken \ ok)
      /\ taken' = {}
      /\ TakeRoundSinks
      /\ UNCHANGED <<assigned_reserved_index_events, assigned_masked_input_events, feed>>

\* Fault: the sinks taken out replace the ones that joined meanwhile.
FeedSent_Replaces ==
  LET event == masked_input_events[Len(masked_input_events)]
      more == AssignedEvents(event.client, event.indices)
  IN  /\ MaskedInputsSent
      /\ \E ok \in SUBSET taken :
           /\ Deliver(ok, [s \in ok |-> IF feed[s] = "masked" THEN <<event>> ELSE more])
           /\ feed_sinks' = [feed_sinks EXCEPT !["masked"] = {s \in ok : feed[s] = "masked"}]
           /\ closed' = closed \cup (taken \ ok)
      /\ taken' = {}
      /\ TakeRoundSinks
      /\ UNCHANGED <<assigned_reserved_index_events, assigned_masked_input_events, feed>>

\* The sends of a submission end; the sinks that took the event go back next
\* to the ones that subscribed in the meantime.
FeedSent ==
  LET event == masked_input_events[Len(masked_input_events)]
      more == AssignedEvents(event.client, event.indices)
  IN  /\ MaskedInputsSent
      /\ \E ok \in SUBSET taken :
           /\ Deliver(ok, [s \in ok |-> IF feed[s] = "masked" THEN <<event>> ELSE more])
           /\ feed_sinks' = [f \in Feed |-> feed_sinks[f] \cup {s \in ok : feed[s] = f}]
           /\ closed' = closed \cup (taken \ ok)
      /\ taken' = {}
      /\ TakeRoundSinks
      /\ UNCHANGED <<assigned_reserved_index_events, assigned_masked_input_events, feed>>

FeedTransition(p, next) ==
  /\ Transition(p, next)
  /\ TakeRoundSinks
  /\ UNCHANGED feedVars

\* deliver_transitions sends to every sink once and drops them all.
FeedTransitionsDelivered ==
  /\ TransitionsDelivered
  /\ \E ok \in SUBSET announcing : told' = told \cup ok
  /\ announcing' = {}
  /\ UNCHANGED <<feedVars, awaits, sinks>>

\* Fault: a round that has been entered is not replayed.
SubRound_NoReplay(w, r) ==
  /\ awaits[w] = Idle
  /\ awaits' = [awaits EXCEPT ![w] = r]
  /\ sinks' = [sinks EXCEPT ![r] = @ \cup {w}]
  /\ UNCHANGED <<vars, feedVars, announcing, told>>

\* sub_round replays a round that has been entered and waits for another.
SubRound(w, r) ==
  /\ awaits[w] = Idle
  /\ awaits' = [awaits EXCEPT ![w] = r]
  /\ IF r \in trans_events
     THEN \E ok \in SUBSET {w} : told' = told \cup ok /\ UNCHANGED sinks
     ELSE sinks' = [sinks EXCEPT ![r] = @ \cup {w}] /\ UNCHANGED told
  /\ UNCHANGED <<vars, feedVars, announcing>>

NextFeeds ==
  \/ \E p \in mpc_nodes, next \in ORDERED_ROUNDS : FeedTransition(p, next)
  \/ FeedTransitionsDelivered
  \/ \E c \in Client, batch \in Batches : FeedReserve(c, batch)
  \/ \E c \in Client, batch \in Batches : FeedSubmit(c, batch)
  \/ FeedSent
  \/ \E s \in Subscriber : sub_reserved_indices(s)
  \/ \E s \in Subscriber : sub_masked_inputs(s)
  \/ \E s \in Subscriber : sub_assigned_reserved_indices(s)
  \/ \E s \in Subscriber : sub_assigned_masked_inputs(s)
  \/ \E w \in Waiter, r \in ORDERED_ROUNDS : SubRound(w, r)

SpecFeeds == InitFeeds /\ [][NextFeeds]_allVars

-----------------------------------------------------------------------------
\* The events that wait_for_indices or wait_for_inputs takes until it returns.
Awaited(events) ==
  SubSeq(events, 1, Min({k \in 0..Len(events) : Received(events)[k] >= n_inputs}))

\* The map that is returned: for every client, the slots it was seen with.
WaitResult(events) ==
  LET seen == Awaited(events)
  IN  [c \in Client |-> UNION {Indices(seen[k].indices) :
                                 k \in {j \in DOMAIN seen : seen[j].client = c}}]

-----------------------------------------------------------------------------
\* Types of the feeds and of the execution under them.
TypeOKFeeds ==
  /\ TypeOK
  /\ assigned_reserved_index_events \in Seq([client : Client, index : Index])
  /\ assigned_masked_input_events \in Seq([client : Client, index : Index])
  /\ feed \in [Subscriber -> Feed \cup {None}]
  /\ feed_sinks \in [Feed -> SUBSET Subscriber]
  /\ taken \subseteq Subscriber
  /\ DOMAIN received = Subscriber
  /\ closed \subseteq Subscriber
  /\ awaits \in [Waiter -> Round]
  /\ sinks \in [ORDERED_ROUNDS -> SUBSET Waiter]
  /\ announcing \subseteq Waiter
  /\ told \subseteq Waiter

\* A subscription receives every event of its feed once and in order, whether
\* by replay or live: what it has received is the history, less the event that
\* is being sent to it, for as long as its sink is kept, and a prefix of the
\* history after it was dropped.
FeedExact ==
  \A s \in {x \in Subscriber : feed[x] # None} :
    LET got == received[s]
        all == History[feed[s]]
    IN  /\ Len(got) <= Len(all) /\ got = SubSeq(all, 1, Len(got))
        /\ s \in feed_sinks[feed[s]] => got = all
        /\ s \in taken => Len(got) < Len(all)

\* A sink is kept until a send to it fails: taking the lists out during a
\* submission loses neither the sinks in them nor the ones that join meanwhile,
\* and puts none of them into two places.
NoSinkForgotten ==
  \A s \in {x \in Subscriber : feed[x] # None} :
    LET kept == feed_sinks[feed[s]]
    IN  \/ s \in kept \ (taken \cup closed)
        \/ s \in taken \ (kept \cup closed)
        \/ s \in closed \ (kept \cup taken)

\* The rounds that the execution has gone past without entering them.
Skipped(r) ==
  \/ /\ r \in {InputMaskReservation, InputCollection}
     /\ round >= MPCExecution
     /\ InputCollection \notin trans_events
  \/ r = OutputDistribution /\ round = ProgramFinished

\* A waiter is told at most once, of a round that has been entered.  It stays
\* parked only for a round still ahead or for one that was skipped: sub_round
\* and try_advance leave nobody waiting for a round the execution went through.
WaitersNotLost ==
  \A w \in Waiter :
    /\ \A r \in ORDERED_ROUNDS : w \in sinks[r] =>
         /\ awaits[w] = r /\ w \notin announcing \cup told
         /\ r \notin trans_events
         /\ r > round \/ Skipped(r)
    /\ w \in announcing => w \notin told
    /\ w \in announcing \cup told => awaits[w] \in trans_events

\* MPCStarted does not overtake a masked input: from the moment it is on its
\* way to a waiter, no masked input is still being sent, because transition
\* waits for the mutex that submit_masked_inputs holds until its sends end.
InputsBeforeMPCStarted ==
  (\E w \in announcing \cup told : awaits[w] >= MPCExecution) => taken = {}

\* When wait_for_indices or wait_for_inputs returns, it gives every client only
\* slots that the client reserved, and no slot is missing unless one of the
\* events it took lists a slot twice: both loops count indices, not slots, and
\* neither reserve_mask_indices nor submit_masked_inputs refuses a repetition.
WaitedForAll ==
  \A s \in {x \in Subscriber : feed[x] \in {"reserved", "masked"}} :
    WaitReturns(received[s]) =>
      LET seen   == Awaited(received[s])
          result == WaitResult(received[s])
      IN  /\ \A c \in Client : \A i \in result[c] : reserved_indices[i] = c
          /\ \/ \A i \in Index : \E c \in Client : i \in result[c]
             \/ \E k \in DOMAIN seen : ~ListsOnce(seen[k].indices)
===============================================================================
