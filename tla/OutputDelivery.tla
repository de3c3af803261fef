---------------------------- MODULE OutputDelivery ----------------------------
(***************************************************************************)
(* The way of one client's output shares through the coordinator           *)
(* (off-chain/src/lib.rs): parties send them (send_output_shares), the     *)
(* client subscribes to them (obtain_output_shares), and every handler     *)
(* that changed something drops the state lock and then delivers what is   *)
(* ready (deliver_ready_output_waiters): it takes the lock again for a     *)
(* snapshot and sends the snapshot without the lock.  Sinks and shares are *)
(* keyed by client, so clients do not influence each other.                *)
(*                                                                         *)
(* The client side is obtain_outputs.  A share is what the client finds    *)
(* when it opens it: good, wrong (opens, but does not belong to the        *)
(* output), short (the wrong number of outputs) or unreadable.             *)
(***************************************************************************)
EXTENDS Integers, FiniteSets, Sequences

CONSTANTS
  mpc_nodes,
  Connection,          \* subscriptions the client may open
  Share,               \* the kinds of share that parties send
  None,
  min_output_shares,   \* what the coordinator waits for
  min_shares           \* what the client's sharing scheme needs

\* A handler is named by the party or the connection it serves.
Handler == mpc_nodes \cup Connection

ASSUME OutputAssumption ==
  /\ IsFiniteSet(mpc_nodes)
  /\ mpc_nodes \cap Connection = {}
  /\ None \notin Handler \cup Share \cup {"outputs", "error"}
  /\ "good" \in Share
  /\ Share \subseteq {"good", "wrong", "short", "unreadable"}
  /\ min_output_shares \in 1..Cardinality(mpc_nodes)
  /\ min_shares \in Nat \ {0}

VARIABLES
  output_shares,   \* per party, the share it sent
  output_sink,     \* the connection in output_sinks, or None
  subscription,    \* per connection, where its subscription stands
  stage,           \* per handler, where it is
  snapshot,        \* per handler, what it is sending
  queue,           \* per connection, the snapshots the client has yet to take
  offered,         \* per connection, the snapshots sent to it while it lives
  outcome          \* per connection, what obtain_outputs returned

vars == <<output_shares, output_sink, subscription, stage, snapshot, queue,
          offered, outcome>>

Sent == {p \in mpc_nodes : output_shares[p] # None}

Nothing == [sink |-> None, shares |-> {}]

is_closed(c) == subscription[c] = "closed"

OpenSink == output_sink # None /\ ~is_closed(output_sink)

Init ==
  /\ output_shares = [p \in mpc_nodes |-> None]
  /\ output_sink = None
  /\ subscription = [c \in Connection |-> "none"]
  /\ stage = [h \in Handler |-> "idle"]
  /\ snapshot = [h \in Handler |-> Nothing]
  /\ queue = [c \in Connection |-> <<>>]
  /\ offered = [c \in Connection |-> {}]
  /\ outcome = [c \in Connection |-> None]

-----------------------------------------------------------------------------
\* A party sends its share, once, and goes on to deliver it.
send_output_shares(p, share) ==
  /\ p \notin Sent
  /\ output_shares' = [output_shares EXCEPT ![p] = share]
  /\ stage' = [stage EXCEPT ![p] = "ready"]
  /\ UNCHANGED <<output_sink, subscription, snapshot, queue, offered, outcome>>

\* A subscription is refused while another one is open, else its handshake
\* starts, without the lock.
ObtainRequested(c) ==
  /\ subscription[c] = "none"
  /\ subscription' = [subscription EXCEPT ![c] =
                        IF OpenSink THEN "closed" ELSE "accepting"]
  /\ UNCHANGED <<output_shares, output_sink, stage, snapshot, queue, offered,
                 outcome>>

\* Fault: it is not checked again whether another subscription is open.
ObtainAccepted_NoRecheck(c) ==
  /\ subscription[c] = "accepting"
  /\ subscription' = [subscription EXCEPT ![c] = "open"]
  /\ output_sink' = c
  /\ stage' = [stage EXCEPT ![c] = "ready"]
  /\ UNCHANGED <<output_shares, snapshot, queue, offered, outcome>>

\* The handshake is over.  If another one was faster the sink is dropped.
ObtainAccepted(c) ==
  /\ subscription[c] = "accepting"
  /\ IF OpenSink
     THEN /\ subscription' = [subscription EXCEPT ![c] = "closed"]
          /\ UNCHANGED <<output_sink, stage>>
     ELSE /\ subscription' = [subscription EXCEPT ![c] = "open"]
          /\ output_sink' = c
          /\ stage' = [stage EXCEPT ![c] = "ready"]
  /\ UNCHANGED <<output_shares, snapshot, queue, offered, outcome>>

\* The shape of ready_output_snapshot for a condition on what is ready.
SnapshotIf(h, ready) ==
  /\ stage[h] = "ready"
  /\ output_sink' = IF OpenSink THEN output_sink ELSE None
  /\ IF ready
     THEN /\ stage' = [stage EXCEPT ![h] = "sending"]
          /\ snapshot' = [snapshot EXCEPT ![h] =
                            [sink |-> output_sink, shares |-> Sent]]
     ELSE /\ stage' = [stage EXCEPT ![h] = "idle"]
          /\ UNCHANGED snapshot
  /\ UNCHANGED <<output_shares, subscription, queue, offered, outcome>>

\* Fault: nothing is sent after the first time there are enough shares.
ready_output_snapshot_Exactly(h) ==
  SnapshotIf(h, OpenSink /\ Cardinality(Sent) = min_output_shares)

\* deliver_ready_output_waiters takes the lock for ready_output_snapshot, which
\* forgets a closed sink and snapshots the shares once there are enough.
ready_output_snapshot(h) ==
  SnapshotIf(h, OpenSink /\ Cardinality(Sent) >= min_output_shares)

\* The snapshot is sent, or the connection turns out to be closed.
SendSnapshot(h) ==
  /\ stage[h] = "sending"
  /\ LET c == snapshot[h].sink
         shares == snapshot[h].shares
     IN  IF is_closed(c)
         THEN /\ stage' = [stage EXCEPT ![h] = "failed"]
              /\ UNCHANGED <<snapshot, queue, offered>>
         ELSE /\ stage' = [stage EXCEPT ![h] = "idle"]
              /\ snapshot' = [snapshot EXCEPT ![h] = Nothing]
              /\ queue' = [queue EXCEPT ![c] = Append(@, shares)]
              /\ offered' = [offered EXCEPT ![c] = @ \cup {shares}]
  /\ UNCHANGED <<output_shares, output_sink, subscription, outcome>>

\* After a failed send the sink is removed, unless it is another one by now.
RemoveFailedSink(h) ==
  /\ stage[h] = "failed"
  /\ output_sink' = IF output_sink = snapshot[h].sink THEN None ELSE output_sink
  /\ stage' = [stage EXCEPT ![h] = "idle"]
  /\ snapshot' = [snapshot EXCEPT ![h] = Nothing]
  /\ UNCHANGED <<output_shares, subscription, queue, offered, outcome>>

-----------------------------------------------------------------------------
\* A connection ends, and what was sent on it and not read is lost.
Close(c) ==
  /\ subscription' = [subscription EXCEPT ![c] = "closed"]
  /\ queue' = [queue EXCEPT ![c] = <<>>]
  /\ offered' = [offered EXCEPT ![c] = {}]

\* The client's connection goes away.
Disconnect(c) ==
  /\ subscription[c] \in {"accepting", "open"}
  /\ Close(c)
  /\ UNCHANGED <<output_shares, output_sink, stage, snapshot, outcome>>

\* The shares of a snapshot that obtain_outputs passes to recover_secret: those
\* of the wrong length are left out.
Usable(shares) == {p \in shares : output_shares[p] # "short"}

\* recover_secret: wrong shares do not hurt once enough good ones are there.
Recovers(shares) ==
  Cardinality({p \in shares : output_shares[p] = "good"}) >= min_shares

\* Fault: a reconstruction that fails is not tried again.
Result_GivesUp(shares) == IF Recovers(Usable(shares)) THEN "outputs" ELSE "error"

\* What obtain_outputs makes of a snapshot.  None: it waits for the next one.
Result(shares) ==
  CASE \/ Cardinality(shares) < min_shares
       \/ \E p \in shares : output_shares[p] = "unreadable" -> "error"
    [] OTHER -> IF Recovers(Usable(shares)) THEN "outputs" ELSE None

\* obtain_outputs takes the next snapshot; returning ends the subscription.
obtain_outputs(c) ==
  /\ subscription[c] = "open"
  /\ queue[c] # <<>>
  /\ outcome' = [outcome EXCEPT ![c] = Result(Head(queue[c]))]
  /\ IF outcome'[c] = None
     THEN /\ queue' = [queue EXCEPT ![c] = Tail(@)]
          /\ UNCHANGED <<subscription, offered>>
     ELSE Close(c)
  /\ UNCHANGED <<output_shares, output_sink, stage, snapshot>>

Next ==
  \/ \E p \in mpc_nodes, share \in Share : send_output_shares(p, share)
  \/ \E c \in Connection : ObtainRequested(c)
  \/ \E c \in Connection : ObtainAccepted(c)
  \/ \E h \in Handler : ready_output_snapshot(h)
  \/ \E h \in Handler : SendSnapshot(h)
  \/ \E h \in Handler : RemoveFailedSink(h)
  \/ \E c \in Connection : Disconnect(c)
  \/ \E c \in Connection : obtain_outputs(c)

Spec == Init /\ [][Next]_vars

-----------------------------------------------------------------------------
\* Types of the state of an output delivery.
TypeOK ==
  /\ output_shares \in [mpc_nodes -> Share \cup {None}]
  /\ output_sink \in Connection \cup {None}
  /\ subscription \in
       [Connection -> {"none", "accepting", "open", "closed"}]
  /\ stage \in [Handler -> {"idle", "ready", "sending", "failed"}]
  /\ snapshot \in
       [Handler -> [sink : Connection \cup {None}, shares : SUBSET mpc_nodes]]
  /\ \A h \in Handler :
       stage[h] \in {"sending", "failed"} => snapshot[h].sink # None
  /\ queue \in [Connection -> Seq(SUBSET mpc_nodes)]
  /\ offered \in [Connection -> SUBSET SUBSET mpc_nodes]
  /\ outcome \in [Connection -> {None, "outputs", "error"}]

\* An open subscription stays the one that output_sinks names: neither a
\* handshake that ends later (obtain_output_shares) nor the clean-up after a
\* failed send (deliver_ready_output_waiters) displaces it.
OpenSinkKept ==
  \A c \in Connection : subscription[c] = "open" => output_sink = c

\* No share is overlooked: when no handler is under way, an open subscription
\* has been sent a snapshot of every share that arrived, in whatever order
\* shares, subscription and snapshots interleaved (send_output_shares,
\* obtain_output_shares, deliver_ready_output_waiters); and a client that has read
\* all it was sent waits on only because all the shares there are do not give
\* the outputs (obtain_outputs).
AllSharesOffered ==
  (\A h \in Handler : stage[h] = "idle") =>
    \A c \in Connection :
      subscription[c] = "open" /\ Cardinality(Sent) >= min_output_shares =>
        /\ Sent \in offered[c]
        /\ queue[c] = <<>> => Result(Sent) = None

\* What obtain_outputs returns is warranted by what the parties sent: outputs by
\* enough good shares, an error by a share that cannot be opened or by a
\* coordinator that waits for fewer shares than the client needs.
OutcomeJustified ==
  \A c \in Connection :
    /\ outcome[c] = "outputs" => Recovers(Sent)
    /\ outcome[c] = "error" =>
         \/ min_output_shares < min_shares
         \/ \E p \in Sent : output_shares[p] = "unreadable"

\* obtain_outputs: "Try to decrypt and reconstruct outputs until it succeeds."
TriesUntilItSucceeds == \A c \in Connection : outcome[c] # "error"

-----------------------------------------------------------------------------
\* The parties of Honest send a good share; handlers run to their end, and a
\* client reads for as long as its connection lives.
HonestNext(Honest) ==
  \/ \E p \in Honest : send_output_shares(p, "good")
  \/ \E p \in mpc_nodes \ Honest, share \in Share : send_output_shares(p, share)
  \/ \E c \in Connection : ObtainRequested(c) \/ ObtainAccepted(c)
  \/ \E h \in Handler :
       ready_output_snapshot(h) \/ SendSnapshot(h) \/ RemoveFailedSink(h)
  \/ \E c \in Connection : Disconnect(c) \/ obtain_outputs(c)

Fairness(Honest) ==
  /\ \A p \in Honest : WF_vars(send_output_shares(p, "good"))
  /\ \A c \in Connection : WF_vars(obtain_outputs(c))
  /\ \A h \in Handler :
       /\ WF_vars(ready_output_snapshot(h))
       /\ WF_vars(SendSnapshot(h))

\* When enough honest parties send their shares, a subscription that was accepted
\* gets the outputs unless its connection goes away first, whether the other
\* parties send good shares, short ones (of the wrong number of outputs) or none,
\* in whatever order snapshots are taken and sent, and whatever other
\* subscriptions of the client come and go
\* (deliver_ready_output_waiters, obtain_outputs).
OutputsObtained ==
  \A c \in Connection :
    subscription[c] = "open" ~>
      \/ outcome[c] = "outputs"
      \/ outcome[c] = None /\ is_closed(c)
================================================================================
