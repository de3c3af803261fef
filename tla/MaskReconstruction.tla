-------------------------- MODULE MaskReconstruction --------------------------
(***************************************************************************)
(* The client that gets its masks from the nodes (off-chain/src/lib.rs,    *)
(* NodeRPCClient::receive_assigned_masks).  It subscribes to the nodes one *)
(* after the other, then takes their answers as they come, and             *)
(* reconstructs the masks once every index has enough shares.              *)
(*                                                                         *)
(* NodeMaskShares is one of the nodes, in full; the others are represented *)
(* by what they may answer.  One call is followed at a time; the client    *)
(* may call again when it returned, and other connections of the same      *)
(* client may ask the node as well.                                        *)
(***************************************************************************)
EXTENDS NodeMaskShares

CONSTANTS
  me,           \* the client
  Calls,        \* the requests it makes through receive_assigned_masks
  n,            \* the number of nodes
  served,       \* the node that NodeMaskShares describes
  Faulty,       \* the other nodes that may answer anything, or not at all
  min_shares    \* what the sharing scheme needs

Nodes == 1..n

\* What receive_assigned_masks returns: the masks, or one of its errors.
Errors == {"overflow", "subscription", "range", "deserialization", "failed"}

ASSUME ClientAssumption ==
  /\ me \in Client
  /\ Calls \subseteq {r \in Requests : r.client = me}
  /\ None \notin Requests
  /\ None \notin Errors \cup {"masks"}
  /\ n \in Nat
  /\ served \in Nodes
  /\ Faulty \subseteq Nodes \ {served}
  /\ min_shares \in 1..n

VARIABLES
  ask,      \* the range the call asks for, None before the first call
  asked,    \* how many nodes it subscribed to
  stream,   \* per node, what its subscription holds
  joined,   \* the nodes whose answer was taken
  result    \* what the call returned, None while it runs

client == <<ask, asked, stream, joined, result>>

varsClient == <<vars, client>>

InitClient ==
  /\ Init
  /\ ask = None
  /\ asked = 0
  /\ stream = [m \in Nodes |-> "none"]
  /\ joined = {}
  /\ result = None

Running == ask # None /\ result = None

\* The node holds a sink of this call.
Waiting == Running /\ stream[served] = "open"

-----------------------------------------------------------------------------
\* The range is checked, and nobody is asked for an empty one.
receive_assigned_masks(r) ==
  /\ ~Running
  /\ ask' = r
  /\ asked' = 0
  /\ stream' = [m \in Nodes |-> "none"]
  /\ joined' = {}
  /\ result' = CASE r.start + r.count > u64_MAX -> "overflow"
                 [] r.count = 0 -> "masks"
                 [] OTHER -> None
  /\ UNCHANGED vars

\* Node m has accepted or refused the subscription; to be refused ends the call.
Subscribed(m, state) ==
  /\ asked' = m
  /\ stream' = [stream EXCEPT ![m] = state]
  /\ result' = IF state = "refused" THEN "subscription" ELSE None
  /\ UNCHANGED <<ask, joined>>

\* The next node is subscribed to.
Subscribe ==
  /\ Running
  /\ asked < n
  /\ LET m == asked + 1
     IN  \/ /\ m = served
            /\ receive_assigned_mask_shares(ask)
            /\ Subscribed(m,
                 CASE Answered(ask, index_to_client, mask_shares) -> "right"
                   [] Refused(ask, index_to_client, mask_shares) -> "refused"
                   [] OTHER -> "open")
         \/ /\ m = served
            /\ ~registered
            /\ Subscribed(m, "refused")
            /\ UNCHANGED vars
         \/ /\ m # served
            /\ \E state \in {"open", "refused"} : Subscribed(m, state)
            /\ UNCHANGED vars

\* What the stream of a node may bring: the shares, in the case of a faulty node
\* also wrong ones, shares of other indices and bytes that are no shares, or its
\* end.
Answers(m) ==
  IF m \in Faulty THEN {"right", "wrong", "misplaced", "unreadable", "ended"}
  ELSE {"right", "ended"}

\* One of the other nodes answers.
Answer(m) ==
  /\ Running
  /\ m # served
  /\ stream[m] = "open"
  /\ \E answer \in Answers(m) : stream' = [stream EXCEPT ![m] = answer]
  /\ UNCHANGED <<vars, ask, asked, joined, result>>

\* The nodes that brought shares of the right indices.
Shares(nodes) == {m \in nodes : stream[m] \in {"right", "wrong"}}

Enough(nodes) == Cardinality(Shares(nodes)) >= min_shares

\* recover_secret finds that shares do not fit together unless it can correct
\* the wrong ones.
recover_secret(nodes) ==
  IF \A m \in Shares(nodes) : stream[m] = "right" THEN {"masks"}
  ELSE {"masks", "failed"}

\* Fault: the end of a stream ends the call.
Outcomes_Ended(m, nodes) ==
  CASE stream[m] = "misplaced" -> {"range"}
    [] stream[m] \in {"unreadable", "ended"} -> {"deserialization"}
    [] stream[m] \in {"right", "wrong"} /\ Enough(nodes) -> recover_secret(nodes)
    [] OTHER -> IF nodes = Nodes THEN {"failed"} ELSE {None}

\* What taking the answer of node m as the last of some nodes leads to.  Shares of
\* other indices, or none that can be read, end the call; a stream that ended is
\* passed over; the masks are reconstructed, once, as soon as there are enough
\* shares, and not at all when there are no streams left.
Outcomes(m, nodes) ==
  CASE stream[m] = "misplaced" -> {"range"}
    [] stream[m] = "unreadable" -> {"deserialization"}
    [] stream[m] \in {"right", "wrong", "ended"} /\ Enough(nodes) ->
         recover_secret(nodes)
    [] OTHER -> IF nodes = Nodes THEN {"failed"} ELSE {None}

\* Fault: the streams are read one after the other, in the order of the nodes.
Join_InOrder(m) ==
  /\ Running
  /\ asked = n
  /\ m = Cardinality(joined) + 1
  /\ stream[m] # "open"
  /\ joined' = joined \cup {m}
  /\ result' \in Outcomes(m, joined')
  /\ UNCHANGED <<vars, ask, asked, stream>>

\* The answer of node m is taken.
Join(m) ==
  /\ Running
  /\ asked = n
  /\ m \notin joined
  /\ stream[m] # "open"
  /\ joined' = joined \cup {m}
  /\ result' \in Outcomes(m, joined')
  /\ UNCHANGED <<vars, ask, asked, stream>>

-----------------------------------------------------------------------------
\* The requests that the last step of the node took out of assigned_sinks were
\* answered, and not dropped by an error or with the execution.
Delivered ==
  /\ registered'
  /\ \A c \in Client :
       assigned_sinks[c] # None /\ assigned_sinks'[c] = None =>
         Answered(assigned_sinks[c], index_to_client', mask_shares')

\* What a step of the node does to the call.
Heard ==
  /\ stream' = IF Waiting /\ assigned_sinks'[me] = None
               THEN [stream EXCEPT ![served] =
                       IF Delivered THEN "right" ELSE "ended"]
               ELSE stream
  /\ UNCHANGED <<ask, asked, joined, result>>

AddReservations ==
  /\ \/ \E batch \in Reservations : add_assigned_reserved_indices(batch)
     \/ \E c \in Client, indices \in SUBSET Index : add_reserved_indices(c, indices)
  /\ Heard

AddShares ==
  /\ \/ \E batch \in SUBSET Index : add_mask_shares(batch)
     \/ \E i \in Index : add_mask_share(i)
  /\ Heard

\* The execution starts or ends on the node.
Lifecycle == (register_execution \/ retire_execution) /\ Heard

\* A request over another connection.  One of the same client takes the place of
\* the call's.
OtherRequest(r) ==
  /\ receive_assigned_mask_shares(r)
  /\ stream' = IF Waiting /\ r.client = me
               THEN [stream EXCEPT ![served] = "ended"] ELSE stream
  /\ UNCHANGED <<ask, asked, joined, result>>

NextClient ==
  \/ \E r \in Calls : receive_assigned_masks(r)
  \/ Subscribe
  \/ \E m \in Nodes : Answer(m)
  \/ \E m \in Nodes : Join(m)
  \/ AddReservations
  \/ AddShares
  \/ Lifecycle
  \/ \E r \in Requests : OtherRequest(r)

\* A client that called goes on; a node that accepted a request answers it or
\* ends the stream, unless it is faulty; a node that serves the execution learns
\* of the reservations and gets its shares.
Fairness ==
  /\ WF_varsClient(Subscribe \/ \E m \in Nodes : Join(m))
  /\ \A m \in Nodes \ Faulty : WF_varsClient(Answer(m))
  /\ WF_varsClient(\E batch \in Reservations :
                      add_assigned_reserved_indices(batch) /\ Heard)
  /\ WF_varsClient(\E i \in Index : add_mask_share(i) /\ Heard)

SpecClient == InitClient /\ [][NextClient]_varsClient /\ Fairness

-----------------------------------------------------------------------------
\* Why a call may fail: its range leaves u64, a node refused to serve it, a faulty
\* node brought something that is no right share, or so many streams ended that
\* too few are left.
MayFail ==
  \/ ask.start + ask.count > u64_MAX
  \/ \E m \in Nodes : stream[m] = "refused"
  \/ \E m \in Faulty : stream[m] \in {"wrong", "misplaced", "unreadable"}
  \/ Cardinality({m \in Nodes : stream[m] = "ended"}) > n - min_shares

\* A call that fails has a reason, whatever the other nodes do and whatever else
\* the client asks the node for meanwhile; one that succeeds had enough shares of
\* its own indices; and one that goes on has not enough yet and a stream left to
\* wait for (receive_assigned_masks).
ResultJustified ==
  /\ result \in Errors => MayFail
  /\ result = "masks" /\ ask.count > 0 => Enough(joined)
  /\ Running => ~Enough(joined) /\ joined # Nodes

\* A call does not wait for a faulty node: it returns unless the stream of an
\* honest node ended, which only happens when the execution is retired or the
\* request is refused or superseded (receive_assigned_masks has no timeout, and
\* relies on the shares of the others).
Returns == Running ~> ~Running \/ \E m \in Nodes \ Faulty : stream[m] = "ended"
================================================================================
