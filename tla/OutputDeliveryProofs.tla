------------------------- MODULE OutputDeliveryProofs -------------------------
(***************************************************************************)
(* OpenSinkKept and AllSharesOffered for any number of parties, competing   *)
(* subscriptions and handlers, and any thresholds.                          *)
(*                                                                         *)
(* OpenSinkKept needs that the clean-up after a failed send only ever       *)
(* removes a closed sink (FailedIsClosed).  AllSharesOffered speaks of the  *)
(* states in which no handler is under way; in the others somebody is on    *)
(* the way to offer what is missing (Covered).                              *)
(*                                                                         *)
(* What the client makes of the shares: it tried all that it read           *)
(* (OfferedTried), and what more shares give is never less (RecoversMore).  *)
(* So its outcome is justified, it goes on as long as it should, and it is  *)
(* not left waiting for shares that are there.                              *)
(***************************************************************************)
EXTENDS OutputDelivery, FiniteSetTheorems, TLAPS

\* A send only fails on a connection that is closed, and closed it stays.
FailedIsClosed ==
  \A h \in Handler : stage[h] = "failed" => is_closed(snapshot[h].sink)

\* Handler h will still look at the shares, or is sending all of them to c.
OnTheWay(h, c) ==
  \/ stage[h] = "ready"
  \/ stage[h] = "sending" /\ snapshot[h] = [sink |-> c, shares |-> Sent]

\* An open subscription has all shares or they are on the way to it.
Covered ==
  \A c \in Connection :
    subscription[c] = "open" /\ Cardinality(Sent) >= min_output_shares =>
      Sent \in offered[c] \/ \E h \in Handler : OnTheWay(h, c)

\* Every step respects the types.
LEMMA TypeStep ==
  ASSUME TypeOK, [Next]_vars
  PROVE  TypeOK'
<1> USE OutputAssumption DEF TypeOK, Handler
<1>1. ASSUME NEW p \in mpc_nodes, NEW share \in Share, send_output_shares(p, share)
      PROVE  TypeOK'
  BY <1>1 DEF send_output_shares
<1>2. ASSUME NEW c \in Connection, ObtainRequested(c)
      PROVE  TypeOK'
  BY <1>2 DEF ObtainRequested
<1>3. ASSUME NEW c \in Connection, ObtainAccepted(c)
      PROVE  TypeOK'
  <2>1. CASE OpenSink
    <3>1. /\ subscription' = [subscription EXCEPT ![c] = "closed"]
          /\ UNCHANGED <<output_shares, output_sink, stage, snapshot, queue, offered,
                         outcome>>
      BY <1>3, <2>1 DEF ObtainAccepted
    <3> QED
      BY <3>1
  <2>2. CASE ~OpenSink
    <3>1. /\ subscription' = [subscription EXCEPT ![c] = "open"]
          /\ output_sink' = c
          /\ stage' = [stage EXCEPT ![c] = "ready"]
          /\ UNCHANGED <<output_shares, snapshot, queue, offered, outcome>>
      BY <1>3, <2>2 DEF ObtainAccepted
    <3> QED
      BY <3>1
  <2> QED
    BY <2>1, <2>2
<1>4. ASSUME NEW h \in Handler, ready_output_snapshot(h)
      PROVE  TypeOK'
  <2> DEFINE ready == OpenSink /\ Cardinality(Sent) >= min_output_shares
  <2>1. SnapshotIf(h, ready)
    BY <1>4 DEF ready_output_snapshot
  <2>2. output_sink' \in Connection \cup {None}
    BY <2>1 DEF SnapshotIf
  <2>3. CASE ready
    <3>1. output_sink \in Connection /\ Sent \in SUBSET mpc_nodes
      BY <2>3 DEF OpenSink, Sent
    <3>2. /\ stage' = [stage EXCEPT ![h] = "sending"]
          /\ snapshot' = [snapshot EXCEPT ![h] = [sink |-> output_sink, shares |-> Sent]]
          /\ UNCHANGED <<output_shares, subscription, queue, offered, outcome>>
      BY <2>1, <2>3 DEF SnapshotIf
    <3>3. output_sink # None
      BY <3>1
    <3> HIDE DEF ready
    <3> QED
      BY <2>2, <3>1, <3>2, <3>3
  <2>4. CASE ~ready
    <3>1. /\ stage' = [stage EXCEPT ![h] = "idle"]
          /\ UNCHANGED <<output_shares, subscription, snapshot, queue, offered, outcome>>
      BY <2>1, <2>4 DEF SnapshotIf
    <3> HIDE DEF ready
    <3> QED
      BY <2>2, <3>1
  <2> QED
    BY <2>3, <2>4
<1>5. ASSUME NEW h \in Handler, SendSnapshot(h)
      PROVE  TypeOK'
  <2>1. snapshot[h].sink \in Connection /\ snapshot[h].shares \in SUBSET mpc_nodes
    BY <1>5 DEF SendSnapshot
  <2>2. CASE is_closed(snapshot[h].sink)
    <3>1. /\ stage[h] = "sending"
          /\ stage' = [stage EXCEPT ![h] = "failed"]
          /\ UNCHANGED <<output_shares, output_sink, subscription, snapshot, queue,
                         offered, outcome>>
      BY <1>5, <2>2 DEF SendSnapshot
    <3> QED
      BY <3>1
  <2>3. CASE ~is_closed(snapshot[h].sink)
    <3> DEFINE d == snapshot[h].sink
               shares == snapshot[h].shares
    <3>1. /\ stage' = [stage EXCEPT ![h] = "idle"]
          /\ snapshot' = [snapshot EXCEPT ![h] = Nothing]
          /\ queue' = [queue EXCEPT ![d] = Append(queue[d], shares)]
          /\ offered' = [offered EXCEPT ![d] = offered[d] \cup {shares}]
          /\ UNCHANGED <<output_shares, output_sink, subscription, outcome>>
      BY <1>5, <2>3 DEF SendSnapshot
    <3>2. d \in Connection /\ shares \in SUBSET mpc_nodes
      BY <2>1
    <3> HIDE DEF d, shares
    <3>3. Append(queue[d], shares) \in Seq(SUBSET mpc_nodes)
      BY <3>2
    <3> QED
      BY <3>1, <3>2, <3>3, SMTT(30) DEF Nothing
  <2> QED
    BY <2>2, <2>3
<1>6. ASSUME NEW h \in Handler, RemoveFailedSink(h)
      PROVE  TypeOK'
  BY <1>6 DEF RemoveFailedSink, Nothing
<1>7. ASSUME NEW c \in Connection, Disconnect(c)
      PROVE  TypeOK'
  BY <1>7 DEF Disconnect, Close
<1>8. ASSUME NEW c \in Connection, obtain_outputs(c)
      PROVE  TypeOK'
  <2>1. Result(Head(queue[c])) \in {None, "outputs", "error"}
    BY DEF Result
  <2>2. queue[c] \in Seq(SUBSET mpc_nodes) /\ Tail(queue[c]) \in Seq(SUBSET mpc_nodes)
    BY <1>8 DEF obtain_outputs
  <2>3. outcome' \in [Connection -> {None, "outputs", "error"}]
    BY <1>8, <2>1 DEF obtain_outputs
  <2>4. UNCHANGED <<output_shares, output_sink, stage, snapshot>>
    BY <1>8 DEF obtain_outputs
  <2>5. CASE outcome'[c] = None
    <3>1. queue' = [queue EXCEPT ![c] = Tail(queue[c])] /\ UNCHANGED <<subscription, offered>>
      BY <1>8, <2>5 DEF obtain_outputs
    <3> QED
      BY <2>2, <2>3, <2>4, <3>1
  <2>6. CASE outcome'[c] # None
    <3>1. Close(c)
      BY <1>8, <2>6 DEF obtain_outputs
    <3> QED
      BY <2>3, <2>4, <3>1 DEF Close
  <2> QED
    BY <2>5, <2>6
<1>9. CASE UNCHANGED vars
  BY <1>9 DEF vars
<1> QED
  BY <1>1, <1>2, <1>3, <1>4, <1>5, <1>6, <1>7, <1>8, <1>9, Zenon DEF Next

\* A send that fails, and its clean-up, never hit an open subscription; so the
\* open one stays in output_sinks, and while one is open no other can open.
LEMMA SinkStep ==
  ASSUME TypeOK, TypeOK', OpenSinkKept, FailedIsClosed, [Next]_vars
  PROVE  OpenSinkKept' /\ FailedIsClosed'
<1> USE OutputAssumption DEF OpenSinkKept, FailedIsClosed, is_closed, Handler
<1>1. ASSUME NEW p \in mpc_nodes, NEW share \in Share, send_output_shares(p, share)
      PROVE  OpenSinkKept' /\ FailedIsClosed'
  BY <1>1 DEF send_output_shares, TypeOK
<1>2. ASSUME NEW c \in Connection, ObtainRequested(c)
      PROVE  OpenSinkKept' /\ FailedIsClosed'
  BY <1>2 DEF ObtainRequested, TypeOK
<1>3. ASSUME NEW c \in Connection, ObtainAccepted(c)
      PROVE  OpenSinkKept' /\ FailedIsClosed'
  <2>1. CASE OpenSink
    BY <1>3, <2>1 DEF ObtainAccepted, TypeOK
  <2>2. CASE ~OpenSink
    <3>1. \A d \in Connection : subscription[d] # "open"
      BY <2>2 DEF OpenSink
    <3>2. /\ subscription' = [subscription EXCEPT ![c] = "open"]
          /\ subscription[c] = "accepting"
          /\ output_sink' = c
          /\ stage' = [stage EXCEPT ![c] = "ready"]
          /\ snapshot' = snapshot
      BY <1>3, <2>2 DEF ObtainAccepted
    <3> QED
      BY <3>1, <3>2 DEF TypeOK
  <2> QED
    BY <2>1, <2>2
<1>4. ASSUME NEW h \in Handler, ready_output_snapshot(h)
      PROVE  OpenSinkKept' /\ FailedIsClosed'
  <2>1. /\ output_sink' = IF OpenSink THEN output_sink ELSE None
        /\ subscription' = subscription
    BY <1>4 DEF ready_output_snapshot, SnapshotIf
  <2>2. OpenSinkKept'
    BY <2>1 DEF OpenSink
  <2>3. /\ stage'[h] \in {"sending", "idle"}
        /\ \A g \in Handler : g # h => stage'[g] = stage[g] /\ snapshot'[g] = snapshot[g]
    BY <1>4 DEF ready_output_snapshot, SnapshotIf, TypeOK
  <2> QED
    BY <2>1, <2>2, <2>3
<1>5. ASSUME NEW h \in Handler, SendSnapshot(h)
      PROVE  OpenSinkKept' /\ FailedIsClosed'
  <2>1. UNCHANGED <<output_sink, subscription>>
    BY <1>5 DEF SendSnapshot
  <2>2. CASE is_closed(snapshot[h].sink)
    <3>1. stage' = [stage EXCEPT ![h] = "failed"] /\ snapshot' = snapshot
      BY <1>5, <2>2 DEF SendSnapshot
    <3> QED
      BY <2>1, <2>2, <3>1 DEF TypeOK
  <2>3. CASE ~is_closed(snapshot[h].sink)
    <3>1. /\ stage' = [stage EXCEPT ![h] = "idle"]
          /\ snapshot' = [snapshot EXCEPT ![h] = Nothing]
      BY <1>5, <2>3 DEF SendSnapshot
    <3> QED
      BY <2>1, <3>1 DEF TypeOK
  <2> QED
    BY <2>2, <2>3
<1>6. ASSUME NEW h \in Handler, RemoveFailedSink(h)
      PROVE  OpenSinkKept' /\ FailedIsClosed'
  <2>1. /\ is_closed(snapshot[h].sink)
        /\ output_sink' = IF output_sink = snapshot[h].sink THEN None ELSE output_sink
        /\ stage' = [stage EXCEPT ![h] = "idle"]
        /\ snapshot' = [snapshot EXCEPT ![h] = Nothing]
        /\ subscription' = subscription
    BY <1>6 DEF RemoveFailedSink
  <2>2. OpenSinkKept'
    BY <2>1
  <2>3. FailedIsClosed'
    BY <2>1 DEF TypeOK
  <2> QED
    BY <2>2, <2>3
<1>7. ASSUME NEW c \in Connection, Disconnect(c)
      PROVE  OpenSinkKept' /\ FailedIsClosed'
  BY <1>7 DEF Disconnect, Close, TypeOK
<1>8. ASSUME NEW c \in Connection, obtain_outputs(c)
      PROVE  OpenSinkKept' /\ FailedIsClosed'
  BY <1>8 DEF obtain_outputs, Close, TypeOK
<1>9. CASE UNCHANGED vars
  BY <1>9 DEF vars
<1> QED
  BY <1>1, <1>2, <1>3, <1>4, <1>5, <1>6, <1>7, <1>8, <1>9 DEF Next

\* A step that opens no subscription and leaves handlers and shares alone.
LEMMA CoveredStays ==
  ASSUME Covered, UNCHANGED <<output_shares, stage, snapshot>>,
         \A c \in Connection : subscription'[c] = "open" =>
           subscription[c] = "open" /\ offered'[c] = offered[c]
  PROVE  Covered'
<1>1. Sent' = Sent
  BY DEF Sent
<1>2. \A h \in Handler, c \in Connection : OnTheWay(h, c) => OnTheWay(h, c)'
  BY <1>1 DEF OnTheWay
<1> QED
  BY <1>1, <1>2 DEF Covered

\* Whoever changes the shares or opens a subscription will look at the shares;
\* whoever looks finds all of them; whoever sends them all makes them offered.
LEMMA CoveredStep ==
  ASSUME TypeOK, OpenSinkKept, Covered, [Next]_vars
  PROVE  Covered'
<1> USE DEF Handler
<1>1. ASSUME NEW p \in mpc_nodes, NEW share \in Share, send_output_shares(p, share)
      PROVE  Covered'
  <2>1. stage'[p] = "ready"
    BY <1>1 DEF send_output_shares, TypeOK
  <2> QED
    BY <2>1 DEF Covered, OnTheWay
<1>2. ASSUME NEW c \in Connection, ObtainRequested(c)
      PROVE  Covered'
  <2>1. \A d \in Connection : subscription'[d] = "open" => subscription[d] = "open"
    BY <1>2 DEF ObtainRequested, TypeOK
  <2> QED
    BY <1>2, <2>1, CoveredStays DEF ObtainRequested
<1>3. ASSUME NEW c \in Connection, ObtainAccepted(c)
      PROVE  Covered'
  <2>1. CASE OpenSink
    <3>1. \A d \in Connection : subscription'[d] = "open" => subscription[d] = "open"
      BY <1>3, <2>1 DEF ObtainAccepted, TypeOK
    <3> QED
      BY <1>3, <2>1, <3>1, CoveredStays DEF ObtainAccepted
  <2>2. CASE ~OpenSink
    <3>1. stage'[c] = "ready"
      BY <1>3, <2>2 DEF ObtainAccepted, TypeOK
    <3> QED
      BY <3>1 DEF Covered, OnTheWay
  <2> QED
    BY <2>1, <2>2
<1>4. ASSUME NEW h \in Handler, ready_output_snapshot(h)
      PROVE  Covered'
  <2> SUFFICES ASSUME NEW c \in Connection,
                      subscription'[c] = "open",
                      Cardinality(Sent') >= min_output_shares
               PROVE  OnTheWay(h, c)'
    BY DEF Covered
  <2>1. Sent' = Sent /\ subscription' = subscription
    BY <1>4 DEF ready_output_snapshot, SnapshotIf, Sent
  <2>2. output_sink = c /\ OpenSink
    BY <2>1, OutputAssumption DEF OpenSinkKept, OpenSink, is_closed
  <2>3. /\ stage' = [stage EXCEPT ![h] = "sending"]
        /\ snapshot' = [snapshot EXCEPT ![h] = [sink |-> c, shares |-> Sent]]
    BY <1>4, <2>1, <2>2 DEF ready_output_snapshot, SnapshotIf
  <2> QED
    BY <2>1, <2>3 DEF OnTheWay, TypeOK
<1>5. ASSUME NEW h \in Handler, SendSnapshot(h)
      PROVE  Covered'
  <2> SUFFICES ASSUME NEW c \in Connection,
                      subscription'[c] = "open",
                      Cardinality(Sent') >= min_output_shares
               PROVE  Sent' \in offered'[c] \/ \E g \in Handler : OnTheWay(g, c)'
    BY DEF Covered
  <2>1. Sent' = Sent /\ subscription' = subscription
    BY <1>5 DEF SendSnapshot, Sent
  <2>2. CASE Sent \in offered[c]
    <3>1. \/ offered' = offered
          \/ offered' = [offered EXCEPT ![snapshot[h].sink] =
                            offered[snapshot[h].sink] \cup {snapshot[h].shares}]
      BY <1>5 DEF SendSnapshot
    <3>2. DOMAIN offered = Connection
      BY ZenonT(30) DEF TypeOK
    <3> QED
      BY <2>1, <2>2, <3>1, <3>2
  <2>3. ASSUME NEW g \in Handler, OnTheWay(g, c), g # h
        PROVE  OnTheWay(g, c)'
    BY <1>5, <2>1, <2>3 DEF SendSnapshot, OnTheWay, TypeOK
  <2>4. CASE OnTheWay(h, c)
    <3>1. snapshot[h].sink = c /\ snapshot[h].shares = Sent
      BY <1>5, <2>4 DEF SendSnapshot, OnTheWay
    <3>2. ~is_closed(c)
      BY <2>1 DEF is_closed
    <3> QED
      BY <1>5, <2>1, <3>1, <3>2 DEF SendSnapshot, TypeOK
  <2> QED
    BY <2>1, <2>2, <2>3, <2>4 DEF Covered
<1>6. ASSUME NEW h \in Handler, RemoveFailedSink(h)
      PROVE  Covered'
  <2>1. UNCHANGED <<Sent, subscription, offered>>
    BY <1>6 DEF RemoveFailedSink, Sent
  <2>2. ASSUME NEW g \in Handler, NEW c \in Connection, OnTheWay(g, c)
        PROVE  OnTheWay(g, c)'
    BY <1>6, <2>1, <2>2 DEF RemoveFailedSink, OnTheWay, TypeOK
  <2> QED
    BY <2>1, <2>2 DEF Covered
<1>7. ASSUME NEW c \in Connection, Disconnect(c)
      PROVE  Covered'
  <2>1. \A d \in Connection : subscription'[d] = "open" =>
          subscription[d] = "open" /\ offered'[d] = offered[d]
    BY <1>7 DEF Disconnect, Close, TypeOK
  <2> QED
    BY <1>7, <2>1, CoveredStays DEF Disconnect
<1>8. ASSUME NEW c \in Connection, obtain_outputs(c)
      PROVE  Covered'
  <2>1. \A d \in Connection : subscription'[d] = "open" =>
          subscription[d] = "open" /\ offered'[d] = offered[d]
    BY <1>8 DEF obtain_outputs, Close, TypeOK
  <2> QED
    BY <1>8, <2>1, CoveredStays DEF obtain_outputs
<1>9. CASE UNCHANGED vars
  BY <1>9, CoveredStays DEF vars
<1> QED
  BY <1>1, <1>2, <1>3, <1>4, <1>5, <1>6, <1>7, <1>8, <1>9 DEF Next

-----------------------------------------------------------------------------
\* A snapshot that is sent, or was, is one of shares that are still there, and
\* of as many as the coordinator waits for.
Proper(shares) ==
  shares \subseteq Sent /\ Cardinality(shares) >= min_output_shares

SnapshotsProper ==
  /\ \A h \in Handler : stage[h] = "sending" => Proper(snapshot[h].shares)
  /\ \A c \in Connection : \A i \in 1..Len(queue[c]) : Proper(queue[c][i])
  /\ \A c \in Connection : \A shares \in offered[c] : Proper(shares)

\* What was offered is in the queue, or was not enough.
OfferedTried ==
  \A c \in Connection : \A shares \in offered[c] :
    \/ \E i \in 1..Len(queue[c]) : queue[c][i] = shares
    \/ Result(shares) = None

\* Shares are never taken back or replaced.
LEMMA SharesKept ==
  ASSUME TypeOK, [Next]_vars
  PROVE  /\ Sent \subseteq Sent'
         /\ \A p \in Sent : output_shares'[p] = output_shares[p]
<1>1. ASSUME NEW p \in mpc_nodes, NEW share \in Share, send_output_shares(p, share)
      PROVE  \A q \in Sent : output_shares'[q] = output_shares[q]
  BY <1>1, ZenonT(30) DEF send_output_shares, TypeOK, Sent
<1>2. \A q \in Sent : output_shares'[q] = output_shares[q]
  BY <1>1 DEF Next, ObtainRequested, ObtainAccepted, ready_output_snapshot, SnapshotIf,
     SendSnapshot, RemoveFailedSink, Disconnect, obtain_outputs, vars
<1> QED
  BY <1>2 DEF Sent

\* So what obtain_outputs makes of a snapshot is settled when it is taken.
LEMMA ResultSettled ==
  ASSUME TypeOK, [Next]_vars, NEW shares \in SUBSET Sent
  PROVE  Result(shares)' = Result(shares)
<1>1. \A p \in shares : output_shares'[p] = output_shares[p]
  BY SharesKept
<1>2. {p \in Usable(shares) : output_shares[p] = "good"}' =
        {p \in Usable(shares) : output_shares[p] = "good"}
  BY <1>1 DEF Usable
<1>3. Recovers(Usable(shares))' <=> Recovers(Usable(shares))
  BY <1>2 DEF Recovers
<1>4. (\E p \in shares : output_shares[p] = "unreadable")' <=>
        (\E p \in shares : output_shares[p] = "unreadable")
  BY <1>1, ZenonT(30)
<1> QED
  BY <1>3, <1>4 DEF Result

\* What a step does to the snapshots of handlers and connections: a handler
\* takes one of all shares, sends it, and the client takes the first of them.
LEMMA SnapshotSteps ==
  ASSUME TypeOK, [Next]_vars
  PROVE  /\ \A h \in Handler : stage'[h] = "sending" =>
              \/ stage[h] = "sending" /\ snapshot'[h] = snapshot[h]
              \/ /\ snapshot'[h].shares = Sent
                 /\ Cardinality(Sent) >= min_output_shares
         /\ \A c \in Connection :
              \/ queue'[c] = queue[c] /\ offered'[c] = offered[c]
              \/ queue'[c] = <<>> /\ offered'[c] = {}
              \/ \E h \in Handler :
                   /\ stage[h] = "sending"
                   /\ queue'[c] = Append(queue[c], snapshot[h].shares)
                   /\ offered'[c] = offered[c] \cup {snapshot[h].shares}
              \/ /\ queue[c] # <<>>
                 /\ Result(Head(queue[c])) = None
                 /\ queue'[c] = Tail(queue[c])
                 /\ offered'[c] = offered[c]
<1> DEFINE HandlerSide(h) ==
             stage'[h] = "sending" =>
               \/ stage[h] = "sending" /\ snapshot'[h] = snapshot[h]
               \/ /\ snapshot'[h].shares = Sent
                  /\ Cardinality(Sent) >= min_output_shares
           ClientSide(c) ==
             \/ queue'[c] = queue[c] /\ offered'[c] = offered[c]
             \/ queue'[c] = <<>> /\ offered'[c] = {}
             \/ \E h \in Handler :
                  /\ stage[h] = "sending"
                  /\ queue'[c] = Append(queue[c], snapshot[h].shares)
                  /\ offered'[c] = offered[c] \cup {snapshot[h].shares}
             \/ /\ queue[c] # <<>>
                /\ Result(Head(queue[c])) = None
                /\ queue'[c] = Tail(queue[c])
                /\ offered'[c] = offered[c]
<1>1. ASSUME NEW h \in Handler PROVE HandlerSide(h)
  <2>1. CASE UNCHANGED <<stage, snapshot>>
    BY <2>1
  <2>2. ASSUME NEW p \in mpc_nodes, NEW share \in Share, send_output_shares(p, share)
        PROVE  HandlerSide(h)
    BY <2>2 DEF send_output_shares, TypeOK, Handler
  <2>3. ASSUME NEW c \in Connection, ObtainAccepted(c)
        PROVE  HandlerSide(h)
    BY <2>3 DEF ObtainAccepted, TypeOK, Handler
  <2>4. ASSUME NEW g \in Handler, ready_output_snapshot(g)
        PROVE  HandlerSide(h)
    BY <2>4 DEF ready_output_snapshot, SnapshotIf, TypeOK
  <2>5. ASSUME NEW g \in Handler, SendSnapshot(g)
        PROVE  HandlerSide(h)
    BY <2>5 DEF SendSnapshot, TypeOK
  <2>6. ASSUME NEW g \in Handler, RemoveFailedSink(g)
        PROVE  HandlerSide(h)
    BY <2>6, ZenonT(30) DEF RemoveFailedSink, TypeOK
  <2> QED
    BY <2>1, <2>2, <2>3, <2>4, <2>5, <2>6
    DEF Next, ObtainRequested, Disconnect, obtain_outputs, vars
<1>2. ASSUME NEW c \in Connection PROVE ClientSide(c)
  <2>1. CASE UNCHANGED <<queue, offered>>
    BY <2>1, ZenonT(30)
  <2>2. ASSUME NEW h \in Handler, SendSnapshot(h)
        PROVE  ClientSide(c)
    <3>1. CASE is_closed(snapshot[h].sink)
      BY <2>2, <3>1 DEF SendSnapshot
    <3>2. CASE ~is_closed(snapshot[h].sink) /\ snapshot[h].sink = c
      BY <2>2, <3>2, Zenon DEF SendSnapshot, TypeOK
    <3>3. CASE ~is_closed(snapshot[h].sink) /\ snapshot[h].sink # c
      BY <2>2, <3>3 DEF SendSnapshot, TypeOK
    <3> QED
      BY <3>1, <3>2, <3>3
  <2>3. ASSUME NEW d \in Connection, Disconnect(d)
        PROVE  ClientSide(c)
    BY <2>3 DEF Disconnect, Close, TypeOK
  <2>4. ASSUME NEW d \in Connection, obtain_outputs(d)
        PROVE  ClientSide(c)
    <3>1. CASE d # c
      BY <2>4, <3>1, ZenonT(30) DEF obtain_outputs, Close, TypeOK
    <3>2. CASE d = c /\ Result(Head(queue[c])) = None
      <4>1. outcome'[c] = None
        BY <2>4, <3>2 DEF obtain_outputs, TypeOK
      <4> QED
        BY <2>4, <3>2, <4>1 DEF obtain_outputs, TypeOK
    <3>3. CASE d = c /\ Result(Head(queue[c])) # None
      <4>1. outcome'[c] # None
        BY <2>4, <3>3 DEF obtain_outputs, TypeOK
      <4> QED
        BY <2>4, <3>3, <4>1 DEF obtain_outputs, Close, TypeOK
    <3> QED
      BY <3>1, <3>2, <3>3, ZenonT(30)
  <2> QED
    BY <2>1, <2>2, <2>3, <2>4, ZenonT(30)
    DEF Next, send_output_shares, ObtainRequested, ObtainAccepted, ready_output_snapshot,
        SnapshotIf, RemoveFailedSink, vars
<1> QED
  BY <1>1, <1>2, ZenonT(30)

\* Handlers only take proper snapshots, and nothing else reaches the client.
LEMMA SnapshotsProperStep ==
  ASSUME TypeOK, SnapshotsProper, [Next]_vars
  PROVE  SnapshotsProper'
<1> DEFINE Later(shares) ==
             shares \subseteq Sent' /\ Cardinality(shares) >= min_output_shares
<1>0. \A shares : Proper(shares) => Later(shares)
  BY SharesKept, ZenonT(30) DEF Proper
<1>1. \A h \in Handler : stage'[h] = "sending" => Later(snapshot'[h].shares)
  <2> SUFFICES ASSUME NEW h \in Handler, stage'[h] = "sending"
               PROVE  Later(snapshot'[h].shares)
    OBVIOUS
  <2>1. CASE stage[h] = "sending" /\ snapshot'[h] = snapshot[h]
    <3>1. Proper(snapshot[h].shares)
      BY <2>1 DEF SnapshotsProper
    <3> QED
      BY <1>0, <2>1, <3>1
  <2>2. CASE snapshot'[h].shares = Sent /\ Cardinality(Sent) >= min_output_shares
    BY <2>2, SharesKept
  <2> QED
    BY <2>1, <2>2, SnapshotSteps
<1>2. ASSUME NEW c \in Connection
      PROVE  /\ \A i \in 1..Len(queue'[c]) : Later(queue'[c][i])
             /\ \A shares \in offered'[c] : Later(shares)
  <2>1. queue[c] \in Seq(SUBSET mpc_nodes)
    BY DEF TypeOK
  <2>2. /\ \A i \in 1..Len(queue[c]) : Later(queue[c][i])
        /\ \A shares \in offered[c] : Later(shares)
    BY <1>0 DEF SnapshotsProper
  <2> HIDE DEF Later
  <2>3. CASE queue'[c] = queue[c] /\ offered'[c] = offered[c]
    BY <2>2, <2>3
  <2>4. CASE queue'[c] = <<>> /\ offered'[c] = {}
    BY <2>4
  <2>5. ASSUME NEW h \in Handler,
               stage[h] = "sending",
               queue'[c] = Append(queue[c], snapshot[h].shares),
               offered'[c] = offered[c] \cup {snapshot[h].shares}
        PROVE  /\ \A i \in 1..Len(queue'[c]) : Later(queue'[c][i])
               /\ \A shares \in offered'[c] : Later(shares)
    <3> DEFINE new == snapshot[h].shares
    <3>1. Proper(new)
      BY <2>5 DEF SnapshotsProper
    <3>2. Later(new) /\ new \in SUBSET mpc_nodes
      BY <1>0, <3>1 DEF TypeOK
    <3> HIDE DEF new, Later
    <3>3. \A i \in 1..Len(queue'[c]) :
            \/ queue'[c][i] = new
            \/ i \in 1..Len(queue[c]) /\ queue'[c][i] = queue[c][i]
      BY <2>1, <2>5, <3>2 DEF new
    <3>4. \A i \in 1..Len(queue'[c]) : Later(queue'[c][i])
      BY <2>2, <3>2, <3>3
    <3>5. \A shares \in offered'[c] : Later(shares)
      BY <2>2, <2>5, <3>2 DEF new
    <3> QED
      BY <3>4, <3>5
  <2>6. CASE queue[c] # <<>> /\ queue'[c] = Tail(queue[c]) /\ offered'[c] = offered[c]
    <3>1. \A i \in 1..Len(queue'[c]) : i+1 \in 1..Len(queue[c]) /\ queue'[c][i] = queue[c][i+1]
      BY <2>1, <2>6, SMTT(30)
    <3> QED
      BY <2>2, <2>6, <3>1
  <2> QED
    BY <2>3, <2>4, <2>5, <2>6, SnapshotSteps
<1> QED
  BY <1>1, <1>2 DEF SnapshotsProper, Proper

\* A snapshot leaves the queue only when it was not enough, or with the
\* connection.
LEMMA OfferedTriedStep ==
  ASSUME TypeOK, SnapshotsProper, OfferedTried, [Next]_vars
  PROVE  OfferedTried'
<1> SUFFICES ASSUME NEW c \in Connection, NEW shares \in offered'[c]
             PROVE  \/ \E i \in 1..Len(queue'[c]) : queue'[c][i] = shares
                    \/ Result(shares)' = None
  BY DEF OfferedTried
<1>1. queue[c] \in Seq(SUBSET mpc_nodes)
  BY DEF TypeOK
<1>2. ASSUME shares \in offered[c], Result(shares) = None
      PROVE  Result(shares)' = None
  <2>1. shares \in SUBSET Sent
    BY <1>2 DEF SnapshotsProper, Proper
  <2> QED
    BY <1>2, <2>1, ResultSettled
<1>3. shares \in offered[c] =>
        (\E i \in 1..Len(queue[c]) : queue[c][i] = shares) \/ Result(shares)' = None
  BY <1>2 DEF OfferedTried
<1>4. CASE queue'[c] = queue[c] /\ offered'[c] = offered[c]
  BY <1>3, <1>4
<1>5. CASE queue'[c] = <<>> /\ offered'[c] = {}
  BY <1>5
<1>6. ASSUME NEW h \in Handler,
             stage[h] = "sending",
             queue'[c] = Append(queue[c], snapshot[h].shares),
             offered'[c] = offered[c] \cup {snapshot[h].shares}
      PROVE  \/ \E i \in 1..Len(queue'[c]) : queue'[c][i] = shares
             \/ Result(shares)' = None
  <2>1. CASE shares = snapshot[h].shares
    <3>1. /\ Len(queue[c]) + 1 \in 1..Len(queue'[c])
          /\ queue'[c][Len(queue[c]) + 1] = shares
      BY <1>1, <1>6, <2>1
    <3> QED
      BY <3>1
  <2>2. CASE shares \in offered[c]
    <3>1. \A i \in 1..Len(queue[c]) : i \in 1..Len(queue'[c]) /\ queue'[c][i] = queue[c][i]
      BY <1>1, <1>6
    <3> QED
      BY <1>3, <2>2, <3>1
  <2> QED
    BY <1>6, <2>1, <2>2
<1>7. CASE /\ queue[c] # <<>>
           /\ Result(Head(queue[c])) = None
           /\ queue'[c] = Tail(queue[c])
           /\ offered'[c] = offered[c]
  <2>1. CASE shares = Head(queue[c])
    BY <1>2, <1>7, <2>1
  <2>2. CASE shares # Head(queue[c])
    <3>1. SUFFICES ASSUME NEW i \in 1..Len(queue[c]), queue[c][i] = shares
                   PROVE  \E j \in 1..Len(queue'[c]) : queue'[c][j] = shares
      BY <1>3, <1>7
    <3>2. i # 1
      BY <1>1, <1>7, <2>2, <3>1
    <3>3. i - 1 \in 1..Len(queue'[c]) /\ queue'[c][i - 1] = shares
      BY <1>1, <1>7, <3>1, <3>2
    <3> QED
      BY <3>3
  <2> QED
    BY <2>1, <2>2
<1> QED
  BY <1>4, <1>5, <1>6, <1>7, SnapshotSteps, ZenonT(30)

\* More shares are no worse.
LEMMA RecoversMore ==
  ASSUME TypeOK, NEW shares, NEW more, shares \subseteq more, more \subseteq mpc_nodes,
         Recovers(shares)
  PROVE  Recovers(more)
<1> DEFINE Good(nodes) == {p \in nodes : output_shares[p] = "good"}
<1>1. IsFiniteSet(Good(more))
  BY OutputAssumption, FS_Subset
<1>2. Good(shares) \subseteq Good(more)
  OBVIOUS
<1>3. /\ IsFiniteSet(Good(shares))
      /\ Cardinality(Good(shares)) <= Cardinality(Good(more))
  BY <1>1, <1>2, FS_Subset
<1>4. Cardinality(Good(shares)) \in Nat /\ Cardinality(Good(more)) \in Nat
  BY <1>1, <1>3, FS_CardinalityType
<1> HIDE DEF Good
<1>5. Cardinality(Good(shares)) >= min_shares => Cardinality(Good(more)) >= min_shares
  BY <1>3, <1>4, OutputAssumption
<1> QED
  BY <1>5 DEF Recovers, Good

\* What obtain_outputs makes of a proper snapshot is warranted by the shares.
LEMMA ResultWarranted ==
  ASSUME TypeOK, NEW shares, Proper(shares)
  PROVE  /\ Result(shares) = "outputs" => Recovers(Sent)
         /\ Result(shares) = "error" =>
              \/ min_output_shares < min_shares
              \/ \E p \in Sent : output_shares[p] = "unreadable"
<1>1. /\ shares \subseteq Sent
      /\ Sent \subseteq mpc_nodes
      /\ Usable(shares) \subseteq Sent
  BY DEF Proper, Sent, Usable
<1>2. ASSUME Result(shares) = "outputs"
      PROVE  Recovers(Sent)
  <2>1. Recovers(Usable(shares))
    BY <1>2, OutputAssumption DEF Result
  <2> QED
    BY <1>1, <2>1, RecoversMore
<1>3. ASSUME Result(shares) = "error"
      PROVE  \/ min_output_shares < min_shares
             \/ \E p \in Sent : output_shares[p] = "unreadable"
  <2>1. \/ Cardinality(shares) < min_shares
        \/ \E p \in shares : output_shares[p] = "unreadable"
    BY <1>3, OutputAssumption DEF Result
  <2>2. /\ Cardinality(shares) \in Nat
        /\ Cardinality(shares) >= min_output_shares
    BY <1>1, OutputAssumption, FS_Subset, FS_CardinalityType DEF Proper
  <2>3. min_shares \in Nat /\ min_output_shares \in Int
    BY OutputAssumption
  <2> QED
    BY <1>1, <2>1, <2>2, <2>3
<1> QED
  BY <1>2, <1>3

\* obtain_outputs only returns what a proper snapshot gave it.
LEMMA OutcomeStep ==
  ASSUME TypeOK, TypeOK', SnapshotsProper, OutcomeJustified, [Next]_vars
  PROVE  OutcomeJustified'
<1> SUFFICES ASSUME NEW c \in Connection
             PROVE  /\ outcome'[c] = "outputs" => Recovers(Sent)'
                    /\ outcome'[c] = "error" =>
                         \/ min_output_shares < min_shares
                         \/ \E p \in Sent' : output_shares'[p] = "unreadable"
  BY DEF OutcomeJustified
<1>1. Sent' \subseteq mpc_nodes /\ Sent \subseteq mpc_nodes
  BY DEF Sent
<1>2. Recovers(Sent) => Recovers(Sent)'
  <2>1. {p \in Sent : output_shares'[p] = "good"} = {p \in Sent : output_shares[p] = "good"}
    BY SharesKept
  <2>2. ASSUME Recovers(Sent)
        PROVE  Cardinality({p \in Sent : output_shares'[p] = "good"}) >= min_shares
    BY <2>1, <2>2 DEF Recovers
  <2>3. /\ IsFiniteSet({p \in Sent' : output_shares'[p] = "good"})
        /\ {p \in Sent : output_shares'[p] = "good"} \subseteq
             {p \in Sent' : output_shares'[p] = "good"}
    BY <1>1, SharesKept, OutputAssumption, FS_Subset
  <2>4. /\ Cardinality({p \in Sent : output_shares'[p] = "good"}) <=
             Cardinality({p \in Sent' : output_shares'[p] = "good"})
        /\ Cardinality({p \in Sent : output_shares'[p] = "good"}) \in Nat
        /\ Cardinality({p \in Sent' : output_shares'[p] = "good"}) \in Nat
    BY <2>3, FS_Subset, FS_CardinalityType
  <2>5. min_shares \in Nat
    BY OutputAssumption
  <2>6. ASSUME Recovers(Sent)
        PROVE  Cardinality({p \in Sent' : output_shares'[p] = "good"}) >= min_shares
    BY <2>2, <2>4, <2>5, <2>6
  <2> QED
    BY <2>6 DEF Recovers
<1>3. (\E p \in Sent : output_shares[p] = "unreadable") =>
        \E p \in Sent' : output_shares'[p] = "unreadable"
  BY SharesKept
<1>4. CASE outcome'[c] = outcome[c]
  BY <1>2, <1>3, <1>4 DEF OutcomeJustified
<1>5. CASE outcome'[c] # outcome[c]
  <2>1. obtain_outputs(c)
    <3>1. PICK d \in Connection : obtain_outputs(d)
      BY <1>5 DEF Next, send_output_shares, ObtainRequested, ObtainAccepted,
         ready_output_snapshot, SnapshotIf, SendSnapshot, RemoveFailedSink, Disconnect, vars
    <3>2. d = c
      BY <1>5, <3>1 DEF obtain_outputs, TypeOK
    <3> QED
      BY <3>1, <3>2, ZenonT(30)
  <2>2. /\ queue[c] \in Seq(SUBSET mpc_nodes)
        /\ queue[c] # <<>>
        /\ outcome'[c] = Result(Head(queue[c]))
    BY <2>1 DEF obtain_outputs, TypeOK
  <2>3. 1 \in 1..Len(queue[c]) /\ Head(queue[c]) = queue[c][1]
    BY <2>2
  <2>4. Proper(Head(queue[c]))
    BY <2>3 DEF SnapshotsProper
  <2> QED
    BY <1>2, <1>3, <2>2, <2>4, ResultWarranted
<1> QED
  BY <1>4, <1>5

-----------------------------------------------------------------------------
Inv ==
  /\ TypeOK
  /\ OpenSinkKept
  /\ FailedIsClosed
  /\ Covered
  /\ SnapshotsProper
  /\ OfferedTried
  /\ OutcomeJustified

\* Every step keeps the invariant.
LEMMA InvStep ==
  ASSUME Inv, [Next]_vars
  PROVE  Inv'
<1>1. TypeOK'
  BY TypeStep DEF Inv
<1> QED
  BY <1>1, SinkStep, CoveredStep, SnapshotsProperStep, OfferedTriedStep, OutcomeStep
  DEF Inv

\* It holds at the start.
LEMMA InvInit ==
  ASSUME Init
  PROVE  Inv
<1>1. Sent = {}
  BY DEF Init, Sent
<1>2. TypeOK /\ OpenSinkKept /\ FailedIsClosed
  BY OutputAssumption DEF Init, TypeOK, OpenSinkKept, FailedIsClosed, Nothing, Handler
<1>3. Covered /\ SnapshotsProper /\ OfferedTried
  BY DEF Init, Covered, SnapshotsProper, OfferedTried
<1>4. OutcomeJustified
  BY OutputAssumption DEF Init, OutcomeJustified
<1> QED
  BY <1>2, <1>3, <1>4 DEF Inv

\* The invariant holds in every state of the output delivery.
THEOREM InductiveInvariant == Spec => []Inv
BY InvInit, InvStep, PTL DEF Spec

\* An open subscription is never displaced, by any handshake or clean-up
\* (obtain_output_shares, deliver_ready_output_waiters).
THEOREM SinkKept == Spec => []OpenSinkKept
BY InductiveInvariant, PTL DEF Inv

\* The invariant gives that no share is overlooked.
LEMMA OfferedFromInv ==
  ASSUME Inv
  PROVE  AllSharesOffered
<1> SUFFICES ASSUME \A h \in Handler : stage[h] = "idle",
                    NEW c \in Connection,
                    subscription[c] = "open",
                    Cardinality(Sent) >= min_output_shares
             PROVE  Sent \in offered[c] /\ (queue[c] = <<>> => Result(Sent) = None)
  BY DEF AllSharesOffered
<1>1. Sent \in offered[c]
  BY ZenonT(30) DEF Inv, Covered, OnTheWay
<1>2. queue[c] = <<>> => Result(Sent) = None
  BY <1>1 DEF Inv, OfferedTried
<1> QED
  BY <1>1, <1>2

\* When no handler is under way an open subscription has been sent all shares,
\* and a client that read them all waits on only if they are not enough, for
\* every number of parties and every threshold.
THEOREM SharesOffered == Spec => []AllSharesOffered
BY InductiveInvariant, OfferedFromInv, PTL

\* The client gets outputs only from enough good shares, and an error only when
\* a share cannot be opened or the coordinator waits for too few
\* (obtain_outputs).
THEOREM OutcomesJustified == Spec => []OutcomeJustified
BY InductiveInvariant, PTL DEF Inv

\* When the honest parties are enough for both thresholds and have sent their
\* shares, nothing is left under way and the client has read what it was sent,
\* then no subscription is left waiting, whatever the other parties sent: the
\* part of OutputsObtained that does not depend on fairness
\* (deliver_ready_output_waiters, obtain_outputs).
THEOREM NobodyLeftWaiting ==
  ASSUME NEW Honest \in SUBSET mpc_nodes,
         min_output_shares <= Cardinality(Honest),
         min_shares <= Cardinality(Honest)
  PROVE  Init /\ [][HonestNext(Honest)]_vars =>
           [](/\ Honest \subseteq Sent
              /\ \A h \in Handler : stage[h] = "idle"
              /\ \A c \in Connection : queue[c] = <<>>
              => \A c \in Connection : subscription[c] # "open")
<1> DEFINE HonestGood == \A p \in Honest : output_shares[p] \in {"good", None}
           Quiet == /\ Honest \subseteq Sent
                    /\ \A h \in Handler : stage[h] = "idle"
                    /\ \A c \in Connection : queue[c] = <<>>
           Nobody == \A c \in Connection : subscription[c] # "open"
<1>1. Init => Inv /\ HonestGood
  <2>1. Init => HonestGood
    BY DEF Init
  <2> QED
    BY <2>1, InvInit
<1>2. ASSUME Inv, HonestGood, [HonestNext(Honest)]_vars
      PROVE  Inv' /\ HonestGood'
  <2>1. [Next]_vars
    BY <1>2, OutputAssumption, ZenonT(30) DEF HonestNext, Next
  <2>2. HonestGood'
    <3>1. ASSUME NEW p \in mpc_nodes, NEW share \in Share,
                 send_output_shares(p, share), p \in Honest => share = "good"
          PROVE  HonestGood'
      BY <1>2, <3>1 DEF send_output_shares, Inv, TypeOK
    <3>2. ASSUME UNCHANGED output_shares
          PROVE  HonestGood'
      BY <1>2, <3>2
    <3> QED
      BY <1>2, <3>1, <3>2, OutputAssumption
      DEF HonestNext, ObtainRequested, ObtainAccepted, ready_output_snapshot, SnapshotIf,
          SendSnapshot, RemoveFailedSink, Disconnect, obtain_outputs, vars
  <2> QED
    BY <1>2, <2>1, <2>2, InvStep
<1>3. ASSUME Inv, HonestGood, Quiet
      PROVE  Nobody
  <2>1. /\ Honest \subseteq {p \in Usable(Sent) : output_shares[p] = "good"}
        /\ IsFiniteSet(Sent)
        /\ {p \in Usable(Sent) : output_shares[p] = "good"} \subseteq Sent
        /\ Honest \subseteq Sent
    BY <1>3, OutputAssumption, FS_Subset DEF Sent, Usable
  <2>2. /\ Cardinality(Honest) <= Cardinality({p \in Usable(Sent) : output_shares[p] = "good"})
        /\ Cardinality(Honest) <= Cardinality(Sent)
        /\ Cardinality(Honest) \in Nat
        /\ Cardinality(Sent) \in Nat
        /\ Cardinality({p \in Usable(Sent) : output_shares[p] = "good"}) \in Nat
    BY <2>1, FS_Subset, FS_CardinalityType
  <2>3. min_shares \in Nat /\ min_output_shares \in Int
    BY OutputAssumption
  <2>4. Recovers(Usable(Sent))
    BY <2>2, <2>3 DEF Recovers
  <2>5. Result(Sent) # None
    BY <2>4, OutputAssumption DEF Result
  <2>6. Cardinality(Sent) >= min_output_shares
    BY <2>2, <2>3
  <2>7. AllSharesOffered
    BY <1>3, OfferedFromInv
  <2> QED
    BY <1>3, <2>5, <2>6, <2>7 DEF AllSharesOffered
<1> QED
  BY <1>1, <1>2, <1>3, PTL
================================================================================
