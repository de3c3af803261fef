------------------------------- MODULE NonceBook -------------------------------
(***************************************************************************)
(* The replay check of signed browser requests (off-chain/src/             *)
(* browser_rpc.rs, authenticate and NonceBook) for one execution and one   *)
(* identity.  Every request carries the time it was signed at and a nonce; *)
(* it may arrive any number of times, at any time.                         *)
(*                                                                         *)
(* A call reads the clock, then waits for the lock of the book and uses    *)
(* the book with the time it has read: calls may get the lock in another   *)
(* order than they read the clock.                                         *)
(***************************************************************************)
EXTENDS Integers

CONSTANTS
  Handler,              \* the calls that the coordinator serves at a time
  Nonce,
  NONCE_WINDOW_SECONDS,
  Idle,
  MaxTime               \* bound: the clock stops here

Time == 0..MaxTime

\* A request is told apart by what accept sees of it.
Request == [created : Time, nonce : Nonce]

\* A call that waits for the lock: its request and the time it has read.
Call == [request : Request, now : Time]

ASSUME NonceAssumption ==
  /\ NONCE_WINDOW_SECONDS \in Nat
  /\ MaxTime \in Nat
  /\ Idle \notin Call

VARIABLES
  clock,      \* SystemTime::now, in seconds
  call,       \* per handler, the call that waits for the lock
  seen,       \* the requests on file
  accepted,   \* history: the requests accepted so far
  latest,     \* history: the latest time that retain was used with
  replayed    \* history: the requests accepted again by a call that none
              \* with a later time had overtaken

varsBook == <<clock, call, seen, accepted, latest, replayed>>

InitBook ==
  /\ clock = 0
  /\ call = [h \in Handler |-> Idle]
  /\ seen = {}
  /\ accepted = {}
  /\ latest = 0
  /\ replayed = {}

abs_diff(x, y) == IF x >= y THEN x - y ELSE y - x

saturating_sub(x, y) == IF x >= y THEN x - y ELSE 0

\* Fault: an entry is dropped a second too early.
Retained_OneLess(now) ==
  {r \in seen : saturating_sub(now, r.created) < NONCE_WINDOW_SECONDS}

\* The entries that retain keeps.
Retained(now) ==
  {r \in seen : saturating_sub(now, r.created) <= NONCE_WINDOW_SECONDS}

\* A call whose signature and token are good reads the clock and asks for the
\* lock of the book.
ReadClock(h, request) ==
  /\ call[h] = Idle
  /\ call' = [call EXCEPT ![h] = [request |-> request, now |-> clock]]
  /\ UNCHANGED <<clock, seen, accepted, latest, replayed>>

\* With the lock: a request outside the window is turned away.  One within it
\* is accepted unless its nonce is on file; either way the entries that left
\* the window are dropped.
accept(h) ==
  /\ call[h] # Idle
  /\ LET now     == call[h].now
         request == call[h].request
     IN  \/ /\ abs_diff(now, request.created) > NONCE_WINDOW_SECONDS
            /\ UNCHANGED <<seen, accepted, latest, replayed>>
         \/ /\ abs_diff(now, request.created) <= NONCE_WINDOW_SECONDS
            /\ latest' = IF now > latest THEN now ELSE latest
            /\ IF \E r \in Retained(now) : r.nonce = request.nonce
               THEN /\ seen' = Retained(now)
                    /\ UNCHANGED <<accepted, replayed>>
               ELSE /\ seen' = Retained(now) \cup {request}
                    /\ accepted' = accepted \cup {request}
                    /\ replayed' = IF now < latest THEN replayed
                                   ELSE replayed \cup (accepted \cap {request})
  /\ call' = [call EXCEPT ![h] = Idle]
  /\ UNCHANGED clock

\* Time passes; the clock is not set back.
Tick ==
  /\ clock' \in Time
  /\ clock' > clock
  /\ UNCHANGED <<call, seen, accepted, latest, replayed>>

NextBook ==
  \/ \E h \in Handler, request \in Request : ReadClock(h, request)
  \/ \E h \in Handler : accept(h)
  \/ Tick

SpecBook == InitBook /\ [][NextBook]_varsBook

-----------------------------------------------------------------------------
\* Types of the nonce book, part of the invariant that BrowserProofs proves.
TypeOKBook ==
  /\ clock \in Time
  /\ call \in [Handler -> Call \cup {Idle}]
  /\ seen \subseteq accepted
  /\ accepted \subseteq Request
  /\ latest \in Time
  /\ replayed \subseteq Request

\* A request is accepted a second time only by a call that was overtaken: it
\* read the clock, and before it got the lock a call that had read a later time
\* made NonceBook::accept forget the nonce.  However often and late a request
\* is repeated otherwise, and however far its timestamp lies in the past or in
\* the future, accept forgets a nonce only when the request that brought it has
\* become too old for every call that is in time.
ReplayedOnlyIfOvertaken == replayed = {}
================================================================================
