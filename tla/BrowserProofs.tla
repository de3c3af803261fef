----------------------------- MODULE BrowserProofs -----------------------------
(***************************************************************************)
(* Where the outputs go, for any number of tabs and slots and for any       *)
(* authenticator.  After the first submission no new bind gets past its     *)
(* check; so if none was past it then, none is under way now (QuietUnless), *)
(* and the target only moves by pins, which are for tabs that submitted.    *)
(* A party that asks after the pins therefore asks in a settled state, and  *)
(* the target it is given never changes again (KeysFixed).                  *)
(*                                                                          *)
(* The second part is ReplayedOnlyIfOvertaken, for every window, every set *)
(* of nonces, every number of calls and every length of time.  The book may *)
(* forget a nonce, so the property is not inductive: the missing half is    *)
(* that whatever was accepted and is no longer on file is too old for the   *)
(* latest time that retain was used with, and so for every call that has    *)
(* read that time or a later one.                                           *)
(***************************************************************************)
EXTENDS BrowserSessions, NonceBook, TLAPS

\* After the first submission a bind is under way only if one was overtaken.
QuietUnless == Submitters # {} /\ ~overtaken => UnderWay = {}

\* The target is a tab that submitted, or about to be.
Aimed == Submitters # {} /\ ~overtaken => target \in Submitters \/ pinning # {}

Types ==
  /\ ceremony \in [Tab -> {"none", "asserted", "checked", "counted"}]
  /\ masked_inputs \in [Slot -> Tab \cup {None}]
  /\ pinning \subseteq Submitters
  /\ by_token \subseteq Tab

\* From the first key given out after the pins, the sessions are settled, and all
\* such keys are the target's.
KeysFixed ==
  /\ DOMAIN encryption_key = mpc_nodes
  /\ ~overtaken /\ Resolved # {} =>
       Settled /\ \A p \in Resolved : encryption_key[p] = target

Quiet == Types /\ QuietUnless /\ Aimed

Inv == Quiet /\ KeysFixed

\* Somebody has submitted exactly when already_submitted says so.
LEMMA SubmittersKnown ==
  ASSUME Types
  PROVE  already_submitted <=> Submitters # {}
BY BrowserAssumption DEF Types, already_submitted, Submitters

\* The steps of a bind call leave the inputs alone.
LEMMA BindSteps ==
  ASSUME Quiet, NEW b \in Tab,
         SignAssertion(b) \/ BindChecked(b) \/ BindCounted(b) \/ BindInserted(b)
  PROVE  Quiet'
<1>1. UNCHANGED <<masked_inputs, pinning, overtaken>>
  BY DEF SignAssertion, BindChecked, BindCounted, BindInserted
<1>2. Submitters' = Submitters
  BY <1>1 DEF Submitters
<1>3. Types'
  BY <1>1, <1>2 DEF Quiet, Types, SignAssertion, BindChecked, BindCounted, BindInserted
<1>4. QuietUnless' /\ Aimed'
  <2> SUFFICES ASSUME Submitters # {}, ~overtaken
               PROVE  UnderWay' = {} /\ target' = target
    BY <1>1, <1>2 DEF Quiet, QuietUnless, Aimed
  <2>1. already_submitted
    BY SubmittersKnown DEF Quiet
  <2>2. \A d \in Tab : ceremony[d] \notin {"checked", "counted"}
    BY DEF Quiet, QuietUnless, UnderWay
  <2>3. \A d \in Tab : ceremony'[d] \notin {"checked", "counted"}
    BY <2>1, <2>2 DEF Quiet, Types, SignAssertion, BindChecked, BindCounted, BindInserted
  <2>4. target' = target
    BY <2>2 DEF SignAssertion, BindChecked, BindCounted, BindInserted
  <2> QED
    BY <2>3, <2>4 DEF UnderWay
<1> QED
  BY <1>3, <1>4 DEF Quiet

\* A submission notes whether it overtakes a bind, and is going to be pinned.
LEMMA SubmitStep ==
  ASSUME Quiet, NEW b \in Tab, NEW slots \in (SUBSET Slot) \ {{}},
         browser_submit_masked_inputs(b, slots)
  PROVE  Quiet'
<1>1. /\ masked_inputs' = [s \in Slot |-> IF s \in slots THEN b ELSE masked_inputs[s]]
      /\ \A s \in slots : masked_inputs[s] = None
      /\ pinning' = pinning \cup {b}
      /\ overtaken' = (overtaken \/ UnderWay # {})
      /\ UNCHANGED <<ceremony, by_token, target>>
  BY DEF browser_submit_masked_inputs
<1>2. Submitters' = Submitters \cup {b}
  <2>1. PICK s \in slots : s \in Slot
    OBVIOUS
  <2>2. masked_inputs'[s] = b
    BY <1>1, <2>1
  <2>3. ASSUME NEW d \in Tab, NEW r \in Slot
        PROVE  /\ masked_inputs[r] = d => masked_inputs'[r] = d
               /\ masked_inputs'[r] = d => d = b \/ masked_inputs[r] = d
    BY <1>1, BrowserAssumption
  <2> QED
    BY <2>1, <2>2, <2>3 DEF Submitters
<1>3. Types'
  BY <1>1, <1>2 DEF Quiet, Types
<1>4. QuietUnless'
  BY <1>1, ZenonT(30) DEF QuietUnless, UnderWay
<1>5. Aimed'
  BY <1>1 DEF Aimed
<1> QED
  BY <1>3, <1>4, <1>5 DEF Quiet

\* The pin makes a tab that submitted the target.
LEMMA PinStep ==
  ASSUME Quiet, NEW b \in Tab, pin_binding_from_token(b)
  PROVE  Quiet'
<1>1. /\ b \in pinning /\ pinning' = pinning \ {b} /\ target' = b
      /\ UNCHANGED <<ceremony, by_token, masked_inputs, overtaken>>
  BY DEF pin_binding_from_token
<1>2. Submitters' = Submitters /\ UnderWay' = UnderWay /\ b \in Submitters
  BY <1>1 DEF Quiet, Types, Submitters, UnderWay
<1> QED
  BY <1>1, <1>2 DEF Quiet, Types, QuietUnless, Aimed

\* Settled sessions stay settled, and their target stays what it is.
LEMMA SettledStep ==
  ASSUME Quiet, Next, Settled
  PROVE  Settled' /\ target' = target
<1>1. already_submitted
  BY BrowserAssumption DEF Settled, already_submitted
<1>2. \A d \in Tab : ceremony[d] \notin {"checked", "counted"}
  BY DEF Settled, UnderWay
<1>3. ASSUME NEW b \in Tab,
             SignAssertion(b) \/ BindChecked(b) \/ BindCounted(b) \/ BindInserted(b)
      PROVE  Settled' /\ target' = target
  <2>1. UNCHANGED <<masked_inputs, pinning, target>>
    BY <1>2, <1>3 DEF SignAssertion, BindChecked, BindCounted, BindInserted
  <2>2. \A d \in Tab : ceremony'[d] \notin {"checked", "counted"}
    BY <1>1, <1>2, <1>3 DEF Quiet, Types, SignAssertion, BindChecked, BindCounted, BindInserted
  <2> QED
    BY <2>1, <2>2 DEF Settled, UnderWay
<1>4. ASSUME NEW b \in Tab, NEW slots \in (SUBSET Slot) \ {{}},
             browser_submit_masked_inputs(b, slots)
      PROVE  FALSE
  <2>1. PICK s \in slots : s \in Slot
    OBVIOUS
  <2> QED
    BY <1>4, <2>1 DEF browser_submit_masked_inputs, Settled
<1>5. ASSUME NEW b \in Tab, pin_binding_from_token(b)
      PROVE  FALSE
  BY <1>5 DEF pin_binding_from_token, Settled
<1>6. ASSUME NEW p \in mpc_nodes, NEW answered \in BOOLEAN, send_output_shares(p, answered)
      PROVE  Settled' /\ target' = target
  BY <1>6 DEF send_output_shares, Settled, UnderWay
<1> QED
  BY <1>3, <1>4, <1>5, <1>6 DEF Next

\* The keys given out stay the target's, whatever the tabs do.
LEMMA KeysStep ==
  ASSUME Inv, Next, UNCHANGED partyVars, overtaken => overtaken'
  PROVE  KeysFixed'
<1>1. Resolved' = Resolved
  BY DEF partyVars, Resolved
<1>2. Settled => Settled' /\ target' = target
  BY SettledStep DEF Inv
<1> QED
  BY <1>1, <1>2 DEF partyVars, Inv, KeysFixed

\* A party that asks for the key changes nothing else.
LEMMA SendStep ==
  ASSUME Inv, NEW p \in mpc_nodes, NEW answered \in BOOLEAN,
         send_output_shares(p, answered)
  PROVE  Inv'
<1>1. /\ UNCHANGED <<ceremony, by_token, target, masked_inputs, pinning, overtaken>>
      /\ \A s \in Slot : masked_inputs[s] # None
      /\ encryption_key' = [encryption_key EXCEPT ![p] =
           IF answered THEN resolve_ecdh_public_key ELSE "no binding"]
      /\ early' = IF pinning = {} THEN early ELSE early \cup {p}
  BY DEF send_output_shares
<1>2. Submitters' = Submitters /\ UnderWay' = UnderWay
  BY <1>1 DEF Submitters, UnderWay
<1>3. Quiet'
  BY <1>1, <1>2 DEF Inv, Quiet, Types, QuietUnless, Aimed
<1>4. KeysFixed'
  <2> SUFFICES ASSUME ~overtaken, Resolved' # {}
               PROVE  Settled /\ \A q \in Resolved' : encryption_key'[q] = target
    <3>1. DOMAIN encryption_key' = mpc_nodes
      BY <1>1 DEF Inv, KeysFixed
    <3> QED
      BY <1>1, <1>2, <3>1 DEF KeysFixed, Settled
  <2>1. \A q \in Resolved' : q # p => q \in Resolved /\ encryption_key'[q] = encryption_key[q]
    BY <1>1 DEF Inv, KeysFixed, Resolved
  <2>2. p \in Resolved' => pinning = {} /\ encryption_key'[p] = target
    BY <1>1, BrowserAssumption DEF Inv, KeysFixed, Resolved, resolve_ecdh_public_key
  <2>3. pinning = {} => Settled
    <3>1. Submitters # {}
      BY <1>1, BrowserAssumption, SubmittersKnown DEF Inv, Quiet, already_submitted
    <3> QED
      BY <1>1, <3>1 DEF Inv, Quiet, QuietUnless, Settled
  <2> QED
    BY <2>1, <2>2, <2>3 DEF Inv, KeysFixed
<1> QED
  BY <1>3, <1>4 DEF Inv

-----------------------------------------------------------------------------
\* The invariant holds in every state of the sessions.
THEOREM InductiveInvariant == Spec => []Inv
<1>1. Init => Inv
  BY BrowserAssumption DEF Init, Inv, Quiet, KeysFixed, Types, QuietUnless, Aimed,
     Submitters, Resolved
<1>2. Inv /\ [Next]_vars => Inv'
  <2>1. Inv /\ UNCHANGED vars => Inv'
    BY DEF vars, partyVars, Inv, Quiet, KeysFixed, Types, QuietUnless, Aimed, Submitters,
       UnderWay, Resolved, Settled
  <2> SUFFICES ASSUME Inv, Next
               PROVE  Inv'
    BY <2>1
  <2>2. ASSUME NEW b \in Tab,
               SignAssertion(b) \/ BindChecked(b) \/ BindCounted(b) \/ BindInserted(b)
        PROVE  Inv'
    <3>1. UNCHANGED <<partyVars, overtaken>>
      BY <2>2 DEF SignAssertion, BindChecked, BindCounted, BindInserted
    <3> QED
      BY <2>2, <3>1, BindSteps, KeysStep DEF Inv
  <2>3. ASSUME NEW b \in Tab, NEW slots \in (SUBSET Slot) \ {{}},
               browser_submit_masked_inputs(b, slots)
        PROVE  Inv'
    <3>1. UNCHANGED partyVars /\ (overtaken => overtaken')
      BY <2>3, ZenonT(30) DEF browser_submit_masked_inputs
    <3> QED
      BY <2>3, <3>1, SubmitStep, KeysStep DEF Inv
  <2>4. ASSUME NEW b \in Tab, pin_binding_from_token(b)
        PROVE  Inv'
    <3>1. UNCHANGED <<partyVars, overtaken>>
      BY <2>4 DEF pin_binding_from_token
    <3> QED
      BY <2>4, <3>1, PinStep, KeysStep DEF Inv
  <2> QED
    BY <2>2, <2>3, <2>4, SendStep DEF Next
<1> QED
  BY <1>1, <1>2, PTL DEF Spec

\* The parties that ask after the pins encrypt to one key, that of a tab that
\* submitted, unless a bind was overtaken between its check and its insertion
\* (already_submitted, pin_binding_from_token, send_output_shares).
THEOREM OutputsReachSubmitter == Spec => []OutputsToSubmitter
<1>1. Inv => OutputsToSubmitter
  <2> SUFFICES ASSUME Inv, ~overtaken, Resolved # {}
               PROVE  target \in Submitters /\ \A p \in Resolved : encryption_key[p] = target
    BY DEF OutputsToSubmitter
  <2>1. Settled /\ \A p \in Resolved : encryption_key[p] = target
    BY DEF Inv, KeysFixed
  <2>2. Submitters # {}
    BY <2>1, BrowserAssumption, SubmittersKnown DEF Inv, Quiet, Settled, already_submitted
  <2> QED
    BY <2>1, <2>2 DEF Inv, Quiet, Aimed, Settled
<1> QED
  BY <1>1, InductiveInvariant, PTL

\* Once the inputs are in and nothing is under way, the target is final.
THEOREM TargetFinal == Spec => TargetSettles
<1>1. Inv /\ [Next]_vars => [Settled => Settled' /\ target' = target]_vars
  BY SettledStep DEF Inv
<1> QED
  BY <1>1, InductiveInvariant, PTL DEF Spec, TargetSettles

-----------------------------------------------------------------------------
\* A request that was accepted is on file or too old for every call that has
\* read at least the latest time that retain was used with.
OnFileOrOld ==
  \A r \in accepted : r \in seen \/ latest - r.created > NONCE_WINDOW_SECONDS

InvBook == TypeOKBook /\ OnFileOrOld /\ ReplayedOnlyIfOvertaken

\* What retain removes is too old for the time it is used with.
LEMMA RemovedIsOld ==
  ASSUME TypeOKBook, NEW now \in Time, NEW r \in seen, r \notin Retained(now)
  PROVE  now - r.created > NONCE_WINDOW_SECONDS
<1>1. r \in Request
  BY DEF TypeOKBook
<1>2. r.created \in Int /\ now \in Int /\ NONCE_WINDOW_SECONDS \in Nat
  BY <1>1, NonceAssumption DEF Request, Time
<1> QED
  BY <1>2 DEF Retained, saturating_sub

\* A call that none with a later time has overtaken, and whose request passes
\* the check of its timestamp and of its nonce, brings a request that has not
\* been accepted before.
LEMMA PassesOnlyOnce ==
  ASSUME TypeOKBook, OnFileOrOld,
         NEW now \in Time, latest <= now,
         NEW request \in Request,
         abs_diff(now, request.created) <= NONCE_WINDOW_SECONDS,
         ~ \E r \in Retained(now) : r.nonce = request.nonce
  PROVE  request \notin accepted
<1>1. /\ request.created \in Int /\ now \in Int /\ latest \in Int
      /\ NONCE_WINDOW_SECONDS \in Nat
  BY NonceAssumption DEF TypeOKBook, Request, Time
<1>2. /\ ~(now - request.created > NONCE_WINDOW_SECONDS)
      /\ ~(latest - request.created > NONCE_WINDOW_SECONDS)
  BY <1>1 DEF abs_diff
<1>3. request \notin Retained(now)
  OBVIOUS
<1>4. request \notin seen
  BY <1>2, <1>3, RemovedIsOld
<1> QED
  BY <1>2, <1>4 DEF OnFileOrOld

\* A use of retain leaves every accepted request on file or too old.
LEMMA OldAfterRetain ==
  ASSUME TypeOKBook, OnFileOrOld, NEW now \in Time,
         NEW later, later = IF now > latest THEN now ELSE latest,
         NEW r \in accepted
  PROVE  r \in Retained(now) \/ later - r.created > NONCE_WINDOW_SECONDS
<1>1. /\ r.created \in Int /\ now \in Int /\ latest \in Int
      /\ NONCE_WINDOW_SECONDS \in Nat
  BY NonceAssumption DEF TypeOKBook, Request, Time
<1>2. CASE r \in seen
  BY <1>1, <1>2, RemovedIsOld
<1>3. CASE r \notin seen
  BY <1>1, <1>3 DEF OnFileOrOld
<1> QED
  BY <1>2, <1>3

\* A call that has the lock keeps the invariant: accept files what it accepts,
\* and drops only what is too old for a call that is not overtaken.
LEMMA AcceptKeepsBook ==
  ASSUME InvBook, NEW h \in Handler, accept(h)
  PROVE  InvBook'
<1> USE DEF InvBook
<1> DEFINE now     == call[h].now
           request == call[h].request
<1>1. now \in Time /\ request \in Request
  BY DEF accept, TypeOKBook, Call
<1>2. clock' = clock /\ call' = [call EXCEPT ![h] = Idle]
  BY DEF accept
<1>3. clock' \in Time /\ call' \in [Handler -> Call \cup {Idle}]
  BY <1>2 DEF TypeOKBook
<1>4. CASE UNCHANGED <<seen, accepted, latest, replayed>>
  BY <1>3, <1>4 DEF TypeOKBook, OnFileOrOld, ReplayedOnlyIfOvertaken
<1>5. CASE /\ abs_diff(now, request.created) <= NONCE_WINDOW_SECONDS
           /\ latest' = IF now > latest THEN now ELSE latest
           /\ seen' = Retained(now)
           /\ UNCHANGED <<accepted, replayed>>
  <2>1. latest' \in Time
    BY <1>1, <1>5 DEF TypeOKBook
  <2>2. TypeOKBook'
    BY <1>3, <1>5, <2>1 DEF TypeOKBook, Retained
  <2>3. OnFileOrOld'
    BY <1>1, <1>5, OldAfterRetain DEF OnFileOrOld
  <2> QED
    BY <1>5, <2>2, <2>3 DEF ReplayedOnlyIfOvertaken
<1>6. CASE /\ abs_diff(now, request.created) <= NONCE_WINDOW_SECONDS
           /\ ~ \E r \in Retained(now) : r.nonce = request.nonce
           /\ latest' = IF now > latest THEN now ELSE latest
           /\ seen' = Retained(now) \cup {request}
           /\ accepted' = accepted \cup {request}
           /\ replayed' = IF now < latest THEN replayed
                          ELSE replayed \cup (accepted \cap {request})
  <2>1. latest' \in Time
    BY <1>1, <1>6 DEF TypeOKBook
  <2>2. replayed' = {}
    <3>1. CASE now < latest
      BY <1>6, <3>1 DEF ReplayedOnlyIfOvertaken
    <3>2. CASE ~(now < latest)
      <4>1. latest <= now
        BY <1>1, <3>2 DEF TypeOKBook, Time
      <4>2. request \notin accepted
        BY <1>1, <1>6, <4>1, PassesOnlyOnce
      <4> QED
        BY <1>6, <3>2, <4>2 DEF ReplayedOnlyIfOvertaken
    <3> QED
      BY <3>1, <3>2
  <2>3. TypeOKBook'
    BY <1>1, <1>3, <1>6, <2>1, <2>2 DEF TypeOKBook, Retained
  <2>4. OnFileOrOld'
    BY <1>1, <1>6, OldAfterRetain DEF OnFileOrOld
  <2> QED
    BY <2>2, <2>3, <2>4 DEF ReplayedOnlyIfOvertaken
<1> QED
  BY <1>4, <1>5, <1>6 DEF accept

\* The invariant holds in every state: it is about the times that the calls
\* have read, so neither the clock nor a new call can break it.
THEOREM BookInvariant == SpecBook => []InvBook
<1>1. InitBook => InvBook
  BY NonceAssumption
  DEF InitBook, InvBook, TypeOKBook, OnFileOrOld, ReplayedOnlyIfOvertaken, Time
<1>2. InvBook /\ [NextBook]_varsBook => InvBook'
  <2> SUFFICES ASSUME InvBook, [NextBook]_varsBook
               PROVE  InvBook'
    OBVIOUS
  <2>1. ASSUME NEW h \in Handler, NEW request \in Request, ReadClock(h, request)
        PROVE  InvBook'
    <3>1. [request |-> request, now |-> clock] \in Call
      BY DEF InvBook, TypeOKBook, Call
    <3> QED
      BY <2>1, <3>1
      DEF ReadClock, InvBook, TypeOKBook, OnFileOrOld, ReplayedOnlyIfOvertaken
  <2>2. ASSUME NEW h \in Handler, accept(h)
        PROVE  InvBook'
    BY <2>2, AcceptKeepsBook
  <2>3. CASE Tick
    BY <2>3 DEF Tick, InvBook, TypeOKBook, OnFileOrOld, ReplayedOnlyIfOvertaken
  <2>4. CASE UNCHANGED varsBook
    BY <2>4 DEF varsBook, InvBook, TypeOKBook, OnFileOrOld, ReplayedOnlyIfOvertaken
  <2> QED
    BY <2>1, <2>2, <2>3, <2>4 DEF NextBook
<1> QED
  BY <1>1, <1>2, PTL DEF SpecBook

\* A request is accepted twice by NonceBook::accept only when a call with a
\* later time overtook its second call between the clock and the lock, whatever
\* the window and however many calls wait, as long as the clock is not set back.
THEOREM ReplayNeedsOvertaking == SpecBook => []ReplayedOnlyIfOvertaken
BY BookInvariant, PTL DEF InvBook
================================================================================
