---------------------------- MODULE BrowserSessions ----------------------------
(***************************************************************************)
(* The browser sessions of one registered identity in one execution        *)
(* (off-chain/src/browser_rpc.rs): every tab has keys of its own and binds *)
(* them to the identity with a WebAuthn ceremony; the tab that submits the *)
(* inputs should be the one the outputs are encrypted to.                  *)
(*                                                                         *)
(* browser_bind_webauthn_identity works under three locks in turn: the     *)
(* coordinator's (is the identity admitted, has it submitted), that of the *)
(* sign counts, that of the bindings.  browser_submit_masked_inputs        *)
(* submits under the first and pins under the last.                        *)
(*                                                                         *)
(* A party that has the outputs asks for the key to encrypt them to, and   *)
(* only then encrypts and sends them.                                      *)
(***************************************************************************)
EXTENDS Integers

CONSTANTS
  Tab,
  mpc_nodes,   \* the parties that send output shares
  Slot,        \* the input slots assigned to the identity
  None,
  Counting,    \* whether the authenticator counts its signatures
  MaxCount     \* bound: signatures of the authenticator

ASSUME BrowserAssumption ==
  /\ {None, "no binding"} \cap Tab = {}
  /\ Slot # {}
  /\ Counting \in BOOLEAN
  /\ MaxCount \in Nat

VARIABLES
  counter,          \* the authenticator's signature counter
  ceremony,         \* per tab, where its bind call is
  sign_count,       \* per tab, the count its assertion carries
  last_known,       \* SignCounts
  by_token,         \* tabs whose keys have a session token
  target,           \* by_execution_and_client_identity: the tab outputs go to
  masked_inputs,    \* per slot, the tab that submitted it
  pinning,          \* tabs between their submission and their pin
  encryption_key,   \* per party, the tab whose key it encrypts the outputs to
  early,            \* history: parties that asked while a pin was to come
  overtaken         \* history: a bind was under way when inputs came in

partyVars == <<encryption_key, early>>
vars == <<counter, ceremony, sign_count, last_known, by_token, target,
          masked_inputs, pinning, partyVars, overtaken>>

Init ==
  /\ counter = 0
  /\ ceremony = [b \in Tab |-> "none"]
  /\ sign_count = [b \in Tab |-> 0]
  /\ last_known = 0
  /\ by_token = {}
  /\ target = None
  /\ masked_inputs = [s \in Slot |-> None]
  /\ pinning = {}
  /\ encryption_key = [p \in mpc_nodes |-> None]
  /\ early = {}
  /\ overtaken = FALSE

already_submitted == \E s \in Slot : masked_inputs[s] # None

UnderWay == {b \in Tab : ceremony[b] \in {"checked", "counted"}}

\* The user touches the authenticator: the tab has an assertion to send.
SignAssertion(b) ==
  /\ ceremony[b] = "none"
  /\ counter < MaxCount
  /\ counter' = counter + 1
  /\ sign_count' = [sign_count EXCEPT ![b] = IF Counting THEN counter' ELSE 0]
  /\ ceremony' = [ceremony EXCEPT ![b] = "asserted"]
  /\ UNCHANGED <<last_known, by_token, target, masked_inputs, pinning,
                 partyVars, overtaken>>

\* Fault: an identity that has submitted may bind again.
BindChecked_Always(b) ==
  /\ ceremony[b] = "asserted"
  /\ ceremony' = [ceremony EXCEPT ![b] = "checked"]
  /\ UNCHANGED <<counter, sign_count, last_known, by_token, target,
                 masked_inputs, pinning, partyVars, overtaken>>

\* The bind call finds the identity and refuses one that has submitted.
BindChecked(b) ==
  /\ ceremony[b] = "asserted"
  /\ ceremony' = [ceremony EXCEPT ![b] =
                    IF already_submitted THEN "none" ELSE "checked"]
  /\ UNCHANGED <<counter, sign_count, last_known, by_token, target,
                 masked_inputs, pinning, partyVars, overtaken>>

\* SignCounts::accept
BindCounted(b) ==
  /\ ceremony[b] = "checked"
  /\ IF (sign_count[b] # 0 \/ last_known # 0) /\ sign_count[b] <= last_known
     THEN /\ ceremony' = [ceremony EXCEPT ![b] = "none"]
          /\ UNCHANGED last_known
     ELSE /\ ceremony' = [ceremony EXCEPT ![b] = "counted"]
          /\ last_known' = sign_count[b]
  /\ UNCHANGED <<counter, sign_count, by_token, target, masked_inputs, pinning,
                 partyVars, overtaken>>

\* WebauthnBindings::insert
BindInserted(b) ==
  /\ ceremony[b] = "counted"
  /\ ceremony' = [ceremony EXCEPT ![b] = "none"]
  /\ by_token' = by_token \cup {b}
  /\ target' = b
  /\ UNCHANGED <<counter, sign_count, last_known, masked_inputs, pinning,
                 partyVars, overtaken>>

\* A request is served when its session token is known and stands for the key
\* that signed it.  (What repeats a request is the subject of NonceBook.)
authenticate(b) == b \in by_token

\* A tab with a session token submits inputs for some of the free slots.
browser_submit_masked_inputs(b, slots) ==
  /\ authenticate(b)
  /\ b \notin pinning
  /\ \A s \in slots : masked_inputs[s] = None
  /\ masked_inputs' = [s \in Slot |-> IF s \in slots THEN b ELSE masked_inputs[s]]
  /\ pinning' = pinning \cup {b}
  /\ overtaken' = (overtaken \/ UnderWay # {})
  /\ UNCHANGED <<counter, ceremony, sign_count, last_known, by_token, target,
                 partyVars>>

\* Fault: the binding is not pinned.
pin_binding_from_token_None(b) ==
  /\ b \in pinning
  /\ pinning' = pinning \ {b}
  /\ UNCHANGED <<counter, ceremony, sign_count, last_known, by_token, target,
                 masked_inputs, partyVars, overtaken>>

pin_binding_from_token(b) ==
  /\ b \in pinning
  /\ pinning' = pinning \ {b}
  /\ target' = b
  /\ UNCHANGED <<counter, ceremony, sign_count, last_known, by_token,
                 masked_inputs, partyVars, overtaken>>

\* What resolve_output_encryption_key answers.
resolve_ecdh_public_key == IF target = None THEN "no binding" ELSE target

\* A party has its outputs, so the inputs are all in.  It asks for the key, and
\* takes the identity's own when there is no binding or the call fails.
send_output_shares(p, answered) ==
  /\ encryption_key[p] = None
  /\ \A s \in Slot : masked_inputs[s] # None
  /\ encryption_key' = [encryption_key EXCEPT ![p] =
       IF answered THEN resolve_ecdh_public_key ELSE "no binding"]
  /\ early' = IF pinning = {} THEN early ELSE early \cup {p}
  /\ UNCHANGED <<counter, ceremony, sign_count, last_known, by_token, target,
                 masked_inputs, pinning, overtaken>>

Next ==
  \/ \E b \in Tab : SignAssertion(b)
  \/ \E b \in Tab : BindChecked(b)
  \/ \E b \in Tab : BindCounted(b)
  \/ \E b \in Tab : BindInserted(b)
  \/ \E b \in Tab, slots \in (SUBSET Slot) \ {{}} : browser_submit_masked_inputs(b, slots)
  \/ \E b \in Tab : pin_binding_from_token(b)
  \/ \E p \in mpc_nodes, answered \in BOOLEAN : send_output_shares(p, answered)

Spec == Init /\ [][Next]_vars

-----------------------------------------------------------------------------
Submitters == {b \in Tab : \E s \in Slot : masked_inputs[s] = b}

\* Types of the sessions of an identity.
TypeOK ==
  /\ counter \in 0..MaxCount
  /\ ceremony \in [Tab -> {"none", "asserted", "checked", "counted"}]
  /\ sign_count \in [Tab -> 0..MaxCount]
  /\ last_known \in 0..MaxCount
  /\ by_token \subseteq Tab
  /\ target \in by_token \cup {None}
  /\ masked_inputs \in [Slot -> Tab \cup {None}]
  /\ pinning \subseteq Submitters
  /\ encryption_key \in [mpc_nodes -> Tab \cup {None, "no binding"}]
  /\ early \subseteq mpc_nodes
  /\ overtaken \in BOOLEAN

\* The parties that were given a session key once every pin had been made.
Resolved == {p \in mpc_nodes \ early : encryption_key[p] \in Tab}

\* The parties' shares can be opened together, by a tab that submitted: however
\* bind calls, submissions, pins and the parties' questions interleave, the
\* parties that were given a session key after the submissions returned were
\* all given the same one, that of a submitter, as long as no bind call was
\* between its check and its insertion when inputs came in
\* (pin_binding_from_token, already_submitted, send_output_shares).
OutputsToSubmitter ==
  ~overtaken =>
    \A p, q \in Resolved : /\ encryption_key[p] \in Submitters
                           /\ encryption_key[q] = encryption_key[p]

\* Every input is in, and no submission or bind is under way.
Settled ==
  (\A s \in Slot : masked_inputs[s] # None) /\ pinning = {} /\ UnderWay = {}

\* Once settled, sessions stay settled and the target stays what it is, whatever
\* the tabs go on to sign and to ask for: a late bind is turned away before it
\* gets under way (already_submitted).
TargetSettles == [][Settled => Settled' /\ target' = target]_vars

\* The comment of pin_binding_from_token: combined with the refusal of an
\* identity that has submitted, the pin is "guaranteed to be the last write
\* by_execution_and_client_identity ever receives".  Once the inputs are in
\* and every submission has made its pin, no step moves the target.  It fails: a
\* bind call that passed its check before the inputs came in writes after the pin.
PinIsLastWrite == [][already_submitted /\ pinning = {} => target' = target]_vars
================================================================================
