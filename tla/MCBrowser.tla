------------------------------- MODULE MCBrowser -------------------------------
\* Instances of BrowserSessions and NonceBook for TLC.
EXTENDS BrowserSessions, NonceBook, TLC

CONSTANTS b1, b2, b3, p1, p2, n1, n2, h1, h2

VARIABLE part   \* the part that runs

\* The sessions and the nonce book share no state.  A behaviour of this
\* specification is one of the sessions or one of the book, with the other part
\* at rest.
InitParts == Init /\ InitBook /\ part \in {"sessions", "book"}

NextParts ==
  \/ part = "sessions" /\ Next /\ UNCHANGED <<varsBook, part>>
  \/ part = "book" /\ NextBook /\ UNCHANGED <<vars, part>>

SpecParts == InitParts /\ [][NextParts]_<<vars, varsBook, part>>

Symmetry ==
  Permutations(Tab) \cup Permutations(mpc_nodes) \cup
  Permutations(Nonce) \cup Permutations(Handler)
================================================================================
