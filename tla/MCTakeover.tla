----------------------------- MODULE MCTakeover -----------------------------
EXTENDS Takeover, TLC

CONSTANTS a, b, c

Profile3(x) == [v5 |-> FALSE, start |-> x, clean |-> x, delay |-> FALSE]

\* Clients of MQTT v3: a clean session is both a clean start and a session that
\* ends with its connection; a will has no delay.
V3 == {Profile3(TRUE), Profile3(FALSE)}

\* Clients of MQTT v5 have in addition a lasting session that begins with a clean start, a
\* resumed one that ends with its connection, and delayed wills.
V5 == {[v5 |-> TRUE, start |-> s, clean |-> e, delay |-> d] : s, e, d \in BOOLEAN}

Symmetric == Permutations({a, b, c})
=============================================================================
