------------------------------ MODULE MCPublish -----------------------------
(***************************************************************************)
(* Publish for TLC.  A behaviour is about one focus: a few publishes and   *)
(* the parts of the broker they meet.                                      *)
(***************************************************************************)
EXTENDS Publish

CONSTANTS c1, c2, ta, tb

P(qos, retain, clear, delay, t) ==
    [qos |-> qos, retain |-> retain, clear |-> clear, delay |-> delay, topic |-> t, target |-> None]

Plain == P(0, FALSE, FALSE, None, ta)

\* Bounds: connections, repeated sends, subscribe calls, ticks and restarts.
Quiet == [pubs |-> <<>>, window |-> MaxInflight, v5 |-> FALSE, acl |-> FALSE, backend |-> "none", retainer |-> "none", wild |-> FALSE,
          subscribed |-> {}, how |-> "plain", retains |-> {"never"}, leave |-> FALSE, fails |-> FALSE,
          conns |-> 1, retries |-> 0, subscribes |-> 0, ticks |-> 0, restarts |-> 0]

\* QoS 1 and 2 exchanges at the limit of the window.
Window == {[Quiet EXCEPT !.pubs = <<P(2, FALSE, FALSE, None, ta), P(q, FALSE, FALSE, None, ta), P(2, FALSE, FALSE, None, ta)>>,
                         !.v5 = v, !.acl = a, !.conns = 2, !.retries = 1] :
              q \in {1, 2}, v \in BOOLEAN, a \in BOOLEAN}

\* A client that opens more exchanges than the session allows.
Greedy == {[Quiet EXCEPT !.pubs = <<P(2, FALSE, FALSE, None, ta), P(2, FALSE, FALSE, None, ta), P(q, FALSE, FALSE, None, ta)>>,
                         !.window = 3, !.v5 = TRUE, !.conns = 2] : q \in {1, 2}}

\* Delayed publishes, one more than the queue holds.
Delays == {[Quiet EXCEPT !.pubs = <<P(1, FALSE, FALSE, d, ta), P(0, FALSE, FALSE, e, ta), P(0, FALSE, FALSE, 1, ta)>>,
                         !.subscribed = {c1}, !.leave = (d = e), !.ticks = 3] : d, e \in {0, 2}}

\* Retained messages set, replaced and cleared.
Retains == {[Quiet EXCEPT !.pubs = <<P(0, TRUE, x, None, ta), P(0, TRUE, ~x, None, u), P(0, TRUE, FALSE, None, tb)>>,
                          !.retainer = r, !.wild = (u = ta), !.retains = {IF x THEN "atSubscribe" ELSE "new"},
                          !.subscribes = 1, !.fails = x, !.ticks = 2, !.restarts = 1] :
               x \in BOOLEAN, u \in {ta, tb}, r \in {"ram", "db"}}

\* Stored messages: a client that subscribes while one is stored, the limit of
\* the cache, a copy that is retained, and restarts.
Stored(b, pubs) == [Quiet EXCEPT !.backend = b, !.pubs = pubs, !.subscribed = {c1}]
Late(b) == {[Stored(b, <<Plain>>) EXCEPT !.how = IF b = "ram" THEN "plain" ELSE "shared",
                                         !.leave = (b = "ram"), !.subscribes = 1, !.ticks = 2, !.restarts = IF b = "ram" THEN 1 ELSE 0]}
Many(b) == {[Stored(b, <<Plain, [Plain EXCEPT !.target = c2]>>) EXCEPT !.ticks = 2]}
Copies == {[Stored("ram", <<P(0, TRUE, FALSE, None, ta), Plain>>) EXCEPT
               !.retainer = "ram", !.subscribed = {}, !.subscribes = 1, !.retains = {"atSubscribe"}]}
Restarts == {[Stored("db", <<Plain, Plain>>) EXCEPT !.how = "shared", !.restarts = 1, !.conns = 2, !.fails = TRUE]}

Stores == Late("ram") \cup Late("db") \cup Many("ram") \cup Many("db") \cup Copies \cup Restarts

MCFoci == Window \cup Greedy \cup Delays \cup Retains \cup Stores

=============================================================================
