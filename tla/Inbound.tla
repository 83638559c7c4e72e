------------------------------ MODULE Inbound -------------------------------
(***************************************************************************)
(* The inbound half of a session: the publishes of one client, and the set *)
(* of packet ids that the session remembers for them (InInflight).         *)
(*                                                                         *)
(* The run loop of the session handles one packet at a time.  A publish    *)
(* goes through the checks here, is then forwarded (module Publish), and   *)
(* is answered here.  The client is external: it has a window of exchanges *)
(* of its own, which may be larger than the session's, and resends what    *)
(* was not answered, at once when it speaks MQTT 3 and else after a        *)
(* reconnect.                                                              *)
(***************************************************************************)
EXTENDS Integers, Sequences, FiniteSets

CONSTANTS
    MaxInflight,  \* max_inflight of the listener
    Foci          \* what a behaviour may be about

ASSUME InboundAssumption ==
    /\ MaxInflight \in Nat
    /\ \A f \in Foci :
          /\ Len(f.pubs) \in Nat
          /\ \A m \in 1 .. Len(f.pubs) : f.pubs[m].qos \in 0 .. 2
          /\ DOMAIN f.pubs = 1 .. Len(f.pubs)
          /\ f.window \in Nat
          /\ f.v5 \in BOOLEAN

VARIABLES
    focus,        \* the publishes of this behaviour, what they meet, and bounds
    conn,         \* whether the connection is up
    conns,        \* connections so far
    toBroker,     \* packets on their way
    toClient,
    sent,         \* publishes the client has begun
    retries,
    exchange,     \* client: packet id -> publish, and whether PUBREC has come
    inInflight,   \* session: in_inflight
    handling,     \* session: the packet in hand
    taken,        \* publish -> how often this connection had it forwarded
    refused       \* a publish found the window full

inboundVars == <<conn, conns, toBroker, toClient, sent, retries, exchange, inInflight, handling, taken, refused>>

NoPacket == [t |-> "none"]
Attr(m) == focus.pubs[m]

InboundInit ==
    /\ conn = TRUE
    /\ conns = 1
    /\ toBroker = <<>>
    /\ toClient = <<>>
    /\ sent = 0
    /\ retries = 0
    /\ exchange = <<>>
    /\ inInflight = {}
    /\ handling = NoPacket
    /\ taken = [m \in DOMAIN focus.pubs |-> 0]
    /\ refused = FALSE

Pub(p, m) == [t |-> "publish", pid |-> p, m |-> m]
Rel(p) == [t |-> "pubrel", pid |-> p]

-----------------------------------------------------------------------------
(* The client.                                                             *)

ClientPublish ==
    /\ conn
    /\ sent < Len(focus.pubs)
    /\ sent' = sent + 1
    /\ \/ /\ Attr(sent').qos = 0
          /\ toBroker' = Append(toBroker, Pub(0, sent'))
          /\ UNCHANGED exchange
       \/ /\ Attr(sent').qos > 0
          /\ Cardinality(DOMAIN exchange) < focus.window
          /\ \E p \in (1 .. focus.window) \ DOMAIN exchange :
                /\ toBroker' = Append(toBroker, Pub(p, sent'))
                /\ exchange' = [x \in DOMAIN exchange \cup {p} |->
                                   IF x = p THEN [m |-> sent', rec |-> FALSE] ELSE exchange[x]]
    /\ UNCHANGED <<conn, conns, toClient, retries, inInflight, handling, taken, refused>>

ClientRetry ==
    /\ conn
    /\ ~focus.v5
    /\ retries < focus.retries
    /\ retries' = retries + 1
    /\ \E p \in DOMAIN exchange :
          toBroker' = Append(toBroker, IF exchange[p].rec THEN Rel(p) ELSE Pub(p, exchange[p].m))
    /\ UNCHANGED <<conn, conns, toClient, sent, exchange, inInflight, handling, taken, refused>>

Closed(p) == [x \in DOMAIN exchange \ {p} |-> exchange[x]]

\* PUBACK ends an exchange of QoS 1, PUBCOMP one of QoS 2 that was released, and
\* in MQTT 5 a PUBREC with an error ends one too.  Other answers are late copies.
Ends(a, e) ==
    \/ a.t = "puback" /\ Attr(e.m).qos = 1
    \/ a.t = "pubcomp" /\ e.rec
    \/ a.t = "pubrec" /\ Attr(e.m).qos = 2 /\ focus.v5 /\ ~a.ok

Releases(a, e) == a.t = "pubrec" /\ Attr(e.m).qos = 2 /\ (~focus.v5 \/ a.ok)

ClientReceive ==
    /\ conn
    /\ toClient # <<>>
    /\ LET a == Head(toClient)
       IN  \/ /\ a.pid \in DOMAIN exchange => ~Ends(a, exchange[a.pid]) /\ ~Releases(a, exchange[a.pid])
              /\ UNCHANGED <<exchange, toBroker>>
           \/ /\ a.pid \in DOMAIN exchange
              /\ Ends(a, exchange[a.pid])
              /\ exchange' = Closed(a.pid)
              /\ UNCHANGED toBroker
           \/ /\ a.pid \in DOMAIN exchange
              /\ Releases(a, exchange[a.pid])
              /\ exchange' = [exchange EXCEPT ![a.pid].rec = TRUE]
              /\ toBroker' = Append(toBroker, Rel(a.pid))
    /\ toClient' = Tail(toClient)
    /\ UNCHANGED <<conn, conns, sent, retries, inInflight, handling, taken, refused>>

-----------------------------------------------------------------------------
(* InInflight.                                                             *)

WindowFull == Cardinality(inInflight) >= MaxInflight
Ack(t, p, ok) == [t |-> t, pid |-> p, ok |-> ok]

\* The session ends; what it had received goes with it.
Disconnect ==
    /\ conn' = FALSE
    /\ toBroker' = <<>>
    /\ toClient' = <<>>
    /\ inInflight' = {}
    /\ handling' = NoPacket

-----------------------------------------------------------------------------
(* The session takes up a packet.  How the access rules answer is open.    *)

Ready == conn /\ handling = NoPacket /\ toBroker # <<>>

Release ==
    /\ Ready
    /\ Head(toBroker).t = "pubrel"
    /\ inInflight' = inInflight \ {Head(toBroker).pid}
    /\ toClient' = Append(toClient, Ack("pubcomp", Head(toBroker).pid, TRUE))
    /\ toBroker' = Tail(toBroker)
    /\ UNCHANGED <<conn, conns, sent, retries, exchange, handling, taken, refused>>

Duplicate(p) == Attr(p.m).qos = 2 /\ p.pid \in inInflight

DuplicateReceived ==
    /\ Ready
    /\ Head(toBroker).t = "publish"
    /\ Duplicate(Head(toBroker))
    /\ toClient' = Append(toClient, Ack("pubrec", Head(toBroker).pid, FALSE))
    /\ toBroker' = Tail(toBroker)
    /\ UNCHANGED <<conn, conns, sent, retries, exchange, inInflight, handling, taken, refused>>

\* QoS 1 asks for room before it forwards, QoS 2 after.
RefusedAtOnce ==
    /\ Ready
    /\ Head(toBroker).t = "publish"
    /\ Attr(Head(toBroker).m).qos = 1
    /\ WindowFull
    /\ refused' = TRUE
    /\ Disconnect
    /\ UNCHANGED <<conns, sent, retries, exchange, taken>>

Accepted_any(verdict) ==
    /\ Ready
    /\ LET p == Head(toBroker)
       IN  /\ p.t = "publish"
           /\ Attr(p.m).qos = 1 => ~WindowFull
           /\ verdict = "allow" \/ focus.acl
           /\ handling' = [t |-> "publish", pid |-> p.pid, m |-> p.m, ok |-> verdict = "allow",
                           added |-> Attr(p.m).qos = 1 /\ p.pid \notin inInflight]
           /\ inInflight' = IF Attr(p.m).qos = 1 THEN inInflight \cup {p.pid} ELSE inInflight
           /\ taken' = [taken EXCEPT ![p.m] = IF verdict = "allow" THEN @ + 1 ELSE @]
    /\ toBroker' = Tail(toBroker)
    /\ UNCHANGED <<conn, conns, toClient, sent, retries, exchange, refused>>

Accepted(verdict) ==
    /\ Ready
    /\ LET p == Head(toBroker)
       IN  /\ p.t = "publish"
           /\ ~Duplicate(p)
           /\ Attr(p.m).qos = 1 => ~WindowFull
           /\ verdict = "allow" \/ focus.acl
           /\ handling' = [t |-> "publish", pid |-> p.pid, m |-> p.m, ok |-> verdict = "allow",
                           added |-> Attr(p.m).qos = 1 /\ p.pid \notin inInflight]
           /\ inInflight' = IF Attr(p.m).qos = 1 THEN inInflight \cup {p.pid} ELSE inInflight
           /\ taken' = [taken EXCEPT ![p.m] = IF verdict = "allow" THEN @ + 1 ELSE @]
    /\ toBroker' = Tail(toBroker)
    /\ UNCHANGED <<conn, conns, toClient, sent, retries, exchange, refused>>

\* An access rule that denies may also say to disconnect.
DeniedDisconnect ==
    /\ Ready
    /\ focus.acl
    /\ Head(toBroker).t = "publish"
    /\ ~Duplicate(Head(toBroker))
    /\ Disconnect
    /\ UNCHANGED <<conns, sent, retries, exchange, taken, refused>>

-----------------------------------------------------------------------------
(* The session answers.                                                    *)

ReplyAck ==
    /\ Attr(handling.m).qos < 2
    /\ toClient' = IF conn /\ Attr(handling.m).qos = 1
                   THEN Append(toClient, Ack("puback", handling.pid, handling.ok)) ELSE toClient
    /\ inInflight' = IF handling.added THEN inInflight \ {handling.pid} ELSE inInflight
    /\ handling' = NoPacket
    /\ UNCHANGED <<conn, conns, toBroker, sent, retries, exchange, taken, refused>>

ReplyRec ==
    /\ Attr(handling.m).qos = 2
    /\ IF handling.ok /\ WindowFull
       THEN /\ refused' = TRUE
            /\ Disconnect
       ELSE /\ inInflight' = IF handling.ok THEN inInflight \cup {handling.pid} ELSE inInflight
            /\ toClient' = Append(toClient, Ack("pubrec", handling.pid, handling.ok))
            /\ handling' = NoPacket
            /\ UNCHANGED <<conn, toBroker, refused>>
    /\ UNCHANGED <<conns, sent, retries, exchange, taken>>

\* The connection is gone: sending the answer fails.
ReplyFails ==
    /\ ~conn
    /\ inInflight' = {}
    /\ handling' = NoPacket
    /\ UNCHANGED <<conn, conns, toBroker, toClient, sent, retries, exchange, taken, refused>>

Reply == handling # NoPacket /\ IF conn THEN ReplyAck \/ ReplyRec ELSE ReplyFails

ConnectionLost ==
    /\ conn
    /\ conns < focus.conns
    /\ conn' = FALSE
    /\ toBroker' = <<>>
    /\ toClient' = <<>>
    /\ inInflight' = IF handling = NoPacket THEN {} ELSE inInflight
    /\ UNCHANGED <<conns, sent, retries, exchange, handling, taken, refused>>

\* The handshake waits for the session before it.  The new session remembers
\* nothing, and the client sends its open exchanges again.
Reconnect ==
    /\ ~conn
    /\ conns < focus.conns
    /\ handling = NoPacket
    /\ conn' = TRUE
    /\ conns' = conns + 1
    /\ \E s \in {q \in [1 .. Cardinality(DOMAIN exchange) -> DOMAIN exchange] :
                    \A i, j \in DOMAIN q : q[i] = q[j] => i = j} :
          toBroker' = [i \in DOMAIN s |-> IF exchange[s[i]].rec THEN Rel(s[i]) ELSE Pub(s[i], exchange[s[i]].m)]
    /\ taken' = [m \in DOMAIN taken |-> 0]
    /\ UNCHANGED <<toClient, sent, retries, exchange, inInflight, handling, refused>>

InboundStep ==
    \/ ClientPublish \/ ClientRetry \/ ClientReceive
    \/ Release \/ DuplicateReceived \/ RefusedAtOnce \/ DeniedDisconnect
    \/ ConnectionLost \/ Reconnect

=============================================================================
