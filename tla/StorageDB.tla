----------------------------- MODULE StorageDB ------------------------------
(***************************************************************************)
(* What the StorageDB trait promises of keys, counters and deadlines,      *)
(* whichever embedded backend is behind it: every call takes effect at     *)
(* once and whole; a read sees what was last written and not expired; and  *)
(* nothing disappears by itself unless a deadline once set for it is past. *)
(*                                                                         *)
(* The backends differ, so the promise leaves open: whether writing a      *)
(* batch, or setting a counter, drops a deadline; and how a counter that   *)
(* is not a number reads.                                                  *)
(***************************************************************************)
EXTENDS Integers

CONSTANTS Names, Stored, None, Clients

VARIABLES
    val,        \* what each key holds
    deadline,   \* when it expires
    due,        \* deadlines set for a name and not forgotten yet
    clock,
    reply       \* what a client's last call returned

vars == <<val, deadline, due, clock, reply>>

Init ==
    /\ val = [n \in Names |-> None]
    /\ deadline = [n \in Names |-> None]
    /\ due = {}
    /\ clock = 0
    /\ reply = [c \in Clients |-> <<"none">>]

-----------------------------------------------------------------------------
Visible(n) == IF deadline[n] # None /\ deadline[n] <= clock THEN None ELSE val[n]

Past(n) == \E d \in due : d[2] = n /\ d[1] <= clock

\* A write may answer its caller at once or later.
Answered(ok) ==
    reply' = reply \/ \E c \in Clients : reply' = [reply EXCEPT ![c] = ok]

\* Only the names in ns change, all at once.
Changes(ns) ==
    /\ \A n \in Names \ ns : val'[n] = val[n] /\ deadline'[n] = deadline[n]
    /\ due' \subseteq due
    /\ Answered(<<"ok">>)
    /\ clock' = clock

\* insert: the new value has no deadline
Put ==
    \E n \in Names :
        /\ val'[n] \in Stored /\ deadline'[n] = None
        /\ Changes({n})

\* remove and batch_remove
Erase ==
    \E ns \in SUBSET Names \ {{}} :
        /\ \A n \in ns : val'[n] = None /\ deadline'[n] = None
        /\ Changes(ns)

\* batch_insert
PutAll ==
    \E ns \in SUBSET Names :
        /\ \E n, m \in ns : n # m
        /\ \A n \in ns : val'[n] \in Stored /\ deadline'[n] \in {deadline[n], None}
        /\ Changes(ns)

CounterSet ==
    \E n \in Names :
        /\ val'[n] \in Stored \cap Int /\ deadline'[n] \in {deadline[n], None}
        /\ Changes({n})

\* counter_incr and counter_decr
Add ==
    \E n \in Names, by \in {-1, 1} :
        /\ val' = [val EXCEPT ![n] = (IF val[n] \in Int THEN val[n] ELSE 0) + by]
        /\ Answered(<<"ok">>)
        /\ UNCHANGED <<deadline, due, clock>>

\* expire_at and expire; a sweep may remove the key at the last moment
Arm ==
    \E n \in Names :
        /\ deadline'[n] # None
        /\ deadline' = [deadline EXCEPT ![n] = deadline'[n]]
        /\ due' \subseteq due \cup {<<deadline'[n], n>>}
        /\ \E b \in BOOLEAN : Answered(<<"is", b>>)
        /\ UNCHANGED <<val, clock>>

\* get, contains_key and counter_get
Read ==
    \E c \in Clients, n \in Names :
        /\ \/ reply' = [reply EXCEPT ![c] = <<"value", Visible(n)>>]
           \/ reply' = [reply EXCEPT ![c] = <<"is", Visible(n) # None>>]
           \/ /\ val[n] # None /\ val[n] \notin Int
              /\ reply'[c] \in {<<"value", 0>>, <<"error">>}
              /\ reply' = [reply EXCEPT ![c] = reply'[c]]
           \/ val[n] \in Int /\ reply' = [reply EXCEPT ![c] = <<"value", val[n]>>]
        /\ UNCHANGED <<val, deadline, due, clock>>

Ask ==
    /\ \E c \in Clients : reply' = [reply EXCEPT ![c] = <<"none">>]
    /\ UNCHANGED <<val, deadline, due, clock>>

\* A call returns that changed nothing now: it did before, or it is given up.
Return ==
    /\ \E c \in Clients : reply'[c] \in {<<"ok">>, <<"timeout">>, <<"rejected">>, <<"is", FALSE>>}
                          /\ reply' = [reply EXCEPT ![c] = reply'[c]]
    /\ due' \subseteq due
    /\ UNCHANGED <<val, deadline, clock>>

\* The cleanup: only names some deadline of which has passed lose anything.
Sweep ==
    /\ \A n \in Names :
          /\ val'[n] # val[n] => val'[n] = None /\ Past(n)
          /\ deadline'[n] # deadline[n] => deadline'[n] = None /\ Past(n)
    /\ due' \subseteq due
    /\ UNCHANGED <<clock, reply>>

Tick == clock' = clock + 1 /\ UNCHANGED <<val, deadline, due, reply>>

Next == Sweep \/ Ask \/ Tick \/ Return \/ Read \/ Put \/ Erase \/ PutAll \/ CounterSet \/ Add \/ Arm

Spec == Init /\ [][Next]_vars
=============================================================================
