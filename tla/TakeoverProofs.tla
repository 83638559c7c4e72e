--------------------------- MODULE TakeoverProofs ---------------------------
(***************************************************************************)
(* Proofs about Takeover for any number of connection attempts.             *)
(***************************************************************************)
EXTENDS Takeover, TLAPS, SequenceTheorems

-----------------------------------------------------------------------------
(* Types *)

\* The two messages that matter here are of the mailbox's type.
LEMMA MessageType ==
  /\ SessionStateTransfer \in Messages
  /\ \A k \in Kickers : Kick(k) \in Messages
  /\ \A x \in Messages : x.type = "Kick" => x.by \in Kickers
BY DEF Messages, SessionStateTransfer, Kick

\* A task that ends drops the answers it owes; they stay answers.
LEMMA DroppedType ==
  ASSUME NEW i, NEW r \in [Kickers -> {"none", "pending", "sent", "dropped", "closed"}]
  PROVE  Dropped(i, r) \in [Kickers -> {"none", "pending", "sent", "dropped", "closed"}]
BY DEF Dropped

\* A function updated at one point with a value of its range keeps its type.
LEMMA Update ==
  ASSUME NEW S, NEW T, NEW f \in [S -> T], NEW x, NEW v \in T
  PROVE  [f EXCEPT ![x] = v] \in [S -> T]
BY Zenon

\* An actor that moves, moves to a place.
LEMMA PcType ==
  ASSUME TypeOK, NEW k, \E v \in Places : pc' = [pc EXCEPT ![k] = v]
  PROVE  pc' \in [Kickers -> Places]
BY Update, Zenon DEF TypeOK

\* A will that is published, or not, is counted.
LEMMA WillsType ==
  ASSUME TypeOK, NEW i \in Attempts, PublishWill(i) \/ UNCHANGED wills
  PROVE  wills' \in [Attempts -> Nat]
<1>1. wills \in [Attempts -> Nat] /\ wills[i] + 1 \in Nat
  BY SMTT(30), Z3T(30) DEF TypeOK
<1> QED  BY <1>1, Update DEF PublishWill

\* Sending appends a message to one mailbox.
LEMMA MboxAppend ==
  ASSUME mbox \in [Attempts -> Seq(Messages)], NEW i \in Attempts, NEW x \in Messages
  PROVE  [mbox EXCEPT ![i] = Append(@, x)] \in [Attempts -> Seq(Messages)]
<1>1. Append(mbox[i], x) \in Seq(Messages)
  BY AppendProperties
<1> QED  BY <1>1

\* Receiving takes the first message of one mailbox.
LEMMA MboxTail ==
  ASSUME mbox \in [Attempts -> Seq(Messages)], NEW i \in Attempts, mbox[i] # <<>>
  PROVE  /\ [mbox EXCEPT ![i] = Tail(@)] \in [Attempts -> Seq(Messages)]
         /\ Head(mbox[i]) \in Messages
<1>1. mbox[i] \in Seq(Messages)
  OBVIOUS
<1>2. Tail(mbox[i]) \in Seq(Messages) /\ Head(mbox[i]) \in Messages
  BY <1>1, HeadTailProperties, Zenon
<1> QED  BY <1>2

\* Before the first connection everything has its type.
LEMMA InitType == Init => TypeOK
<1>1. <<>> \in Seq(Messages)
  OBVIOUS
<1> QED
  BY <1>1, TakeoverAssumption
  DEF Init, TypeOK, Kickers, Profile, Places, Locked, Tasks, OfflineInfo, Mutexes

\* Answering a Kick keeps the types of what it changes.
LEMMA AnswerType ==
  ASSUME TypeOK, NEW i \in Attempts, HeadIs(i, "Kick"), NEW t \in Tasks, Answer(i, t)
  PROVE  /\ kicked' \in [Attempts -> Kickers \cup {None}]
         /\ task' \in [Attempts -> Tasks]
         /\ reply' \in [Kickers -> {"none", "pending", "sent", "dropped", "closed"}]
<1> DEFINE k == Head(mbox[i]).by
<1>1. k \in Kickers
  BY MboxTail, MessageType, Zenon DEF HeadIs, TypeOK
<1>2. [reply EXCEPT ![k] = "sent"] \in [Kickers -> {"none", "pending", "sent", "dropped", "closed"}]
  BY <1>1 DEF TypeOK
<1> HIDE DEF k
<1>3. Dropped(i, [reply EXCEPT ![k] = "sent"]) \in
        [Kickers -> {"none", "pending", "sent", "dropped", "closed"}]
  BY <1>2, DroppedType, Zenon
<1>4. CASE reply[k] # "pending"
  BY <1>4, SMTT(30) DEF Answer, TypeOK, k
<1>5. CASE reply[k] = "pending"
  <2>1. kicked' = [kicked EXCEPT ![i] = k] /\ task' = [task EXCEPT ![i] = t]
    BY <1>5, Zenon DEF Answer, MoveTo, k
  <2>2. \/ reply' = [reply EXCEPT ![k] = "sent"]
        \/ reply' = Dropped(i, [reply EXCEPT ![k] = "sent"])
    BY <1>5 DEF Answer, MoveTo, k
  <2> QED  BY <1>1, <1>2, <1>3, <2>1, <2>2, Zenon DEF TypeOK
<1> QED  BY <1>4, <1>5, Zenon

\* One step per action; the administrator takes the steps of kick.
LEMMA NextType == TypeOK /\ [Next]_vars => TypeOK'
<1> SUFFICES ASSUME TypeOK, [Next]_vars PROVE TypeOK'
  OBVIOUS
<1> USE TakeoverAssumption DEF TypeOK, Kickers, Mutexes
<1>1. CASE UNCHANGED vars
  BY <1>1, Zenon DEF vars
<1>2. CASE admin_kick
  BY <1>2, Zenon DEF admin_kick, Places, Locked, sessionVars
<1>3. ASSUME NEW k \in Kickers, KickStep(k) PROVE TypeOK'
  <2>1. CASE send_kick(k)
    <3> HIDE DEF TypeOK, Kickers
    <3>0. /\ "waiting" \in Places /\ "collect" \in Places
          /\ mbox \in [Attempts -> Seq(Messages)] /\ Kick(k) \in Messages
          /\ peers # None => peers \in Attempts
      BY MessageType DEF Places, Locked, TypeOK
    <3>1. pc' \in [Kickers -> Places]
      BY <2>1, <3>0, PcType DEF send_kick
    <3>2. mbox' \in [Attempts -> Seq(Messages)]
      <4>1. CASE peers # None /\ Open(peers)
        <5>1. mbox' = [mbox EXCEPT ![peers] = Append(@, Kick(k))]
          BY <2>1, <4>1, Zenon DEF send_kick
        <5>2. peers \in Attempts
          BY <3>0, <4>1
        <5>3. [mbox EXCEPT ![peers] = Append(@, Kick(k))] \in [Attempts -> Seq(Messages)]
          BY <3>0, <5>2, MboxAppend, Zenon
        <5> QED  BY <5>1, <5>3
      <4>2. CASE ~(peers # None /\ Open(peers))
        BY <2>1, <3>0, <4>2, Zenon DEF send_kick
      <4> QED  BY <4>1, <4>2
    <3> USE DEF TypeOK, Kickers
    <3>3. reply' \in [Kickers -> {"none", "pending", "sent", "dropped", "closed"}]
      BY <2>1, ZenonT(60) DEF send_kick
    <3> QED  BY <2>1, <3>1, <3>2, <3>3, Zenon DEF send_kick
  <2>2. CASE kick_result(k)
    <3>0. \E v \in {"collect", "refused", "abort"} : pc' = [pc EXCEPT ![k] = v]
      BY <2>2 DEF kick_result
    <3>1. pc' \in [Kickers -> Places]
      <4> HIDE DEF TypeOK, Kickers
      <4>1. {"collect", "refused", "abort"} \subseteq Places
        BY Zenon DEF Places, Locked
      <4> QED  BY <3>0, <4>1, PcType, Zenon
    <3>2. reply' \in [Kickers -> {"none", "pending", "sent", "dropped", "closed"}]
      BY <2>2, SMTT(30), Z3T(30) DEF kick_result
    <3> QED  BY <2>2, <3>1, <3>2, Zenon DEF kick_result, sessionVars
  <2>3. CASE collect(k)
    <3>0. \E v \in {"done", "build", "unroute"} : pc' = [pc EXCEPT ![k] = v]
      BY <2>3 DEF collect, Collected
    <3>1. pc' \in [Kickers -> Places]
      <4> HIDE DEF TypeOK, Kickers
      <4>1. {"done", "build", "unroute"} \subseteq Places
        BY DEF Places, Locked
      <4> QED  BY <3>0, <4>1, PcType, Zenon
    <3>2. info' \in [Kickers -> OfflineInfo]
      BY <2>3, ZenonT(60) DEF collect, OfflineInfo
    <3>3. todo' = todo \/ todo' = [todo EXCEPT ![k] = peers]
      BY <2>3 DEF collect
    <3>6. todo' \in [Kickers -> Attempts \cup {None}]
      BY <3>3, Update, SMTT(30), Z3T(30)
    <3>7. peers' \in Attempts \cup {None}
      BY <2>3, Zenon DEF collect
    <3>4. subs' = subs \/ subs' = [subs EXCEPT ![peers] = FALSE]
      BY <2>3, Zenon DEF collect
    <3>5. subs' \in [Attempts -> BOOLEAN]
      BY <3>4, Update, SMTT(30), Z3T(30)
    <3> QED  BY <2>3, <3>1, <3>2, <3>5, <3>6, <3>7, Zenon DEF collect, sessionVars
  <2>4. CASE kick_unroute(k)
    BY <2>4, Zenon DEF kick_unroute, Places, Locked, RouterRemove, handshakeVars, sessionVars
  <2>5. CASE kick_unsub(k)
    BY <2>5, Zenon DEF kick_unsub, Places, Locked, Collected, SubscriptionsRemove, handshakeVars, sessionVars
  <2> QED  BY <1>3, <2>1, <2>2, <2>3, <2>4, <2>5, Zenon DEF KickStep
<1>4. ASSUME NEW i \in Attempts, NEW p \in Profiles, connect(i, p) PROVE TypeOK'
  <2> DEFINE mutex == IF lockers = None THEN i ELSE lockers
  <2>0. /\ mutex \in Attempts
        /\ \E v \in {"kick", "refused"} : pc' = [pc EXCEPT ![i] = v]
        /\ lockers' \in {lockers, mutex}
        /\ held' \in {held, [held EXCEPT ![i] = mutex]}
    BY <1>4 DEF connect, try_lock
  <2> HIDE DEF mutex, TypeOK, Kickers
  <2>1. pc' \in [Kickers -> Places]
    <3>1. {"kick", "refused"} \subseteq Places
      BY DEF Places, Locked
    <3> QED  BY <2>0, <3>1, PcType, Zenon
  <2> USE DEF TypeOK, Kickers
  <2>2. lockers' \in Attempts \cup {None} /\ held' \in [Attempts -> Attempts \cup {None}]
    BY <2>0, Update, SMTT(30), Z3T(30)
  <2>3. prof' \in [Attempts -> Profile]
    BY <1>4 DEF connect
  <2> QED  BY <1>4, <2>1, <2>2, <2>3, Zenon DEF connect, sessionVars
<1>5. ASSUME NEW i \in Attempts, HandshakeStep(i) \/ SessionStep(i) \/ ClientStep(i) PROVE TypeOK'
  <2>1. CASE entry_set(i)
    <3>0. \E v \in {"set", "abort"} : pc' = [pc EXCEPT ![i] = v]
      BY <2>1, Zenon DEF entry_set
    <3>1. pc' \in [Kickers -> Places]
      <4> HIDE DEF TypeOK, Kickers
      <4>1. {"set", "abort"} \subseteq Places
        BY DEF Places, Locked
      <4> QED  BY <3>0, <4>1, PcType, Zenon
    <3>2. peers' \in Attempts \cup {None}
      BY <2>1, Zenon DEF entry_set
    <3>3. task' = task \/ task' = [task EXCEPT ![i] = "created"]
      BY <2>1, Zenon DEF entry_set
    <3>4. task' \in [Attempts -> Tasks]
      BY <3>3, Update, SMTT(30), Z3T(30) DEF Tasks
    <3> QED  BY <2>1, <3>1, <3>2, <3>4, Zenon DEF entry_set
  <2>2. CASE transfer(i)
    BY <2>2, MboxAppend, MessageType, Zenon DEF transfer, Places, Locked, handshakeVars, sessionVars
  <2>3. CASE drop_entry(i)
    BY <2>3, Zenon DEF drop_entry, Places, Locked, handshakeVars, sessionVars
  <2>4. CASE drop_guard(i)
    BY <2>4, Zenon DEF drop_guard, Places, Locked, handshakeVars, sessionVars
  <2>5. CASE connack(i)
    <3>0. \E v \in {"done", "refused"} : pc' = [pc EXCEPT ![i] = v]
      BY <2>5 DEF connack
    <3>1. pc' \in [Kickers -> Places]
      <4> HIDE DEF TypeOK, Kickers
      <4>1. {"done", "refused"} \subseteq Places
        BY DEF Places
      <4> QED  BY <3>0, <4>1, PcType, Zenon
    <3>2. task' \in [Attempts -> Tasks]
      BY <2>5, ZenonT(60) DEF connack, MoveTo, Tasks
    <3>3. reply' \in [Kickers -> {"none", "pending", "sent", "dropped", "closed"}]
      <4>1. reply' \in {reply, Dropped(i, reply)}
        BY <2>5 DEF connack, MoveTo
      <4>2. Dropped(i, reply) \in [Kickers -> {"none", "pending", "sent", "dropped", "closed"}]
        BY DroppedType, Zenon
      <4> QED  BY <4>1, <4>2
    <3> QED  BY <2>5, <3>1, <3>2, <3>3, Zenon DEF connack
  <2>6. CASE process_kick(i)
    <3>1. "leaving" \in Tasks
      BY DEF Tasks
    <3> QED  BY <2>6, <3>1, AnswerType, MboxTail, Zenon DEF process_kick, HeadIs
  <2>7. CASE transfer_session_state(i)
    BY <2>7, MboxTail, ZenonT(60) DEF transfer_session_state, Tasks, HeadIs, handshakeVars, sessionVars
  <2>8. CASE subscriptions_extend(i)
    BY <2>8, Zenon DEF subscriptions_extend, Tasks, handshakeVars, sessionVars
  <2>9. CASE subscriptions_add(i)
    BY <2>9, Zenon DEF subscriptions_add, Tasks, handshakeVars, sessionVars
  <2>10. CASE subscriptions_remove(i)
    BY <2>10, Zenon DEF subscriptions_remove, Tasks, handshakeVars, sessionVars
  <2>11. CASE leave(i)
    <3>1. task' \in [Attempts -> Tasks]
      BY <2>11 DEF leave, MoveTo, Tasks
    <3>2. reply' \in [Kickers -> {"none", "pending", "sent", "dropped", "closed"}]
      BY <2>11, DroppedType, ZenonT(60) DEF leave, MoveTo
    <3>3. wills' \in [Attempts -> Nat]
      <4> HIDE DEF TypeOK, Kickers
      <4> QED  BY <2>11, WillsType, Zenon DEF leave
    <3>4. prof[i] \in Profile /\ disc[i] \in BOOLEAN
      BY Zenon
    <3>5. last_will_enable(i) \in BOOLEAN /\ prof[i].clean \in BOOLEAN /\ prof[i].delay \in BOOLEAN
      BY <3>4, Zenon DEF last_will_enable, Profile
    <3>6. (last_will_enable(i) /\ ~prof[i].clean /\ prof[i].delay) \in BOOLEAN
      BY <3>5, Zenon
    <3>7. pending' \in [Attempts -> BOOLEAN]
      BY <2>11, <3>6, Zenon DEF leave
    <3> QED  BY <2>11, <3>1, <3>2, <3>3, <3>7, ZenonT(60) DEF leave
  <2>12. CASE offline_kick(i)
    <3>1. "ended" \in Tasks
      BY Zenon DEF Tasks
    <3> QED  BY <2>12, <3>1, AnswerType, MboxTail, Zenon DEF offline_kick, HeadIs
  <2>13. CASE offline_ignored(i)
    BY <2>13, MboxTail, Zenon DEF offline_ignored, HeadIs, handshakeVars, sessionVars
  <2>14. CASE clean(i)
    BY <2>14, DroppedType, Zenon DEF clean, Tasks, MoveTo, handshakeVars, sessionVars
  <2>15. CASE clean_unroute(i)
    BY <2>15, Zenon DEF clean_unroute, Tasks, RouterRemove, handshakeVars, sessionVars
  <2>16. CASE clean_unsub(i)
    BY <2>16, DroppedType, ZenonT(60) DEF clean_unsub, Tasks, MoveTo, SubscriptionsRemove, handshakeVars, sessionVars
  <2>17. CASE subscribe(i)
    BY <2>17, Zenon DEF subscribe, Tasks, handshakeVars, sessionVars
  <2>18. CASE unsubscribe(i)
    BY <2>18, Zenon DEF unsubscribe, Tasks, RouterRemove, handshakeVars, sessionVars
  <2>19. CASE disconnect(i)
    <3>1. PICK zero \in BOOLEAN : prof' = [prof EXCEPT ![i].clean = zero]
      <4>1. prof[i].clean \in BOOLEAN
        BY DEF Profile
      <4> QED  BY <2>19, <4>1, Zenon DEF disconnect
    <3>2. [prof[i] EXCEPT !.clean = zero] \in Profile
      <4>1. prof[i] \in Profile
        BY Zenon
      <4> HIDE DEF TypeOK, Kickers
      <4> QED  BY <4>1, Zenon DEF Profile
    <3>3. prof' \in [Attempts -> Profile]
      BY <3>1, <3>2, Zenon
    <3> QED  BY <2>19, <3>3, Zenon DEF disconnect
  <2>20. CASE connection_lost(i)
    BY <2>20, Zenon DEF connection_lost, Tasks, handshakeVars, sessionVars
  <2>21. CASE will_delay_elapsed(i)
    BY <2>21, SMTT(30), Z3T(30) DEF will_delay_elapsed, PublishWill, handshakeVars, sessionVars
  <2>22. CASE session_expired(i)
    <3>1. task' \in [Attempts -> Tasks]
      BY <2>22, Zenon DEF session_expired, Tasks
    <3>2. wills' \in [Attempts -> Nat]
      <4> HIDE DEF TypeOK, Kickers
      <4> QED  BY <2>22, WillsType DEF session_expired
    <3> QED  BY <2>22, <3>1, <3>2, Zenon DEF session_expired, handshakeVars
  <2> QED
    BY <1>3, <1>4, <1>5, <2>1, <2>2, <2>3, <2>4, <2>5, <2>6, <2>7, <2>8, <2>9, <2>10, <2>11, <2>12, <2>13, <2>14, <2>15, <2>16, <2>17, <2>18, <2>19, <2>20, <2>21, <2>22, ZenonT(60)
    DEF HandshakeStep, SessionStep, ClientStep
<1> QED  BY <1>1, <1>2, <1>3, <1>5, Zenon DEF Next

\* Every variable of the handshakes, the sessions and the registry keeps its
\* type, whatever goes wrong.
THEOREM TypeCorrect == Spec => []TypeOK
BY InitType, NextType, PTL DEF Spec

-----------------------------------------------------------------------------
(* What a session may do to the rest *)

\* The steps of the session of attempt i, from CONNACK to its end.
Lives(i) ==
  SessionStep(i) \/ subscribe(i) \/ unsubscribe(i) \/ disconnect(i) \/ connection_lost(i)
  \/ will_delay_elapsed(i) \/ session_expired(i)

\* Session i serves its client or, its connection gone, is about to go offline.
InService(i) == task[i] \in Serving \/ (task[i] = "leaving" /\ kicked[i] = None)

\* The will of session i is still to be decided.
WillOpen(i) ==
  \/ task[i] \in {"none", "created", "online", "extending", "subscribing", "unsubscribing", "leaving"}
  \/ task[i] = "offline" /\ pending[i]

\* What every step of a session leaves alone.
Frame(i) ==
  /\ UNCHANGED <<pc, lockers, held>>
  /\ task[i] \notin {"none", "created"} /\ task'[i] \notin {"none", "created"}
  /\ InService(i)' => InService(i)
  /\ \A j \in Attempts \ {i} :
       /\ task'[j] = task[j] /\ kicked'[j] = kicked[j]
       /\ wills'[j] = wills[j] /\ pending'[j] = pending[j]
  /\ peers' = peers \/ (peers' = None /\ peers = i /\ ~InService(i))
  /\ \A k \in Kickers :
       reply'[k] = "sent" =>
         reply[k] = "sent" \/ (InService(i) /\ ~InService(i)')
  /\ \/ wills'[i] = wills[i] /\ (WillOpen(i)' => WillOpen(i))
     \/ wills'[i] = wills[i] + 1 /\ WillOpen(i) /\ ~WillOpen(i)'

\* A dropped answer is not a sent one.
LEMMA DroppedNotSent ==
  ASSUME NEW i, NEW r, NEW k \in Kickers, Dropped(i, r)[k] = "sent"
  PROVE  r[k] = "sent"
BY DEF Dropped

\* Moving answers nobody.
LEMMA MoveToFrame ==
  ASSUME TypeOK, NEW i \in Attempts, NEW t, NEW r, MoveTo(i, t, r)
  PROVE  /\ task' = [task EXCEPT ![i] = t]
         /\ \A k \in Kickers : reply'[k] = "sent" => r[k] = "sent"
BY DroppedNotSent, Zenon DEF MoveTo

\* A session that is asked to go answers and goes, or does nothing.
LEMMA AnswerFrame ==
  ASSUME TypeOK, NEW i \in Attempts, NEW t, HeadIs(i, "Kick"), Answer(i, t)
  PROVE  \/ /\ task' = [task EXCEPT ![i] = t]
            /\ \E k \in Kickers : kicked' = [kicked EXCEPT ![i] = k]
         \/ UNCHANGED <<task, reply, kicked>>
<1>1. Head(mbox[i]).by \in Kickers
  BY MboxTail, MessageType, Zenon DEF HeadIs, TypeOK
<1> QED  BY <1>1, MoveToFrame, Zenon DEF Answer

\* No step of a session goes beyond what Frame allows it.
LEMMA SessionFrame ==
  ASSUME TypeOK, NEW i \in Attempts, Lives(i)
  PROVE  Frame(i)
<1>0. /\ task \in [Attempts -> Tasks] /\ wills \in [Attempts -> Nat]
      /\ pending \in [Attempts -> BOOLEAN] /\ kicked \in [Attempts -> Kickers \cup {None}]
      /\ None \notin Kickers
  BY TakeoverAssumption, Zenon DEF TypeOK, Kickers
<1>1. CASE process_kick(i)
  <2>1. \/ /\ task' = [task EXCEPT ![i] = "leaving"]
           /\ \E k \in Kickers : kicked' = [kicked EXCEPT ![i] = k]
        \/ UNCHANGED <<task, reply, kicked>>
    BY <1>1, AnswerFrame, Zenon DEF process_kick
  <2> QED  BY <1>0, <1>1, <2>1, Zenon DEF process_kick, Frame, WillOpen, InService, Serving
<1>2. CASE transfer_session_state(i)
  BY <1>0, <1>2, Zenon DEF transfer_session_state, Frame, WillOpen, InService, Serving, handshakeVars, sessionVars
<1>3. CASE subscriptions_extend(i)
  BY <1>0, <1>3, Zenon DEF subscriptions_extend, Frame, WillOpen, InService, Serving, handshakeVars, sessionVars
<1>4. CASE subscriptions_add(i)
  BY <1>0, <1>4, Zenon DEF subscriptions_add, Frame, WillOpen, InService, Serving, handshakeVars, sessionVars
<1>5. CASE subscriptions_remove(i)
  BY <1>0, <1>5, Zenon DEF subscriptions_remove, Frame, WillOpen, InService, Serving, handshakeVars, sessionVars
<1>6. CASE leave(i)
  <2> DEFINE t == IF kicked[i] = Admin THEN "cleaning"
                  ELSE IF kicked[i] # None THEN "ended"
                  ELSE IF prof[i].clean THEN "cleaning" ELSE "offline"
             out == last_will_enable(i) /\ (prof[i].clean \/ ~prof[i].delay)
             late == last_will_enable(i) /\ ~prof[i].clean /\ prof[i].delay
  <2>1. MoveTo(i, t, reply)
    BY <1>6, Zenon DEF leave
  <2>2. pending' = [pending EXCEPT ![i] = late] /\ ~(out /\ late)
    BY <1>6, Zenon DEF leave
  <2>3. IF out THEN PublishWill(i) ELSE UNCHANGED wills
    BY <1>6, Zenon DEF leave
  <2> HIDE DEF out, late
  <2>4. /\ task' = [task EXCEPT ![i] = t]
        /\ \A k \in Kickers : reply'[k] = "sent" => reply[k] = "sent"
    BY <2>1, MoveToFrame, SMTT(30), Z3T(30)
  <2>5. t \in {"cleaning", "ended", "offline"}
    BY Zenon
  <2> HIDE DEF t
  <2>6. task[i] = "leaving" /\ task'[i] = t /\ pending'[i] = late
    BY <1>0, <1>6, <2>2, <2>4, Zenon DEF leave
  <2>8. WillOpen(i)
    BY <2>6, Zenon DEF WillOpen
  <2>9. \/ wills'[i] = wills[i] /\ (WillOpen(i)' => WillOpen(i))
        \/ wills'[i] = wills[i] + 1 /\ WillOpen(i) /\ ~WillOpen(i)'
    <3>1. CASE out
      <4>1. wills'[i] = wills[i] + 1
        BY <1>0, <2>3, <3>1, Zenon DEF PublishWill
      <4>2. ~WillOpen(i)'
        BY <2>2, <2>5, <2>6, <3>1, Zenon DEF WillOpen
      <4> QED  BY <2>8, <4>1, <4>2, Zenon
    <3>2. CASE ~out
      BY <2>3, <2>8, <3>2, Zenon
    <3> QED  BY <3>1, <3>2, Zenon
  <2>10. \A j \in Attempts \ {i} :
           task'[j] = task[j] /\ wills'[j] = wills[j] /\ pending'[j] = pending[j]
    BY <1>0, <2>2, <2>3, <2>4, Zenon DEF PublishWill
  <2>11. UNCHANGED <<pc, lockers, held, peers, kicked>>
    BY <1>6, Zenon DEF leave
  <2>12. task'[i] \notin {"none", "created"} /\ ~(t = "offline" /\ kicked[i] # None)
    BY <2>5, <2>6, Zenon DEF t
  <2>13. InService(i)' => InService(i)
    BY <2>5, <2>6, <2>11, <2>12, Zenon DEF InService, Serving
  <2> QED  BY <2>4, <2>6, <2>9, <2>10, <2>11, <2>12, <2>13, Zenon DEF Frame
<1>7. CASE offline_kick(i)
  <2>1. \/ /\ task' = [task EXCEPT ![i] = "ended"]
           /\ \E k \in Kickers : kicked' = [kicked EXCEPT ![i] = k]
        \/ UNCHANGED <<task, reply, kicked>>
    BY <1>7, AnswerFrame, Zenon DEF offline_kick
  <2> QED  BY <1>0, <1>7, <2>1, Zenon DEF offline_kick, Frame, WillOpen, InService, Serving
<1>8. CASE offline_ignored(i)
  BY <1>0, <1>8, Zenon DEF offline_ignored, Frame, WillOpen, InService, Serving, handshakeVars, sessionVars
<1>9. CASE clean(i)
  <2>1. \A k \in Kickers : reply'[k] = "sent" => reply[k] = "sent"
    BY <1>9, MoveToFrame, SMTT(30), Z3T(30) DEF clean
  <2> QED  BY <1>0, <1>9, <2>1, Zenon DEF clean, MoveTo, Frame, WillOpen, InService, Serving
<1>10. CASE clean_unroute(i)
  BY <1>0, <1>10, Zenon DEF clean_unroute, RouterRemove, Frame, WillOpen, InService, Serving, handshakeVars, sessionVars
<1>11. CASE clean_unsub(i)
  <2>1. \A k \in Kickers : reply'[k] = "sent" => reply[k] = "sent"
    BY <1>11, MoveToFrame, SMTT(30), Z3T(30) DEF clean_unsub
  <2> QED  BY <1>0, <1>11, <2>1, Zenon DEF clean_unsub, MoveTo, Frame, WillOpen, InService, Serving
<1>12. CASE subscribe(i)
  BY <1>0, <1>12, Zenon DEF subscribe, Frame, WillOpen, InService, Serving, handshakeVars, sessionVars
<1>13. CASE unsubscribe(i)
  BY <1>0, <1>13, Zenon DEF unsubscribe, RouterRemove, Frame, WillOpen, InService, Serving, handshakeVars, sessionVars
<1>14. CASE disconnect(i)
  BY <1>0, <1>14, Zenon DEF disconnect, Frame, WillOpen, InService, Serving, handshakeVars, sessionVars
<1>15. CASE connection_lost(i)
  BY <1>0, <1>15, Zenon DEF connection_lost, Frame, WillOpen, InService, Serving, handshakeVars, sessionVars
<1>16. CASE will_delay_elapsed(i)
  BY <1>0, <1>16, Zenon DEF will_delay_elapsed, PublishWill, Frame, WillOpen, InService, Serving, handshakeVars, sessionVars
<1>17. CASE session_expired(i)
  BY <1>0, <1>17, Zenon DEF session_expired, PublishWill, Frame, WillOpen, InService, Serving, handshakeVars, sessionVars
<1> QED
  BY <1>1, <1>2, <1>3, <1>4, <1>5, <1>6, <1>7, <1>8, <1>9, <1>10, <1>11, <1>12, <1>13, <1>14, <1>15, <1>16, <1>17, Zenon
  DEF Lives, SessionStep

-----------------------------------------------------------------------------
(* Where an attempt is says whether its session exists *)

PlaceInv ==
  \A i \in Attempts :
    /\ pc[i] \in {"idle", "kick", "waiting", "collect", "unroute", "unsub", "build"} =>
         task[i] = "none"
    /\ pc[i] \in {"set", "unlock", "release", "connack"} => task[i] = "created"

\* What a step of kick does, whoever kicks.
LEMMA KickFrame ==
  ASSUME TypeOK, NEW k \in Kickers, KickStep(k)
  PROVE  /\ UNCHANGED <<task, kicked, pending, wills, lockers, held>>
         /\ \A i \in Attempts \ {k} : pc'[i] = pc[i]
         /\ pc[k] \in {"kick", "waiting", "collect", "unroute", "unsub"}
         /\ k \in Attempts =>
              pc'[k] \in {"waiting", "collect", "unroute", "unsub", "build", "abort"}
<1>0. pc \in [Kickers -> Places] /\ Attempts \subseteq Kickers /\ Admin \notin Attempts
  BY TakeoverAssumption, Zenon DEF TypeOK, Kickers
<1>1. CASE send_kick(k)
  BY <1>0, <1>1, Zenon DEF send_kick
<1>2. CASE kick_result(k)
  BY <1>0, <1>2, Zenon DEF kick_result, sessionVars
<1>3. CASE collect(k)
  BY <1>0, <1>3, Zenon DEF collect, Collected, sessionVars
<1>4. CASE kick_unroute(k)
  BY <1>0, <1>4, Zenon DEF kick_unroute, sessionVars
<1>5. CASE kick_unsub(k)
  BY <1>0, <1>5, Zenon DEF kick_unsub, Collected, sessionVars
<1> QED  BY <1>1, <1>2, <1>3, <1>4, <1>5, Zenon DEF KickStep

\* The steps of an attempt after kick, and what connect does.
After(i) == entry_set(i) \/ transfer(i) \/ drop_entry(i) \/ drop_guard(i) \/ connack(i)

\* Every step is the administrator's, a step of kick, of a handshake or of a
\* session.
LEMMA NextCases ==
  ASSUME [Next]_vars
  PROVE  \/ UNCHANGED vars
         \/ admin_kick
         \/ \E k \in Kickers : KickStep(k)
         \/ \E i \in Attempts : \/ \E p \in Profiles : connect(i, p)
                                \/ After(i)
                                \/ Lives(i)
BY Zenon DEF Next, HandshakeStep, ClientStep, After, Lives, Kickers

\* Every step keeps handshakes and session tasks in step with each other.
LEMMA NextPlace ==
  ASSUME TypeOK, PlaceInv, [Next]_vars
  PROVE  PlaceInv'
<1>0. /\ pc \in [Kickers -> Places] /\ task \in [Attempts -> Tasks]
      /\ Attempts \subseteq Kickers /\ Admin \notin Attempts
  BY TakeoverAssumption, Zenon DEF TypeOK, Kickers
<1>1. CASE UNCHANGED vars
  BY <1>1, Zenon DEF vars, PlaceInv
<1>2. CASE admin_kick
  BY <1>0, <1>2, Zenon DEF admin_kick, sessionVars, PlaceInv
<1>3. ASSUME NEW k \in Kickers, KickStep(k) PROVE PlaceInv'
  BY <1>0, <1>3, KickFrame, ZenonT(60) DEF PlaceInv
<1>4. ASSUME NEW i \in Attempts, NEW p \in Profiles, connect(i, p) PROVE PlaceInv'
  BY <1>0, <1>4, ZenonT(60) DEF connect, try_lock, sessionVars, PlaceInv
<1>5. ASSUME NEW i \in Attempts, After(i) PROVE PlaceInv'
  <2>1. CASE entry_set(i)
    BY <1>0, <2>1, ZenonT(60) DEF entry_set, PlaceInv
  <2>2. CASE transfer(i)
    BY <1>0, <2>2, Zenon DEF transfer, PlaceInv
  <2>3. CASE drop_entry(i)
    BY <1>0, <2>3, Zenon DEF drop_entry, sessionVars, PlaceInv
  <2>4. CASE drop_guard(i)
    BY <1>0, <2>4, Zenon DEF drop_guard, sessionVars, PlaceInv
  <2>5. CASE connack(i)
    BY <1>0, <2>5, ZenonT(60) DEF connack, MoveTo, PlaceInv
  <2> QED  BY <1>5, <2>1, <2>2, <2>3, <2>4, <2>5, Zenon DEF After
<1>6. ASSUME NEW i \in Attempts, Lives(i) PROVE PlaceInv'
  BY <1>6, SessionFrame, Zenon DEF Frame, PlaceInv
<1> QED  BY <1>1, <1>2, <1>3, <1>4, <1>5, <1>6, NextCases, Zenon

-----------------------------------------------------------------------------
(* The handshake lock *)

\* An attempt inside the lock holds the mutex that the map names, and no mutex
\* has two holders.
LockInv ==
  /\ \A i \in Attempts : pc[i] \in Locked => held[i] # None /\ lockers = held[i]
  /\ \A i, j \in Attempts : held[i] # None /\ held[i] = held[j] => i = j

\* Every step keeps the lock with the handshake that took it.
LEMMA NextLock ==
  ASSUME TypeOK, LockInv, [Next]_vars
  PROVE  LockInv'
<1>0. /\ pc \in [Kickers -> Places] /\ held \in [Attempts -> Attempts \cup {None}]
      /\ Attempts \subseteq Kickers /\ Admin \notin Attempts /\ None \notin Attempts
      /\ lockers \in Attempts \cup {None}
  BY TakeoverAssumption, Zenon DEF TypeOK, Kickers, Mutexes
<1>1. ASSUME UNCHANGED <<lockers, held>>,
             \A i \in Attempts : pc'[i] \in Locked => pc[i] \in Locked
      PROVE  LockInv'
  BY <1>1, Zenon DEF LockInv
<1>2. CASE UNCHANGED vars
  BY <1>1, <1>2, Zenon DEF vars
<1>3. CASE admin_kick
  BY <1>0, <1>1, <1>3, Zenon DEF admin_kick
<1>4. ASSUME NEW k \in Kickers, KickStep(k) PROVE LockInv'
  <2>1. \A i \in Attempts : pc'[i] \in Locked => pc[i] \in Locked
    BY <1>4, KickFrame, Zenon DEF Locked
  <2> QED  BY <1>1, <1>4, <2>1, KickFrame, Zenon
<1>5. ASSUME NEW i \in Attempts, NEW p \in Profiles, connect(i, p) PROVE LockInv'
  <2> DEFINE mutex == IF lockers = None THEN i ELSE lockers
  <2>1. CASE \E j \in Attempts : held[j] = mutex
    <3>1. UNCHANGED <<lockers, held>> /\ pc' = [pc EXCEPT ![i] = "refused"]
      BY <1>5, <2>1, Zenon DEF connect, try_lock
    <3> QED  BY <1>0, <1>1, <3>1, Zenon DEF Locked
  <2>2. CASE ~ \E j \in Attempts : held[j] = mutex
    <3>1. /\ lockers' = mutex /\ held' = [held EXCEPT ![i] = mutex]
          /\ pc' = [pc EXCEPT ![i] = "kick"]
      BY <1>5, <2>2, Zenon DEF connect, try_lock
    <3>2. mutex \in Attempts
      BY <1>0, Zenon
    <3>3. \A j \in Attempts : pc[j] \notin Locked
      BY <1>0, <2>2, Zenon DEF LockInv
    <3> HIDE DEF mutex
    <3> QED  BY <1>0, <2>2, <3>1, <3>2, <3>3, ZenonT(60) DEF LockInv
  <2> QED  BY <2>1, <2>2, Zenon
<1>6. ASSUME NEW i \in Attempts, After(i) PROVE LockInv'
  <2>1. CASE entry_set(i) \/ transfer(i)
    BY <1>0, <1>1, <2>1, Zenon DEF entry_set, transfer, Locked
  <2>2. CASE drop_entry(i)
    <3>1. pc[i] \in Locked /\ pc'[i] \notin Locked /\ UNCHANGED held
      BY <1>0, <2>2, Zenon DEF drop_entry, Locked
    <3>2. \A j \in Attempts \ {i} : pc'[j] = pc[j] /\ pc[j] \notin Locked
      BY <1>0, <2>2, <3>1, Zenon DEF drop_entry, LockInv
    <3> QED  BY <3>1, <3>2, Zenon DEF LockInv
  <2>3. CASE drop_guard(i)
    <3>1. held' = [held EXCEPT ![i] = None] /\ UNCHANGED lockers
      BY <2>3, Zenon DEF drop_guard
    <3>2. pc'[i] \notin Locked /\ \A j \in Attempts \ {i} : pc'[j] = pc[j]
      BY <1>0, <2>3, Zenon DEF drop_guard, Locked
    <3> QED  BY <1>0, <3>1, <3>2, Zenon DEF LockInv
  <2>4. CASE connack(i)
    BY <1>0, <1>1, <2>4, Zenon DEF connack, Locked
  <2> QED  BY <1>6, <2>1, <2>2, <2>3, <2>4, Zenon DEF After
<1>7. ASSUME NEW i \in Attempts, Lives(i) PROVE LockInv'
  BY <1>1, <1>7, SessionFrame, Zenon DEF Frame
<1> QED  BY <1>2, <1>3, <1>4, <1>5, <1>6, <1>7, NextCases, Zenon

\* Two handshakes inside the lock would hold it both.
LEMMA LockInvExclusive == LockInv => LockExclusive
BY DEF LockInv, LockExclusive

\* At most one handshake of a client id is between try_lock and the drop of its
\* entry, for any number of attempts and whatever else goes wrong.
THEOREM HandshakeExclusion == Spec => []LockExclusive
<1>1. Init => LockInv
  BY TakeoverAssumption DEF Init, LockInv, Locked, Kickers
<1>2. TypeOK /\ LockInv /\ [Next]_vars => LockInv'
  BY NextLock, Zenon
<1> QED  BY <1>1, <1>2, TypeCorrect, LockInvExclusive, PTL DEF Spec

-----------------------------------------------------------------------------
(* One serving session *)

\* The registered session, if there is one, serves nobody any more.
Gone == peers = None \/ ~InService(peers)

\* Nobody is in service but the registered session, and the attempt inside the
\* lock knows how far it has got with removing it.
RegInv ==
  /\ pc[Admin] = "idle"
  /\ \A i \in Attempts : InService(i) => peers = i
  /\ \A i \in Attempts : pc[i] \in {"unroute", "unsub", "build"} => peers = None
  /\ \A i \in Attempts :
       pc[i] = "collect" \/ (pc[i] = "waiting" /\ reply[i] = "sent") => Gone

\* Every Kick is answered in time and the administrator does not interfere.
Calm == Faults \cap {"timeout", "admin"} = {}

\* Without timeouts and administrator, every step keeps the registry right.
LEMMA NextReg ==
  ASSUME Calm, TypeOK, PlaceInv, LockInv, RegInv, [Next]_vars
  PROVE  RegInv'
<1>0. /\ pc \in [Kickers -> Places] /\ task \in [Attempts -> Tasks]
      /\ reply \in [Kickers -> {"none", "pending", "sent", "dropped", "closed"}]
      /\ peers \in Attempts \cup {None} /\ Kickers = Attempts \cup {Admin}
      /\ Admin \notin Attempts /\ None \notin Attempts
  BY TakeoverAssumption DEF TypeOK, Kickers
<1>1. CASE UNCHANGED vars
  BY <1>1, Zenon DEF vars, RegInv, Gone, InService
<1>2. CASE admin_kick
  BY <1>2, Zenon DEF admin_kick, Calm
<1>3. ASSUME NEW k \in Kickers, KickStep(k) PROVE RegInv'
  <2>0. k \in Attempts /\ k # Admin
    BY <1>0, <1>3, KickFrame, Zenon DEF RegInv
  <2>1. UNCHANGED <<task, kicked>> /\ \A i \in Attempts : InService(i)' = InService(i)
    BY <1>3, KickFrame, Zenon DEF InService
  <2>2. CASE send_kick(k)
    <3>1. CASE peers # None /\ Open(peers)
      <4>1. /\ pc' = [pc EXCEPT ![k] = "waiting"] /\ reply' = [reply EXCEPT ![k] = "pending"]
            /\ UNCHANGED peers
        BY <2>2, <3>1, Zenon DEF send_kick
      <4> QED  BY <1>0, <2>0, <2>1, <4>1, Zenon DEF RegInv, Gone
    <3>2. CASE ~(peers # None /\ Open(peers))
      <4>1. pc' = [pc EXCEPT ![k] = "collect"] /\ UNCHANGED <<peers, reply>>
        BY <2>2, <3>2, Zenon DEF send_kick
      <4>2. Gone
        BY <3>2, Zenon DEF Gone, Open, InService, Serving
      <4> QED  BY <1>0, <2>0, <2>1, <4>1, <4>2, Zenon DEF RegInv, Gone
    <3> QED  BY <3>1, <3>2, Zenon
  <2>3. CASE kick_result(k)
    <3>1. /\ pc' = [pc EXCEPT ![k] = IF reply[k] = "sent" THEN "collect" ELSE "abort"]
          /\ pc[k] = "waiting" /\ UNCHANGED <<peers, reply>>
      BY <2>0, <2>3, Zenon DEF kick_result, Calm
    <3> QED  BY <1>0, <2>0, <2>1, <3>1, Zenon DEF RegInv, Gone
  <2>4. CASE collect(k)
    <3>1. peers' = None /\ UNCHANGED reply /\ pc[k] = "collect"
      BY <2>4, Zenon DEF collect
    <3>2. \A i \in Attempts : ~InService(i)
      BY <1>0, <2>0, <3>1, Zenon DEF RegInv, Gone
    <3>3. pc'[Admin] = pc[Admin]
      BY <1>0, <2>0, <2>4, Zenon DEF collect
    <3> QED  BY <2>1, <3>1, <3>2, <3>3, Zenon DEF RegInv, Gone
  <2>5. CASE kick_unroute(k)
    BY <1>0, <2>0, <2>1, <2>5, Zenon DEF kick_unroute, RegInv, Gone
  <2>6. CASE kick_unsub(k)
    <3>1. pc' = [pc EXCEPT ![k] = "build"] /\ pc[k] = "unsub" /\ UNCHANGED <<peers, reply>>
      BY <2>0, <2>6, Zenon DEF kick_unsub, Collected
    <3> QED  BY <1>0, <2>0, <2>1, <3>1, Zenon DEF RegInv, Gone
  <2> QED  BY <1>3, <2>2, <2>3, <2>4, <2>5, <2>6, Zenon DEF KickStep
<1>4. ASSUME NEW i \in Attempts, NEW p \in Profiles, connect(i, p) PROVE RegInv'
  <2>1. UNCHANGED <<task, kicked, reply, peers>> /\ \A j \in Attempts : InService(j)' = InService(j)
    BY <1>4, Zenon DEF connect, sessionVars, InService
  <2>2. \E v \in {"kick", "refused"} : pc' = [pc EXCEPT ![i] = v]
    BY <1>4, Zenon DEF connect, try_lock
  <2> QED  BY <1>0, <2>1, <2>2, Zenon DEF RegInv, Gone
<1>5. ASSUME NEW i \in Attempts, After(i) PROVE RegInv'
  <2>1. CASE entry_set(i)
    <3>1. pc[i] = "build" /\ peers = None /\ UNCHANGED <<reply, kicked>>
      BY <2>1, Zenon DEF entry_set, RegInv
    <3>2. \A j \in Attempts : ~InService(j)
      BY <1>0, <3>1, Zenon DEF RegInv
    <3>3. \A j \in Attempts \ {i} : pc[j] \notin Locked
      BY <3>1, Zenon DEF LockInv, Locked
    <3>4. \A j \in Attempts \ {i} :
            pc[j] \notin {"unroute", "unsub", "build", "collect", "waiting"}
      BY <3>3, Zenon DEF Locked
    <3>5. CASE peers' = i /\ task' = [task EXCEPT ![i] = "created"] /\ pc' = [pc EXCEPT ![i] = "set"]
      <4>1. \A j \in Attempts \ {i} : ~InService(j)'
        BY <1>0, <3>1, <3>2, <3>5, Zenon DEF InService
      <4> QED  BY <1>0, <3>4, <3>5, <4>1, Zenon DEF RegInv
    <3>6. CASE pc' = [pc EXCEPT ![i] = "abort"] /\ UNCHANGED <<peers, task>>
      BY <1>0, <3>1, <3>6, Zenon DEF RegInv, Gone, InService
    <3> QED  BY <2>1, <3>5, <3>6, Zenon DEF entry_set
  <2>2. ASSUME UNCHANGED <<task, kicked, reply, peers>>,
               \E v \in {"unlock", "release", "aborted", "connack", "refused"} :
                 pc' = [pc EXCEPT ![i] = v]
        PROVE  RegInv'
    BY <1>0, <2>2 DEF RegInv, Gone, InService
  <2>3. CASE transfer(i)
    BY <2>2, <2>3, Zenon DEF transfer
  <2>4. CASE drop_entry(i)
    BY <2>2, <2>4, Zenon DEF drop_entry, sessionVars
  <2>5. CASE drop_guard(i)
    BY <2>2, <2>5, ZenonT(60) DEF drop_guard, sessionVars
  <2>6. CASE connack(i)
    <3>1. task[i] = "created" /\ InService(i)
      BY <2>6, ZenonT(60) DEF connack, PlaceInv, InService, Serving
    <3>2. peers = i /\ UNCHANGED <<peers, kicked>>
      BY <2>6, <3>1, Zenon DEF connack, RegInv
    <3>3. \A k \in Kickers : reply'[k] = "sent" => reply[k] = "sent"
      BY <2>6, MoveToFrame, SMTT(30), Z3T(30) DEF connack
    <3>4. \E t \in {"online", "ended"} : task' = [task EXCEPT ![i] = t]
      BY <2>6, Zenon DEF connack, MoveTo
    <3>5. \E v \in {"done", "refused"} : pc' = [pc EXCEPT ![i] = v]
      BY <2>6, Zenon DEF connack
    <3>6. \A j \in Attempts \ {i} : InService(j)' = InService(j)
      BY <1>0, <3>2, <3>4, Zenon DEF InService
    <3>7. \A j \in Attempts : ~(pc[j] = "collect" \/ (pc[j] = "waiting" /\ reply[j] = "sent"))
      BY <1>0, <3>1, <3>2, Zenon DEF RegInv, Gone
    <3>8. \A j \in Attempts : pc[j] \notin {"unroute", "unsub", "build"}
      BY <1>0, <3>2, Zenon DEF RegInv
    <3> QED  BY <1>0, <3>2, <3>3, <3>5, <3>6, <3>7, <3>8, Zenon DEF RegInv
  <2> QED  BY <1>5, <2>1, <2>3, <2>4, <2>5, <2>6, Zenon DEF After
<1>6. ASSUME NEW i \in Attempts, Lives(i) PROVE RegInv'
  <2>0. Frame(i)
    BY <1>6, SessionFrame, Zenon
  <2>1. \A j \in Attempts : InService(j)' => InService(j)
    BY <2>0, ZenonT(60) DEF Frame, InService
  <2>2. \A j \in Attempts : InService(j)' => peers' = j
    BY <1>0, <2>0, <2>1, Zenon DEF Frame, RegInv
  <2>3. Gone => Gone'
    BY <1>0, <2>0, <2>1, Zenon DEF Frame, Gone
  <2>4. ASSUME NEW k \in Attempts, reply'[k] = "sent", reply[k] # "sent" PROVE Gone'
    <3>1. InService(i) /\ ~InService(i)'
      BY <1>0, <2>0, <2>4, Zenon DEF Frame
    <3>2. peers' = i
      BY <2>0, <3>1, Zenon DEF Frame, RegInv
    <3> QED  BY <3>1, <3>2, Zenon DEF Gone
  <2>5. pc' = pc
    BY <2>0, Zenon DEF Frame
  <2>6. peers = None => peers' = None
    BY <2>0, Zenon DEF Frame
  <2> QED  BY <2>2, <2>3, <2>4, <2>5, <2>6, Zenon DEF RegInv
<1> QED  BY <1>1, <1>2, <1>3, <1>4, <1>5, <1>6, NextCases, ZenonT(60)

\* When Kicks are answered in time and no administrator kicks, the session that
\* serves the client is always the registered one, for any number of attempts,
\* also when handshakes are rejected late, CONNACKs fail and connections drop.
THEOREM OneServingSession ==
  ASSUME Calm
  PROVE  Spec => []ServingIsRegistered
<1>1. Init => PlaceInv /\ LockInv /\ RegInv
  BY TakeoverAssumption, ZenonT(60)
  DEF Init, PlaceInv, LockInv, Locked, RegInv, Gone, InService, Serving, Kickers
<1>2. TypeOK /\ PlaceInv /\ LockInv /\ [Next]_vars => PlaceInv' /\ LockInv'
  BY NextPlace, NextLock, Zenon
<1>3. TypeOK /\ PlaceInv /\ LockInv /\ RegInv /\ [Next]_vars => RegInv'
  BY NextReg, Zenon
<1>4. RegInv => ServingIsRegistered
  BY Zenon DEF RegInv, ServingIsRegistered, InService
<1> QED  BY <1>1, <1>2, <1>3, <1>4, TypeCorrect, PTL DEF Spec

-----------------------------------------------------------------------------
(* The will *)

WillInv == \A i \in Attempts : wills[i] <= 1 /\ (WillOpen(i) => wills[i] = 0)

\* Every step keeps a published will closed.
LEMMA NextWill ==
  ASSUME TypeOK, PlaceInv, WillInv, [Next]_vars
  PROVE  WillInv'
<1>0. task \in [Attempts -> Tasks] /\ wills \in [Attempts -> Nat] /\ Attempts \subseteq Kickers
  BY Zenon DEF TypeOK, Kickers
<1>1. ASSUME UNCHANGED <<task, pending, wills>> PROVE WillInv'
  BY <1>1, Zenon DEF WillInv, WillOpen
<1>2. CASE UNCHANGED vars \/ admin_kick
  BY <1>1, <1>2, Zenon DEF vars, admin_kick, sessionVars
<1>3. ASSUME NEW k \in Kickers, KickStep(k) PROVE WillInv'
  BY <1>1, <1>3, KickFrame, Zenon
<1>4. ASSUME NEW i \in Attempts, NEW p \in Profiles, connect(i, p) PROVE WillInv'
  BY <1>1, <1>4, Zenon DEF connect, sessionVars
<1>5. ASSUME NEW i \in Attempts, After(i) PROVE WillInv'
  <2>1. CASE transfer(i) \/ drop_entry(i) \/ drop_guard(i)
    BY <1>1, <2>1, Zenon DEF transfer, drop_entry, drop_guard, sessionVars
  <2>2. ASSUME task[i] \in {"none", "created"}, UNCHANGED <<pending, wills>>,
               \E t \in Tasks : task' = [task EXCEPT ![i] = t]
        PROVE  WillInv'
    BY <1>0, <2>2, Zenon DEF WillInv, WillOpen
  <2>3. CASE entry_set(i)
    <3>1. task[i] = "none" /\ UNCHANGED <<pending, wills>>
      BY <2>3, Zenon DEF entry_set, PlaceInv
    <3>2. UNCHANGED task \/ task' = [task EXCEPT ![i] = "created"]
      BY <2>3 DEF entry_set
    <3>3. "created" \in Tasks
      BY DEF Tasks
    <3> QED  BY <1>1, <2>2, <3>1, <3>2, <3>3, Zenon
  <2>4. CASE connack(i)
    <3>1. task[i] = "created" /\ UNCHANGED <<pending, wills>>
      BY <2>4, Zenon DEF connack, PlaceInv
    <3>2. \E t \in {"online", "ended"} : task' = [task EXCEPT ![i] = t]
      BY <2>4, Zenon DEF connack, MoveTo
    <3>3. {"online", "ended"} \subseteq Tasks
      BY Zenon DEF Tasks
    <3> QED  BY <2>2, <3>1, <3>2, <3>3, Zenon
  <2> QED  BY <1>5, <2>1, <2>3, <2>4, Zenon DEF After
<1>6. ASSUME NEW i \in Attempts, Lives(i) PROVE WillInv'
  <2>1. Frame(i)
    BY <1>6, SessionFrame, ZenonT(60)
  <2>2. \A j \in Attempts \ {i} : wills'[j] = wills[j] /\ (WillOpen(j)' => WillOpen(j))
    BY <2>1, SMTT(30) DEF Frame, WillOpen
  <2>3. \/ wills'[i] = wills[i] /\ (WillOpen(i)' => WillOpen(i))
        \/ wills'[i] = wills[i] + 1 /\ WillOpen(i) /\ ~WillOpen(i)'
    BY <2>1, ZenonT(60) DEF Frame
  <2>4. wills[i] \in Nat /\ wills[i] <= 1 /\ (WillOpen(i) => wills[i] = 0)
    BY <1>0, <1>6, Zenon DEF WillInv, TypeOK
  <2>5. wills'[i] <= 1 /\ (WillOpen(i)' => wills'[i] = 0)
    <3> HIDE DEF TypeOK, PlaceInv, WillInv, Next
    <3> QED  BY ONLY <2>3, <2>4, SMTT(30), Z3T(30)
  <2> QED  BY <2>2, <2>5, Zenon DEF WillInv
<1> QED  BY <1>2, <1>3, <1>4, <1>5, <1>6, NextCases, Zenon

\* A session's will is published at most once, whichever of the end of its
\* connection, the will delay, the expiry of the session and a takeover comes
\* first, for any number of attempts and whatever goes wrong.
THEOREM WillPublishedOnce == Spec => []WillOnce
<1>1. Init => PlaceInv /\ WillInv
  BY TakeoverAssumption, SMTT(30), Z3T(30) DEF Init, PlaceInv, WillInv, Kickers
<1>2. TypeOK /\ PlaceInv /\ [Next]_vars => PlaceInv'
  BY NextPlace, Zenon
<1>3. TypeOK /\ PlaceInv /\ WillInv /\ [Next]_vars => WillInv'
  BY NextWill, Zenon
<1>4. WillInv => WillOnce
  BY DEF WillInv, WillOnce
<1> QED  BY <1>1, <1>2, <1>3, <1>4, TypeCorrect, PTL DEF Spec
=============================================================================
