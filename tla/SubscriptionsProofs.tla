------------------------ MODULE SubscriptionsProofs ------------------------
(***************************************************************************)
(* The subscription manager for every number of clients, subscriptions,    *)
(* handles and elements and every value of the limits, and the stream      *)
(* handlers over it.                                                       *)
(*                                                                         *)
(* The inductive invariant Inv is the type invariant, the agreement of the *)
(* two registration indexes, an orderly mailbox for every subscription,    *)
(* and the ownership of the stream slots; each action disturbs few of      *)
(* them, and the queue operators are dealt with by the lemmas of           *)
(* BatchQueueProofs.  The limits (Counted), the untouched queue of a token *)
(* not handed out (Untouched) and the order of the reports in a queue      *)
(* (AllInOrder) are inductive on top of it.                                *)
(*                                                                         *)
(* For the handlers: first their own bookkeeping (HandlerInv), from which  *)
(* every step of the composition is a step of the manager, so that its     *)
(* invariants carry over; on top of them the slot of a handler that was    *)
(* not told to end (HoldsSlot), and the numbers: what a handler took lies  *)
(* below the oldest number still queued (TakenBefore), which only grows.   *)
(***************************************************************************)
EXTENDS SseServer, BatchQueueProofs, FiniteSetTheorems

MailOrderly == \A s \in SubIds : Orderly(mail[s])

Inv == TypeOK /\ WatchersAgree /\ MailOrderly /\ SlotIsOpen

\* A fan-out (of a state change or of a late follow-up) keeps the mailboxes.
LEMMA FanOutOrderly ==
    ASSUME TypeOK, MailOrderly, NEW e \in Elements, NEW v \in 0..MaxVersion,
           FanOut(e, v)
    PROVE  mail' \in [SubIds -> Mailbox(Update)] /\ MailOrderly'
<1> DEFINE u == {[element |-> e, version |-> v]}
<1>1. u \in SUBSET Update
  BY DEF Update
<1>2. ASSUME NEW s \in SubIds
      PROVE  /\ Enqueue(mail[s], u) \in Mailbox(Update) /\ Orderly(Enqueue(mail[s], u))
             /\ mail[s] \in Mailbox(Update) /\ Orderly(mail[s])
  <2>1. mail[s] \in Mailbox(Update) /\ Orderly(mail[s])
    BY DEF TypeOK, MailOrderly
  <2>. HIDE DEF u
  <2>. QED  BY <1>1, <2>1, EnqueueType, EnqueueOrderly
<1>3. mail' = [s \in SubIds |-> IF s \in watchers[e] \cap subs
                                THEN Enqueue(mail[s], u) ELSE mail[s]]
  BY DEF FanOut
<1>. HIDE DEF u
<1>. QED  BY <1>2, <1>3 DEF MailOrderly

\* The snapshot batch of sync holds updates.
LEMMA CurrentValuesType ==
    ASSUME TypeOK, SubscriptionsAssumption, NEW s \in SubIds
    PROVE  CurrentValues(s) \in SUBSET Update
<1>. SUFFICES ASSUME NEW e \in monitored[s] \cap exposed,
                     e \in StructuralElements \cup present
              PROVE  [element |-> e,
                      version |-> IF e \in StructuralElements THEN NoData ELSE version[e]]
                        \in Update
  BY DEF CurrentValues
<1>1. e \in Elements /\ 0 \in 0..MaxVersion
  BY DEF TypeOK, SubscriptionsAssumption
<1>2. e \notin StructuralElements => version[e] \in 0..MaxVersion
  BY DEF TypeOK, Entities
<1>. QED  BY <1>1, <1>2 DEF Update, NoData

LEMMA InitInv == Init => Inv
<1>. SUFFICES ASSUME Init PROVE Inv
  OBVIOUS
<1>1. EmptyMailbox \in Mailbox(Update) /\ Orderly(EmptyMailbox)
  BY EmptyMailboxOrderly
<1>2. 1 \in 0..MaxVersion
  BY SubscriptionsAssumption DEF SubscriptionsAssumption
<1>. QED  BY <1>1, SubscriptionsAssumption
          DEF Init, Inv, TypeOK, WatchersAgree, MailOrderly, SlotIsOpen,
              SubscriptionsAssumption, Entities

\* Dropping subscriptions (delete, the janitor) takes them out of both indexes
\* and leaves every other slot alone.
LEMMA DropKeeps ==
    ASSUME Inv, SubscriptionsAssumption, NEW D \in SUBSET subs, Drop(D),
           issued' = issued, monitored' = monitored, opened' = opened
    PROVE  /\ subs' \subseteq issued'
           /\ watchers' \in [Elements -> SUBSET SubIds]
           /\ stream' \in [SubIds -> Handles \cup {NoHandle}]
           /\ closed' \subseteq opened'
           /\ WatchersAgree' /\ SlotIsOpen'
<1>1. /\ subs' \subseteq issued' /\ watchers' \in [Elements -> SUBSET SubIds]
      /\ stream' \in [SubIds -> Handles \cup {NoHandle}]
  BY DEF Inv, TypeOK, Drop
<1>2. closed' \subseteq opened'
  BY DEF Inv, TypeOK, SlotIsOpen, Drop, ActiveStreams
<1>3. WatchersAgree'
  BY DEF Inv, TypeOK, WatchersAgree, Drop
<1>4. SlotIsOpen'
  <2>. SUFFICES ASSUME NEW s \in SubIds, stream'[s] # NoHandle
                PROVE  /\ stream'[s] \in opened' \ closed'
                       /\ \A t \in SubIds \ {s} : stream'[t] # stream'[s]
    BY DEF SlotIsOpen
  <2>1. s \notin D /\ stream'[s] = stream[s] /\ stream[s] # NoHandle
    BY DEF Drop
  <2>2. stream[s] \in opened \ closed /\ \A t \in SubIds \ {s} : stream[t] # stream[s]
    BY <2>1 DEF Inv, SlotIsOpen
  <2>3. \A t \in D \cap ActiveStreams : t \in SubIds \ {s}
    BY <2>1 DEF Inv, TypeOK, ActiveStreams
  <2>4. \A t \in SubIds \ {s} : stream'[t] \in {NoHandle, stream[t]}
    BY DEF Drop
  <2>. QED  BY <2>1, <2>2, <2>3, <2>4 DEF Drop
<1>. QED  BY <1>1, <1>2, <1>3, <1>4

\* One mailbox replaced by an orderly one.
LEMMA MailExcept ==
    ASSUME Inv, NEW s \in SubIds, NEW m \in Mailbox(Update), Orderly(m),
           mail' = [mail EXCEPT ![s] = m]
    PROVE  mail' \in [SubIds -> Mailbox(Update)] /\ MailOrderly'
BY DEF Inv, TypeOK, MailOrderly

\* Every step keeps the invariant, one action at a time.
LEMMA NextInv == Inv /\ [Next]_vars => Inv'
<1>. SUFFICES ASSUME Inv, [Next]_vars PROVE Inv'
  OBVIOUS
<1>. USE SubscriptionsAssumption
<1>1. ASSUME NEW c \in Clients, NEW s \in SubIds, Create(c, s) PROVE Inv'
  <2>1. mail' \in [SubIds -> Mailbox(Update)] /\ MailOrderly'
    BY <1>1, EmptyMailboxOrderly, MailExcept DEF Create
  <2>2. TypeOK' /\ SlotIsOpen'
    BY <1>1, <2>1 DEF Inv, TypeOK, SlotIsOpen, Create, Touch, worldVars,
                      SubscriptionsAssumption
  <2>3. WatchersAgree'
    BY <1>1 DEF Inv, TypeOK, WatchersAgree, Create
  <2>. QED  BY <2>1, <2>2, <2>3 DEF Inv
<1>2. ASSUME NEW c \in Clients, NEW S \in SUBSET OwnedBy(c), TouchOnly(c, S) PROVE Inv'
  <2>1. TypeOK'
    BY <1>2 DEF Inv, TypeOK, TouchOnly, Touch, slotVars, worldVars, SubscriptionsAssumption
  <2>2. WatchersAgree' /\ MailOrderly' /\ SlotIsOpen'
    BY <1>2 DEF Inv, WatchersAgree, MailOrderly, SlotIsOpen, TouchOnly, slotVars
  <2>. QED  BY <2>1, <2>2 DEF Inv
<1>3. ASSUME NEW c \in Clients, NEW S \in SUBSET OwnedBy(c), Delete(c, S) PROVE Inv'
  <2>1. S \in SUBSET subs
    BY DEF OwnedBy
  <2>2. /\ subs' \subseteq issued' /\ watchers' \in [Elements -> SUBSET SubIds]
        /\ stream' \in [SubIds -> Handles \cup {NoHandle}]
        /\ closed' \subseteq opened' /\ WatchersAgree' /\ SlotIsOpen'
    BY <1>3, <2>1, DropKeeps DEF Delete
  <2>3. TypeOK'
    BY <1>3, <2>2 DEF Inv, TypeOK, Delete, Touch, worldVars, SubscriptionsAssumption
  <2>4. MailOrderly'
    BY <1>3 DEF Inv, MailOrderly, Delete
  <2>. QED  BY <2>2, <2>3, <2>4 DEF Inv
<1>4. ASSUME NEW c \in Clients, NEW s \in SubIds, NEW ids \in SUBSET Elements,
             Register(c, s, ids)
      PROVE  Inv'
  <2>1. PICK admitted \in SUBSET ((ids \cap exposed) \ monitored[s]) :
            /\ monitored' = [monitored EXCEPT ![s] = @ \cup admitted]
            /\ watchers' = [e \in Elements |->
                              IF e \in ids \cap exposed \cap monitored'[s]
                              THEN watchers[e] \cup {s} ELSE watchers[e]]
    BY <1>4 DEF Register
  <2>2. TypeOK'
    BY <1>4, <2>1 DEF Inv, TypeOK, Register, Touch, slotVars, worldVars, SubscriptionsAssumption
  <2>3. WatchersAgree'
    <3>1. s \in subs /\ subs' = subs
      BY <1>4 DEF Register, Owned
    <3>. QED  BY <2>1, <3>1 DEF Inv, TypeOK, WatchersAgree
  <2>4. MailOrderly' /\ SlotIsOpen'
    BY <1>4 DEF Inv, MailOrderly, SlotIsOpen, Register, slotVars
  <2>. QED  BY <2>2, <2>3, <2>4 DEF Inv
<1>5. ASSUME NEW c \in Clients, NEW s \in SubIds, NEW ids \in SUBSET Elements,
             Unregister(c, s, ids)
      PROVE  Inv'
  <2>1. TypeOK'
    BY <1>5 DEF Inv, TypeOK, Unregister, Touch, slotVars, worldVars, SubscriptionsAssumption
  <2>2. WatchersAgree'
    BY <1>5 DEF Inv, TypeOK, WatchersAgree, Unregister
  <2>3. MailOrderly' /\ SlotIsOpen'
    BY <1>5 DEF Inv, MailOrderly, SlotIsOpen, Unregister, slotVars
  <2>. QED  BY <2>1, <2>2, <2>3 DEF Inv
<1>6. ASSUME NEW c \in Clients, NEW s \in SubIds,
             NEW ack \in {ClearAll, NoAck} \cup 1..MaxSeq, Sync(c, s, ack)
      PROVE  Inv'
  <2> DEFINE m == Synced(mail[s], ack, CurrentValues(s))
  <2>1. ack \in Int
    BY DEF ClearAll, NoAck, SubscriptionsAssumption
  <2>2. mail[s] \in Mailbox(Update) /\ Orderly(mail[s])
    BY DEF Inv, TypeOK, MailOrderly
  <2>3. CurrentValues(s) \in SUBSET Update
    BY CurrentValuesType DEF Inv
  <2>4. m \in Mailbox(Update) /\ Orderly(m)
    BY <2>1, <2>2, <2>3, SyncedOrderly
  <2>5. mail' = [mail EXCEPT ![s] = m]
    BY <1>6 DEF Sync
  <2>6. mail' \in [SubIds -> Mailbox(Update)] /\ MailOrderly'
    <3>. HIDE DEF m
    <3>. QED  BY <2>4, <2>5, MailExcept
  <2>7. TypeOK'
    BY <1>6, <2>6 DEF Inv, TypeOK, Sync, Touch, slotVars, worldVars, SubscriptionsAssumption
  <2>8. WatchersAgree' /\ SlotIsOpen'
    BY <1>6 DEF Inv, WatchersAgree, SlotIsOpen, Sync, slotVars
  <2>. QED  BY <2>6, <2>7, <2>8 DEF Inv
<1>7. ASSUME NEW c \in Clients, NEW s \in SubIds, NEW h \in Handles, StreamOpen(c, s, h)
      PROVE  Inv'
  <2>1. TypeOK'
    BY <1>7 DEF Inv, TypeOK, SlotIsOpen, StreamOpen, Touch, worldVars, SubscriptionsAssumption
  <2>2. SlotIsOpen'
    BY <1>7 DEF Inv, TypeOK, SlotIsOpen, StreamOpen
  <2>3. WatchersAgree' /\ MailOrderly'
    BY <1>7 DEF Inv, WatchersAgree, MailOrderly, StreamOpen
  <2>. QED  BY <2>1, <2>2, <2>3 DEF Inv
<1>8. ASSUME NEW s \in SubIds, NEW h \in Handles, StreamClose(s, h) PROVE Inv'
  <2>1. TypeOK'
    BY <1>8 DEF Inv, TypeOK, StreamClose, Touch, worldVars, SubscriptionsAssumption
  <2>2. SlotIsOpen'
    BY <1>8 DEF Inv, TypeOK, SlotIsOpen, StreamClose
  <2>3. WatchersAgree' /\ MailOrderly'
    BY <1>8 DEF Inv, WatchersAgree, MailOrderly, StreamClose
  <2>. QED  BY <2>1, <2>2, <2>3 DEF Inv
<1>9. ASSUME NEW s \in SubIds, Drain(s) PROVE Inv'
  <2> DEFINE m == Drained(mail[s])
  <2>1. m \in Mailbox(Update) /\ Orderly(m)
    BY DrainedOrderly DEF Inv, TypeOK
  <2>2. mail' = [mail EXCEPT ![s] = m]
    BY <1>9 DEF Drain
  <2>3. mail' \in [SubIds -> Mailbox(Update)] /\ MailOrderly'
    <3>. HIDE DEF m
    <3>. QED  BY <2>1, <2>2, MailExcept
  <2>4. TypeOK'
    BY <1>9, <2>3 DEF Inv, TypeOK, Drain, Touch, slotVars, worldVars,
                      SubscriptionsAssumption
  <2>5. WatchersAgree' /\ SlotIsOpen'
    BY <1>9 DEF Inv, WatchersAgree, SlotIsOpen, Drain, slotVars
  <2>. QED  BY <2>3, <2>4, <2>5 DEF Inv
<1>10. ASSUME NEW s \in SubIds, HandlerTouch(s) PROVE Inv'
  <2>1. TypeOK'
    BY <1>10 DEF Inv, TypeOK, HandlerTouch, Touch, slotVars, worldVars, SubscriptionsAssumption
  <2>2. WatchersAgree' /\ MailOrderly' /\ SlotIsOpen'
    BY <1>10 DEF Inv, WatchersAgree, MailOrderly, SlotIsOpen, HandlerTouch, slotVars
  <2>. QED  BY <2>1, <2>2 DEF Inv
<1>11. ASSUME NEW e \in Entities, StateChange(e) PROVE Inv'
  <2>1. /\ e \in Elements /\ version[e] \in 0..MaxVersion /\ version[e] < MaxVersion
        /\ version' = [version EXCEPT ![e] = version[e] + 1]
    BY <1>11 DEF Inv, TypeOK, Entities, StateChange
  <2>2. version'[e] \in 0..MaxVersion /\ version' \in [Entities -> 0..MaxVersion]
    BY <2>1 DEF Inv, TypeOK, SubscriptionsAssumption
  <2>3. mail' \in [SubIds -> Mailbox(Update)] /\ MailOrderly'
    <3>1. CASE UNCHANGED mail
      BY <3>1 DEF Inv, TypeOK, MailOrderly
    <3>2. CASE FanOut(e, version'[e])
      BY <2>1, <2>2, <3>2, FanOutOrderly DEF Inv
    <3>. QED  BY <1>11, <3>1, <3>2 DEF StateChange
  <2>4. TypeOK'
    BY <1>11, <2>2, <2>3 DEF Inv, TypeOK, StateChange, slotVars
  <2>5. WatchersAgree' /\ SlotIsOpen'
    BY <1>11 DEF Inv, WatchersAgree, SlotIsOpen, StateChange, slotVars
  <2>. QED  BY <2>3, <2>4, <2>5 DEF Inv
<1>12. ASSUME NEW e \in Entities, StateRemoved(e) PROVE Inv'
  BY <1>12 DEF Inv, TypeOK, WatchersAgree, MailOrderly, SlotIsOpen, StateRemoved,
               subVars, slotVars
<1>13. ASSUME NEW e \in Elements, Reindex(e) PROVE Inv'
  BY <1>13 DEF Inv, TypeOK, WatchersAgree, MailOrderly, SlotIsOpen, Reindex,
               subVars, slotVars
<1>14. ASSUME NEW f \in followUps, FollowUp(f) PROVE Inv'
  <2>1. f.element \in Elements /\ f.version \in 0..MaxVersion
    BY DEF Inv, TypeOK, SubscriptionsAssumption
  <2>2. mail' \in [SubIds -> Mailbox(Update)] /\ MailOrderly'
    <3>1. CASE UNCHANGED mail
      BY <3>1 DEF Inv, TypeOK, MailOrderly
    <3>2. CASE FanOut(f.element, f.version)
      BY <2>1, <3>2, FanOutOrderly DEF Inv
    <3>. QED  BY <1>14, <3>1, <3>2 DEF FollowUp
  <2>3. TypeOK'
    BY <1>14, <2>2 DEF Inv, TypeOK, FollowUp, slotVars, worldVars
  <2>4. WatchersAgree' /\ SlotIsOpen'
    BY <1>14 DEF Inv, WatchersAgree, SlotIsOpen, FollowUp, slotVars
  <2>. QED  BY <2>2, <2>3, <2>4 DEF Inv
<1>15. ASSUME Tick PROVE Inv'
  <2>1. TypeOK'
    BY <1>15 DEF Inv, TypeOK, Tick, slotVars, worldVars, SubscriptionsAssumption
  <2>2. WatchersAgree' /\ MailOrderly' /\ SlotIsOpen'
    BY <1>15 DEF Inv, WatchersAgree, MailOrderly, SlotIsOpen, Tick, slotVars
  <2>. QED  BY <2>1, <2>2 DEF Inv
<1>16. ASSUME Janitor PROVE Inv'
  <2>1. Expired \in SUBSET subs
    BY DEF Expired
  <2>2. /\ subs' \subseteq issued' /\ watchers' \in [Elements -> SUBSET SubIds]
        /\ stream' \in [SubIds -> Handles \cup {NoHandle}]
        /\ closed' \subseteq opened' /\ WatchersAgree' /\ SlotIsOpen'
    BY <1>16, <2>1, DropKeeps DEF Janitor
  <2>3. TypeOK' /\ MailOrderly'
    BY <1>16, <2>2 DEF Inv, TypeOK, MailOrderly, Janitor, worldVars
  <2>. QED  BY <2>2, <2>3 DEF Inv
<1>17. ASSUME Stop PROVE Inv'
  <2>1. TypeOK'
    BY <1>17 DEF Inv, TypeOK, Stop, slotVars, worldVars
  <2>2. WatchersAgree' /\ MailOrderly' /\ SlotIsOpen'
    BY <1>17 DEF Inv, WatchersAgree, MailOrderly, SlotIsOpen, Stop, slotVars
  <2>. QED  BY <2>1, <2>2 DEF Inv
<1>18. ASSUME UNCHANGED vars PROVE Inv'
  BY <1>18 DEF Inv, TypeOK, WatchersAgree, MailOrderly, SlotIsOpen, vars, subVars,
               slotVars, worldVars
<1>. QED  BY <1>1, <1>2, <1>3, <1>4, <1>5, <1>6, <1>7, <1>8, <1>9, <1>10, <1>11,
             <1>12, <1>13, <1>14, <1>15, <1>16, <1>17, <1>18
          DEF Next, Calls, Streaming, World

-----------------------------------------------------------------------------
(* The theorems.                                                           *)

\* The type invariant: what the manager keeps stays well formed.
THEOREM TypeCorrect == Spec => []TypeOK
<1>1. Inv => TypeOK
  BY DEF Inv
<1>. QED  BY InitInv, NextInv, <1>1, PTL DEF Spec

\* The two registration indexes (_watchers and the monitored dictionaries)
\* agree in every reachable state.
THEOREM IndexesAgree == Spec => []WatchersAgree
<1>1. Inv => WatchersAgree
  BY DEF Inv
<1>. QED  BY InitInv, NextInv, <1>1, PTL DEF Spec

\* Sequence numbers are consecutive in every queue, so a jump between two
\* answers means that batches were evicted.
THEOREM QueueNumbering == Spec => []NumbersContiguous
<1>1. Inv => NumbersContiguous
  BY DEF Inv, MailOrderly, Orderly, NumbersContiguous
<1>. QED  BY InitInv, NextInv, <1>1, PTL DEF Spec

\* No wake-up of a stream handler is lost: batches are waiting only while
\* data_event is set.
THEOREM NoLostWakeup == Spec => []ReadyCoversQueue
<1>1. Inv => ReadyCoversQueue
  BY DEF Inv, MailOrderly, Orderly, ReadyCoversQueue
<1>. QED  BY InitInv, NextInv, <1>1, PTL DEF Spec

\* Queues are bounded, and an unreported overflow goes with a full queue.
THEOREM OverflowMeansFull == Spec => []FlagMeansFull
<1>1. Inv => FlagMeansFull
  BY DEF Inv, MailOrderly, Orderly, FlagMeansFull
<1>. QED  BY InitInv, NextInv, <1>1, PTL DEF Spec

\* Stream slots: whoever holds one was not told to end, and nobody holds two.
THEOREM SlotOwnership == Spec => []SlotIsOpen
<1>1. Inv => SlotIsOpen
  BY DEF Inv
<1>. QED  BY InitInv, NextInv, <1>1, PTL DEF Spec

\* What a state change does to one queue, from the agreement of the indexes.
LEMMA FanOutExactStep ==
    ASSUME Inv, [Next]_vars, NEW e \in Entities, version'[e] # version[e],
           NEW s \in SubIds
    PROVE  mail'[s] = IF listening /\ s \in subs /\ e \in monitored[s] \cap exposed
                      THEN Enqueue(mail[s], {[element |-> e, version |-> version'[e]]})
                      ELSE mail[s]
<1>1. PICK x \in Entities : StateChange(x)
  BY DEF Next, Calls, Streaming, World, vars, subVars, slotVars, worldVars, Create,
         TouchOnly, Delete, Register, Unregister, Sync, StreamOpen, StreamClose,
         Drain, HandlerTouch, StateRemoved, Reindex, FollowUp, Tick, Janitor, Stop
<1>2. x = e
  BY <1>1 DEF Inv, TypeOK, StateChange
<1>3. e \in Elements /\ mail \in [SubIds -> Mailbox(Update)]
  BY DEF Inv, TypeOK, Entities
<1>4. s \in watchers[e] \cap subs <=> s \in subs /\ e \in monitored[s]
  BY <1>3 DEF Inv, WatchersAgree
<1>5. CASE listening /\ watchers[e] # {} /\ e \in exposed
  BY <1>1, <1>2, <1>4, <1>5 DEF StateChange, FanOut
<1>6. CASE ~(listening /\ watchers[e] # {} /\ e \in exposed)
  <2>1. mail' = mail
    BY <1>1, <1>2, <1>6 DEF StateChange
  <2>2. ~(listening /\ s \in subs /\ e \in monitored[s] \cap exposed)
    BY <1>4, <1>6
  <2>. QED  BY <2>1, <2>2
<1>. QED  BY <1>5, <1>6

\* Every state change is delivered to exactly the subscriptions that monitor
\* the entity (_fan_out), and to each of them once.
THEOREM FanOutReachesExactly == Spec => FanOutExact
<1>1. Inv /\ [Next]_vars =>
        [\A e \in Entities : version'[e] # version[e] =>
           \A s \in SubIds :
             mail'[s] = IF listening /\ s \in subs /\ e \in monitored[s] \cap exposed
                        THEN Enqueue(mail[s], {[element |-> e, version |-> version'[e]]})
                        ELSE mail[s]]_vars
  BY FanOutExactStep
<1>. QED  BY InitInv, NextInv, <1>1, PTL DEF Spec, FanOutExact

-----------------------------------------------------------------------------
(* The limits.                                                              *)

\* LimitsHold with the finiteness that gives its cardinalities a meaning.
Counted ==
    /\ IsFiniteSet(subs)
    /\ \A s \in SubIds : IsFiniteSet(monitored[s])
    /\ LimitsHold

\* A step that creates nothing, registers nothing and opens no stream cannot
\* pass a limit.
LEMMA LimitsShrink ==
    ASSUME Counted, subs' \subseteq subs, ActiveStreams' \subseteq ActiveStreams,
           owner' = owner, \A s \in SubIds : monitored'[s] \subseteq monitored[s]
    PROVE  Counted'
<1>1. IsFiniteSet(subs') /\ Cardinality(subs') <= Cardinality(subs)
      /\ Cardinality(subs) \in Nat /\ Cardinality(subs') \in Nat
  BY FS_Subset, FS_CardinalityType DEF Counted
<1>2. ASSUME NEW c \in Clients
      PROVE  Cardinality({s \in subs' : owner'[s] = c}) <= MaxPerClient
  <2>1. IsFiniteSet(OwnedBy(c)) /\ {s \in subs' : owner'[s] = c} \subseteq OwnedBy(c)
    BY FS_Subset DEF Counted, OwnedBy
  <2>2. /\ Cardinality({s \in subs' : owner'[s] = c}) <= Cardinality(OwnedBy(c))
        /\ Cardinality({s \in subs' : owner'[s] = c}) \in Nat
        /\ Cardinality(OwnedBy(c)) \in Nat
    BY <2>1, FS_Subset, FS_CardinalityType
  <2>3. Cardinality(OwnedBy(c)) <= MaxPerClient
    BY DEF Counted, LimitsHold
  <2>. QED  BY <2>2, <2>3, SubscriptionsAssumption DEF SubscriptionsAssumption
<1>3. ASSUME NEW s \in SubIds
      PROVE  IsFiniteSet(monitored'[s]) /\ Cardinality(monitored'[s]) <= MaxMonitored
  <2>1. /\ IsFiniteSet(monitored'[s]) /\ Cardinality(monitored'[s]) <= Cardinality(monitored[s])
        /\ Cardinality(monitored'[s]) \in Nat /\ Cardinality(monitored[s]) \in Nat
    BY FS_Subset, FS_CardinalityType DEF Counted
  <2>2. Cardinality(monitored[s]) <= MaxMonitored
    BY DEF Counted, LimitsHold
  <2>. QED  BY <2>1, <2>2, SubscriptionsAssumption DEF SubscriptionsAssumption
<1>4. Cardinality(ActiveStreams') <= MaxStreams
  <2>1. IsFiniteSet(ActiveStreams)
    BY FS_Subset DEF Counted, ActiveStreams
  <2>2. /\ Cardinality(ActiveStreams') <= Cardinality(ActiveStreams)
        /\ Cardinality(ActiveStreams') \in Nat /\ Cardinality(ActiveStreams) \in Nat
    BY <2>1, FS_Subset, FS_CardinalityType
  <2>3. Cardinality(ActiveStreams) <= MaxStreams
    BY DEF Counted, LimitsHold
  <2>. QED  BY <2>2, <2>3, SubscriptionsAssumption DEF SubscriptionsAssumption
<1>5. Cardinality(subs') <= MaxTotal
  BY <1>1, SubscriptionsAssumption DEF Counted, LimitsHold, SubscriptionsAssumption
<1>. QED  BY <1>1, <1>2, <1>3, <1>4, <1>5 DEF Counted, LimitsHold, OwnedBy

\* create checks both of its limits before it adds to them.
LEMMA CreateCounted ==
    ASSUME TypeOK, Counted, NEW c \in Clients, NEW s \in SubIds, Create(c, s)
    PROVE  Counted'
<1>1. /\ s \notin subs /\ subs' = subs \cup {s}
      /\ owner' = [owner EXCEPT ![s] = c] /\ monitored' = [monitored EXCEPT ![s] = {}]
      /\ stream' = [stream EXCEPT ![s] = NoHandle]
      /\ Cardinality(subs) < MaxTotal /\ Cardinality(OwnedBy(c)) < MaxPerClient
  BY DEF Create, TypeOK
<1>2. IsFiniteSet(subs') /\ Cardinality(subs') <= MaxTotal
  <2>1. IsFiniteSet(subs') /\ Cardinality(subs') = Cardinality(subs) + 1
        /\ Cardinality(subs) \in Nat
    BY <1>1, FS_AddElement, FS_CardinalityType DEF Counted
  <2>. QED  BY <1>1, <2>1, SubscriptionsAssumption DEF SubscriptionsAssumption
<1>3. ASSUME NEW d \in Clients
      PROVE  Cardinality({t \in subs' : owner'[t] = d}) <= MaxPerClient
  <2>1. IsFiniteSet(OwnedBy(d)) /\ Cardinality(OwnedBy(d)) \in Nat
    BY FS_Subset, FS_CardinalityType DEF Counted, OwnedBy
  <2>2. CASE d = c
    <3>1. {t \in subs' : owner'[t] = d} = OwnedBy(c) \cup {s} /\ s \notin OwnedBy(c)
      BY <1>1, <2>2 DEF OwnedBy, TypeOK
    <3>2. Cardinality(OwnedBy(c) \cup {s}) = Cardinality(OwnedBy(c)) + 1
      BY <2>1, <2>2, <3>1, FS_AddElement
    <3>3. Cardinality({t \in subs' : owner'[t] = d}) = Cardinality(OwnedBy(c)) + 1
      BY <3>1, <3>2, Zenon
    <3>4. Cardinality(OwnedBy(c)) \in Nat
      BY <2>1, <2>2
    <3>5. Cardinality(OwnedBy(c)) + 1 <= MaxPerClient
      BY <1>1, <3>4, SubscriptionsAssumption DEF SubscriptionsAssumption
    <3>. QED  BY <3>3, <3>5, Zenon
  <2>3. CASE d # c
    <3>1. {t \in subs' : owner'[t] = d} = OwnedBy(d)
      BY <1>1, <2>3 DEF OwnedBy, TypeOK
    <3>. QED  BY <3>1 DEF Counted, LimitsHold
  <2>. QED  BY <2>2, <2>3
<1>4. ASSUME NEW t \in SubIds
      PROVE  IsFiniteSet(monitored'[t]) /\ Cardinality(monitored'[t]) <= MaxMonitored
  <2>1. monitored'[t] = IF t = s THEN {} ELSE monitored[t]
    BY <1>1 DEF TypeOK
  <2>. QED  BY <2>1, FS_EmptySet, SubscriptionsAssumption
            DEF Counted, LimitsHold, SubscriptionsAssumption
<1>5. {t \in subs' : stream'[t] # NoHandle} = ActiveStreams
  BY <1>1 DEF ActiveStreams, TypeOK
<1>. QED  BY <1>2, <1>3, <1>4, <1>5 DEF Counted, LimitsHold, OwnedBy, ActiveStreams

\* register admits no more than the limit leaves room for.
LEMMA RegisterCounted ==
    ASSUME TypeOK, Counted, NEW c \in Clients, NEW s \in SubIds,
           NEW ids \in SUBSET Elements, Register(c, s, ids)
    PROVE  Counted'
<1> DEFINE new  == (ids \cap exposed) \ monitored[s]
           room == MaxMonitored - Cardinality(monitored[s])
<1>1. PICK admitted \in SUBSET new :
         /\ Cardinality(admitted) =
               IF Cardinality(new) <= room THEN Cardinality(new) ELSE room
         /\ monitored' = [monitored EXCEPT ![s] = @ \cup admitted]
  BY DEF Register
<1>2. IsFiniteSet(new) /\ IsFiniteSet(admitted) /\ admitted \cap monitored[s] = {}
  BY FS_Subset, SubscriptionsAssumption DEF SubscriptionsAssumption
<1>3. /\ Cardinality(monitored[s]) \in Nat /\ Cardinality(monitored[s]) <= MaxMonitored
      /\ IsFiniteSet(monitored[s])
      /\ Cardinality(admitted) \in Nat /\ Cardinality(new) \in Nat
  BY <1>2, FS_CardinalityType DEF Counted, LimitsHold
<1>4. Cardinality(admitted) <= room
  <2>. HIDE DEF new
  <2>. QED  BY <1>1, <1>3, SubscriptionsAssumption DEF SubscriptionsAssumption
<1>5. /\ IsFiniteSet(monitored[s] \cup admitted)
      /\ Cardinality(monitored[s] \cup admitted) =
            Cardinality(monitored[s]) + Cardinality(admitted) - 0
  <2>1. Cardinality(monitored[s] \cap admitted) = 0
    BY <1>2, FS_EmptySet
  <2>. QED  BY <1>2, <1>3, <2>1, FS_Union
<1>6. Cardinality(monitored[s] \cup admitted) <= MaxMonitored
  BY <1>3, <1>4, <1>5, SubscriptionsAssumption DEF SubscriptionsAssumption
<1>7. \A t \in SubIds : monitored'[t] = IF t = s THEN monitored[s] \cup admitted
                                                 ELSE monitored[t]
  BY <1>1 DEF TypeOK
<1>8. subs' = subs /\ owner' = owner /\ stream' = stream
  BY DEF Register, slotVars
<1>. QED  BY <1>5, <1>6, <1>7, <1>8 DEF Counted, LimitsHold, OwnedBy, ActiveStreams

\* stream_open adds a stream only below the limit; a takeover adds none.
LEMMA StreamOpenCounted ==
    ASSUME TypeOK, Counted, NEW c \in Clients, NEW s \in SubIds, NEW h \in Handles,
           StreamOpen(c, s, h)
    PROVE  Counted'
<1>1. /\ s \in subs /\ subs' = subs /\ owner' = owner /\ monitored' = monitored
      /\ stream' = [stream EXCEPT ![s] = h]
      /\ s \in ActiveStreams \/ Cardinality(ActiveStreams) < MaxStreams
  BY DEF StreamOpen, Owned, ActiveStreams
<1>2. ActiveStreams' = ActiveStreams \cup {s}
  BY <1>1, SubscriptionsAssumption DEF ActiveStreams, TypeOK, SubscriptionsAssumption
<1>3. IsFiniteSet(ActiveStreams) /\ Cardinality(ActiveStreams) \in Nat
      /\ Cardinality(ActiveStreams) <= MaxStreams
  BY FS_Subset, FS_CardinalityType DEF Counted, ActiveStreams, LimitsHold
<1>4. Cardinality(ActiveStreams \cup {s}) =
         IF s \in ActiveStreams THEN Cardinality(ActiveStreams)
                                ELSE Cardinality(ActiveStreams) + 1
  BY <1>3, FS_AddElement
<1>5. Cardinality(ActiveStreams') <= MaxStreams
  BY <1>1, <1>2, <1>3, <1>4, SubscriptionsAssumption DEF SubscriptionsAssumption
<1>. QED  BY <1>1, <1>5 DEF Counted, LimitsHold, OwnedBy

\* Every step keeps the limits.
LEMMA CountedNext == TypeOK /\ Counted /\ [Next]_vars => Counted'
<1>. SUFFICES ASSUME TypeOK, Counted, [Next]_vars PROVE Counted'
  OBVIOUS
<1>1. ASSUME NEW c \in Clients, NEW s \in SubIds, Create(c, s) PROVE Counted'
  BY <1>1, CreateCounted
<1>2. ASSUME NEW c \in Clients, NEW s \in SubIds, NEW ids \in SUBSET Elements,
             Register(c, s, ids)
      PROVE  Counted'
  BY <1>2, RegisterCounted
<1>3. ASSUME NEW c \in Clients, NEW s \in SubIds, NEW h \in Handles, StreamOpen(c, s, h)
      PROVE  Counted'
  BY <1>3, StreamOpenCounted
<1>4. ASSUME NEW D, Drop(D), owner' = owner, monitored' = monitored PROVE Counted'
  <2>1. subs' \subseteq subs /\ ActiveStreams' \subseteq ActiveStreams
    BY <1>4 DEF Drop, ActiveStreams, TypeOK
  <2>. QED  BY <1>4, <2>1, LimitsShrink
<1>5. ASSUME NEW s \in SubIds, NEW h \in Handles, StreamClose(s, h) PROVE Counted'
  <2>1. subs' = subs /\ ActiveStreams' \subseteq ActiveStreams
    BY <1>5 DEF StreamClose, ActiveStreams, TypeOK
  <2>. QED  BY <1>5, <2>1, LimitsShrink DEF StreamClose
<1>6. ASSUME Stop PROVE Counted'
  <2>1. subs' \subseteq subs /\ ActiveStreams' \subseteq ActiveStreams
    BY <1>6 DEF Stop, ActiveStreams
  <2>. QED  BY <1>6, <2>1, LimitsShrink DEF Stop
<1>7. ASSUME NEW c \in Clients, NEW s \in SubIds, NEW ids \in SUBSET Elements,
             Unregister(c, s, ids)
      PROVE  Counted'
  <2>1. subs' = subs /\ owner' = owner /\ stream' = stream
        /\ \A t \in SubIds : monitored'[t] \subseteq monitored[t]
    BY <1>7 DEF Unregister, slotVars, TypeOK
  <2>2. ActiveStreams' = ActiveStreams
    BY <2>1 DEF ActiveStreams
  <2>. QED  BY <2>1, <2>2, LimitsShrink
<1>8. ASSUME UNCHANGED <<subs, owner, monitored, stream>> PROVE Counted'
  BY <1>8 DEF Counted, LimitsHold, OwnedBy, ActiveStreams
<1>9. CASE Janitor \/ Stop \/ UNCHANGED vars
  BY <1>4, <1>6, <1>8, <1>9 DEF Janitor, vars, subVars, slotVars
<1>10. ASSUME NEW c \in Clients, Calls(c) PROVE Counted'
  BY <1>1, <1>2, <1>4, <1>7, <1>8, <1>10
     DEF Calls, TouchOnly, Delete, Sync, slotVars
<1>11. CASE Streaming
  BY <1>3, <1>5, <1>8, <1>11 DEF Streaming, Drain, HandlerTouch, slotVars
<1>12. CASE World
  BY <1>8, <1>12 DEF World, StateChange, StateRemoved, Reindex, FollowUp, Tick,
                     subVars, slotVars
<1>. QED  BY <1>9, <1>10, <1>11, <1>12 DEF Next

\* The limits on subscriptions, monitored objects and streams hold in every
\* reachable state, for whatever values they have.
THEOREM LimitsNeverPassed == Spec => []LimitsHold
<1>1. Init => Counted
  <2>. SUFFICES ASSUME Init PROVE Counted
    OBVIOUS
  <2>1. /\ subs = {} /\ \A s \in SubIds : monitored[s] = {}
        /\ ActiveStreams = {} /\ \A c \in Clients : OwnedBy(c) = {}
    BY DEF Init, ActiveStreams, OwnedBy
  <2>2. IsFiniteSet({}) /\ Cardinality({}) = 0
    BY FS_EmptySet
  <2>3. \A n \in {MaxPerClient, MaxTotal, MaxMonitored, MaxStreams} : 0 <= n
    BY SubscriptionsAssumption
  <2>4. LimitsHold
    BY <2>1, <2>2, <2>3 DEF LimitsHold
  <2>. QED  BY <2>1, <2>2, <2>4 DEF Counted
<1>2. Inv /\ Counted /\ [Next]_vars => Counted'
  BY CountedNext DEF Inv
<1>3. Counted => LimitsHold
  BY DEF Counted
<1>. QED  BY InitInv, NextInv, <1>1, <1>2, <1>3, PTL DEF Spec

-----------------------------------------------------------------------------
(* What is put in a queue, and in which order.                              *)

\* A token not handed out has an untouched queue and no stream.
Untouched == \A s \in SubIds \ issued : mail[s] = EmptyMailbox /\ stream[s] = NoHandle

LEMMA UntouchedInit == Init => Untouched
BY DEF Init, Untouched

LEMMA UntouchedNext == Inv /\ Untouched /\ [Next]_vars => Untouched'
<1>. SUFFICES ASSUME Inv, Untouched, [Next]_vars,
                     NEW s \in SubIds, s \notin issued'
              PROVE  mail'[s] = EmptyMailbox /\ stream'[s] = NoHandle
  BY DEF Untouched
<1>1. issued \subseteq issued' /\ s \notin issued /\ s \notin subs
  BY DEF Inv, TypeOK, Next, Calls, Streaming, World, vars, subVars, slotVars, Create,
         TouchOnly, Delete, Register, Unregister, Sync, StreamOpen, StreamClose, Drain,
         HandlerTouch, StateChange, StateRemoved, Reindex, FollowUp, Tick, Janitor, Stop
<1>2. mail[s] = EmptyMailbox /\ stream[s] = NoHandle
  BY <1>1 DEF Untouched
<1>3. /\ mail \in [SubIds -> Mailbox(Update)] /\ stream \in [SubIds -> Handles \cup {NoHandle}]
      /\ subs \subseteq issued
  BY DEF Inv, TypeOK
<1>. DEFINE Goal == mail'[s] = EmptyMailbox /\ stream'[s] = NoHandle
<1>4. ASSUME UNCHANGED <<mail, stream>> PROVE Goal
  BY <1>2, <1>4
<1>5. ASSUME NEW D \in SUBSET subs, Drop(D), UNCHANGED mail PROVE Goal
  BY <1>2, <1>5 DEF Drop
<1>6. ASSUME NEW t \in SubIds, NEW x, mail' = [mail EXCEPT ![t] = x], t # s, UNCHANGED stream
      PROVE  Goal
  BY <1>2, <1>3, <1>6
<1>7. ASSUME NEW c \in Clients, Calls(c) PROVE Goal
  <2>1. ASSUME NEW t \in SubIds, Create(c, t) PROVE Goal
    BY <1>1, <1>2, <1>3, <2>1 DEF Create
  <2>2. ASSUME NEW S \in SUBSET OwnedBy(c), Delete(c, S) PROVE Goal
    BY <1>5, <2>2 DEF Delete, OwnedBy
  <2>3. ASSUME NEW t \in SubIds, NEW ack, Sync(c, t, ack) PROVE Goal
    BY <1>1, <1>3, <1>6, <2>3 DEF Sync, Owned, slotVars
  <2>4. ASSUME NEW S, TouchOnly(c, S) PROVE Goal
    BY <1>4, <2>4 DEF TouchOnly, slotVars
  <2>5. ASSUME NEW t, NEW ids, Register(c, t, ids) \/ Unregister(c, t, ids) PROVE Goal
    BY <1>4, <2>5 DEF Register, Unregister, slotVars
  <2>. HIDE DEF Goal
  <2>. QED  BY <1>7, <2>1, <2>2, <2>3, <2>4, <2>5 DEF Calls
<1>8. ASSUME NEW t \in SubIds,
             \/ \E c \in Clients, h \in Handles : StreamOpen(c, t, h)
             \/ \E h \in Handles : StreamClose(t, h)
             \/ Drain(t) \/ HandlerTouch(t)
      PROVE  Goal
  <2>1. ASSUME NEW c, NEW h, StreamOpen(c, t, h) PROVE Goal
    BY <1>1, <1>2, <1>3, <2>1 DEF StreamOpen, Owned
  <2>2. ASSUME NEW h, StreamClose(t, h) PROVE Goal
    BY <1>1, <1>2, <1>3, <2>2 DEF StreamClose
  <2>3. CASE Drain(t)
    BY <1>2, <1>6, <2>3 DEF Drain, slotVars
  <2>4. CASE HandlerTouch(t)
    BY <1>4, <2>4 DEF HandlerTouch, slotVars
  <2>. HIDE DEF Goal
  <2>. QED  BY <1>8, <2>1, <2>2, <2>3, <2>4
<1>9. ASSUME World PROVE Goal
  <2>1. ASSUME NEW e, NEW v, FanOut(e, v), UNCHANGED stream PROVE Goal
    BY <1>1, <1>2, <2>1 DEF FanOut
  <2>2. ASSUME NEW e, StateChange(e) PROVE Goal
    BY <1>4, <2>1, <2>2 DEF StateChange, slotVars
  <2>3. ASSUME NEW f, FollowUp(f) PROVE Goal
    BY <1>4, <2>1, <2>3 DEF FollowUp, slotVars, subVars
  <2>4. ASSUME NEW e, StateRemoved(e) \/ Reindex(e) PROVE Goal
    BY <1>4, <2>4 DEF StateRemoved, Reindex, slotVars, subVars
  <2>5. CASE Tick
    BY <1>4, <2>5 DEF Tick, slotVars, subVars
  <2>. HIDE DEF Goal
  <2>. QED  BY <1>9, <2>2, <2>3, <2>4, <2>5 DEF World
<1>10. ASSUME Janitor \/ Stop PROVE Goal
  BY <1>2, <1>5, <1>10 DEF Janitor, Expired, Stop, slotVars
<1>11. ASSUME UNCHANGED vars PROVE Goal
  BY <1>4, <1>11 DEF vars, subVars, slotVars
<1>. HIDE DEF Goal
<1>12. Goal
  BY <1>7, <1>8, <1>9, <1>10, <1>11 DEF Next, Streaming
<1>. QED  BY <1>12 DEF Goal

\* s is sent the state v of e: it is live and monitors e, and unless a follow-up
\* is what sends it, v is the new state of e.
Reported(s, e, v) ==
    /\ s \in subs /\ e \in monitored[s]
    /\ e \in ServiceElements \/ v = version'[e]
    /\ mail'[s] = Enqueue(mail[s], {[element |-> e, version |-> v]})

\* What a step of the manager does to the queue of one subscription.
LEMMA MailSteps ==
    ASSUME Inv, Untouched, [Next]_vars, NEW s \in SubIds
    PROVE  \/ mail'[s] = mail[s]
           \/ \E e \in Elements, v \in 0..MaxVersion : Reported(s, e, v)
           \/ /\ s \in subs /\ version' = version
              /\ \E ack \in Int : mail'[s] = Synced(mail[s], ack, CurrentValues(s))
           \/ mail'[s] = Drained(mail[s])
<1>1. mail \in [SubIds -> Mailbox(Update)]
  BY DEF Inv, TypeOK
<1>2. ASSUME NEW c \in Clients, NEW t \in SubIds, Create(c, t) PROVE mail'[s] = mail[s]
  BY <1>1, <1>2 DEF Create, Untouched
<1>3. ASSUME NEW c \in Clients, NEW t \in SubIds,
             NEW ack \in {ClearAll, NoAck} \cup 1..MaxSeq, Sync(c, t, ack)
      PROVE  \/ mail'[s] = mail[s]
             \/ /\ s \in subs /\ version' = version
                /\ \E a \in Int : mail'[s] = Synced(mail[s], a, CurrentValues(s))
  <2>1. ack \in Int /\ t \in subs /\ version' = version
    BY <1>3, SubscriptionsAssumption
       DEF Sync, Owned, worldVars, ClearAll, NoAck, SubscriptionsAssumption
  <2>2. mail' = [mail EXCEPT ![t] = Synced(mail[t], ack, CurrentValues(t))]
    BY <1>3 DEF Sync
  <2>3. t = s => mail'[s] = Synced(mail[s], ack, CurrentValues(s))
    BY <1>1, <2>2
  <2>4. t # s => mail'[s] = mail[s]
    BY <1>1, <2>2
  <2>. QED  BY <2>1, <2>3, <2>4
<1>4. ASSUME NEW t \in SubIds, Drain(t)
      PROVE  mail'[s] = mail[s] \/ mail'[s] = Drained(mail[s])
  BY <1>1, <1>4 DEF Drain
<1>5. ASSUME NEW e \in Elements, NEW v \in 0..MaxVersion, FanOut(e, v),
             e \in ServiceElements \/ v = version'[e]
      PROVE  mail'[s] = mail[s] \/ Reported(s, e, v)
  BY <1>1, <1>5 DEF Inv, WatchersAgree, FanOut, Reported
<1>6. ASSUME NEW e \in Entities, StateChange(e)
      PROVE  \/ mail'[s] = mail[s]
             \/ \E x \in Elements, v \in 0..MaxVersion : Reported(s, x, v)
  <2>1. e \in Elements /\ version'[e] \in 0..MaxVersion
    BY <1>6, SubscriptionsAssumption
       DEF Inv, TypeOK, Entities, StateChange, SubscriptionsAssumption
  <2>. QED  BY <1>5, <1>6, <2>1 DEF StateChange
<1>7. ASSUME NEW f \in followUps, FollowUp(f)
      PROVE  \/ mail'[s] = mail[s]
             \/ \E x \in Elements, v \in 0..MaxVersion : Reported(s, x, v)
  <2>1. f.element \in Elements /\ f.version \in 0..MaxVersion /\ f.element \in ServiceElements
    BY SubscriptionsAssumption DEF Inv, TypeOK, SubscriptionsAssumption
  <2>. QED  BY <1>5, <1>7, <2>1 DEF FollowUp
<1>8. CASE UNCHANGED mail
  BY <1>8
<1>9. \/ UNCHANGED mail
      \/ \E c \in Clients, t \in SubIds : Create(c, t)
      \/ \E c \in Clients, t \in SubIds, ack \in {ClearAll, NoAck} \cup 1..MaxSeq :
            Sync(c, t, ack)
      \/ \E t \in SubIds : Drain(t)
      \/ \E e \in Entities : StateChange(e)
      \/ \E f \in followUps : FollowUp(f)
  BY DEF Next, Calls, Streaming, World, vars, subVars, TouchOnly, Delete, Register,
         Unregister, StreamOpen, StreamClose, HandlerTouch, StateRemoved, Reindex,
         Tick, Janitor, Stop
<1>. QED  BY <1>2, <1>3, <1>4, <1>6, <1>7, <1>8, <1>9

LEMMA OnlyMonitoredStep ==
    ASSUME Inv, Untouched, [Next]_vars, NEW s \in SubIds, mail'[s].next # mail[s].next
    PROVE  /\ s \in subs
           /\ \A u \in mail'[s].batches[Len(mail'[s].batches)].updates :
                 u.element \in monitored[s]
<1>1. mail[s] \in Mailbox(Update) /\ Contiguous(mail[s])
  BY DEF Inv, TypeOK, MailOrderly, Orderly
<1>2. ASSUME NEW e \in Elements, NEW v \in 0..MaxVersion, Reported(s, e, v)
      PROVE  /\ s \in subs
             /\ \A u \in mail'[s].batches[Len(mail'[s].batches)].updates :
                   u.element \in monitored[s]
  <2> DEFINE new == {[element |-> e, version |-> v]}
  <2>1. new \in SUBSET Update
    BY DEF Update
  <2>2. s \in subs /\ mail'[s] = Enqueue(mail[s], new) /\ \A u \in new : u.element \in monitored[s]
    BY <1>2 DEF Reported
  <2>. HIDE DEF new
  <2>3. PICK kept \in Seq(Batch(Update)) :
           mail'[s].batches = Append(kept, [seq |-> mail[s].next, updates |-> new])
    BY <1>1, <2>1, <2>2, EnqueueContents
  <2>4. mail'[s].batches[Len(mail'[s].batches)].updates = new
    BY <2>3
  <2>. QED  BY <2>2, <2>4
<1>3. ASSUME s \in subs, NEW ack \in Int, mail'[s] = Synced(mail[s], ack, CurrentValues(s))
      PROVE  \A u \in mail'[s].batches[Len(mail'[s].batches)].updates :
                   u.element \in monitored[s]
  <2> DEFINE now == CurrentValues(s)
  <2>1. now \in SUBSET Update
    BY CurrentValuesType, SubscriptionsAssumption DEF Inv
  <2>2. \A u \in now : u.element \in monitored[s]
    BY DEF CurrentValues
  <2>3. mail'[s] = Synced(mail[s], ack, now)
    BY <1>3
  <2>. HIDE DEF now
  <2>4. mail'[s].batches = <<[seq |-> mail[s].next, updates |-> now]>>
    BY <1>1, <2>1, <2>3, SyncedContents
  <2>5. mail'[s].batches[Len(mail'[s].batches)].updates = now
    BY <2>4
  <2>. QED  BY <2>2, <2>5
<1>4. mail'[s] # Drained(mail[s])
  BY DEF Drained
<1>. QED  BY <1>2, <1>3, <1>4, MailSteps

\* Nothing is queued for a subscription that is gone or does not monitor the
\* element, by state changes, late follow-ups and snapshots alike.
THEOREM QueuedIsMonitored == Spec => OnlyMonitoredQueued
<1>1. Inv /\ Untouched /\ [Next]_vars =>
        [\A s \in SubIds : mail'[s].next # mail[s].next =>
          /\ s \in subs
          /\ \A u \in mail'[s].batches[Len(mail'[s].batches)].updates :
                u.element \in monitored[s]]_vars
  BY OnlyMonitoredStep
<1>. QED  BY InitInv, NextInv, UntouchedInit, UntouchedNext, <1>1,
             PTL DEF Spec, OnlyMonitoredQueued

\* Entities whose reports come from state changes and snapshots only.
Plain == Entities \ ServiceElements

\* QueuesInOrder for one queue, with the bound on what is reported that every new
\* report needs.
InOrder(b, latest) ==
    /\ \A i \in DOMAIN b : \A u \in b[i].updates :
          u.element \in Plain => u.version <= latest[u.element]
    /\ \A i, j \in DOMAIN b : \A u \in b[i].updates, w \in b[j].updates :
          i < j /\ u.element = w.element /\ u.element \in Plain => u.version <= w.version

AllInOrder == \A s \in SubIds : InOrder(mail[s].batches, version)

\* Taking batches off the front of a queue keeps it in order.
LEMMA InOrderSuffix ==
    ASSUME NEW b \in Seq(Batch(Update)), NEW latest, InOrder(b, latest),
           NEW rest \in Seq(Batch(Update)), Suffix(rest, b)
    PROVE  InOrder(rest, latest)
<1>1. PICK k \in Nat : \A i \in DOMAIN rest : i + k \in DOMAIN b /\ rest[i] = b[i + k]
  BY DEF Suffix
<1>2. \A i, j \in DOMAIN rest : i \in Nat /\ j \in Nat /\ (i < j => i + k < j + k)
  OBVIOUS
<1>. QED  BY <1>1, <1>2 DEF InOrder

\* A last batch that reports the latest state keeps it in order.
LEMMA InOrderAppend ==
    ASSUME NEW b \in Seq(Batch(Update)), NEW latest, InOrder(b, latest), NEW n,
           NEW e \in Elements, NEW v \in Nat, e \in ServiceElements \/ v = latest[e]
    PROVE  InOrder(Append(b, [seq |-> n, updates |-> {[element |-> e, version |-> v]}]), latest)
<1> DEFINE new == [seq |-> n, updates |-> {[element |-> e, version |-> v]}]
           c == Append(b, new)
<1>1. /\ DOMAIN b = 1..Len(b) /\ Len(b) \in Nat
      /\ DOMAIN c = 1..(Len(b) + 1)
      /\ c[Len(b) + 1] = new /\ \A i \in 1..Len(b) : c[i] = b[i]
  BY DEF Batch
<1>2. \A u \in new.updates : u.element \in Plain => u.version = latest[u.element]
  BY DEF Plain
<1>3. ASSUME NEW i \in 1..(Len(b) + 1), NEW u \in c[i].updates, u.element \in Plain
      PROVE  u.version <= latest[u.element]
  <2>1. CASE i = Len(b) + 1
    <3>1. u.element = e /\ u.version = v /\ v = latest[e]
      BY <1>1, <1>3, <2>1 DEF Plain
    <3>. QED  BY <3>1
  <2>2. CASE i \in 1..Len(b)
    <3>1. u \in b[i].updates
      BY <1>1, <1>3, <2>2
    <3>. QED  BY <1>1, <1>3, <2>2, <3>1 DEF InOrder
  <2>. QED  BY <1>1, <2>1, <2>2
<1>4. ASSUME NEW i \in 1..(Len(b) + 1), NEW j \in 1..(Len(b) + 1),
             NEW u \in c[i].updates, NEW w \in c[j].updates,
             i < j, u.element = w.element, u.element \in Plain
      PROVE  u.version <= w.version
  <2>0. i \in 1..Len(b) /\ u \in b[i].updates
    BY <1>1, <1>4
  <2>1. CASE j = Len(b) + 1
    <3>1. w.version = latest[w.element]
      BY <1>1, <1>2, <1>4, <2>1
    <3>2. u.version <= latest[u.element]
      BY <1>3, <1>4
    <3>. QED  BY <1>4, <3>1, <3>2
  <2>2. CASE j \in 1..Len(b)
    <3>1. w \in b[j].updates
      BY <1>1, <1>4, <2>2
    <3>. QED  BY <1>1, <1>4, <2>0, <2>2, <3>1 DEF InOrder
  <2>. QED  BY <1>1, <2>1, <2>2
<1>. HIDE DEF c, new
<1>5. InOrder(c, latest)
  BY <1>1, <1>3, <1>4 DEF InOrder
<1>. QED  BY <1>5 DEF c, new

\* Versions only grow, so what was no newer than the entity still is.
LEMMA VersionsGrow ==
    ASSUME Inv, [Next]_vars, NEW e \in Entities
    PROVE  version[e] \in Nat /\ version'[e] \in Nat /\ version[e] <= version'[e]
<1>1. version[e] \in Nat /\ \A x \in Entities : version[x] \in Nat
  BY SubscriptionsAssumption DEF Inv, TypeOK, SubscriptionsAssumption
<1>2. ASSUME NEW x \in Entities, StateChange(x)
      PROVE  version'[e] \in Nat /\ version[e] <= version'[e]
  BY <1>1, <1>2 DEF StateChange, Inv, TypeOK
<1>3. version' = version \/ \E x \in Entities : StateChange(x)
  BY DEF Next, Calls, Streaming, World, vars, worldVars, Create, TouchOnly, Delete,
         Register, Unregister, Sync, StreamOpen, StreamClose, Drain, HandlerTouch,
         StateRemoved, Reindex, FollowUp, Tick, Janitor, Stop
<1>. QED  BY <1>1, <1>2, <1>3

\* Every step keeps the reports of every queue in order.
LEMMA AllInOrderNext == Inv /\ Untouched /\ AllInOrder /\ [Next]_vars => AllInOrder'
<1>. SUFFICES ASSUME Inv, Untouched, AllInOrder, [Next]_vars, NEW s \in SubIds
              PROVE  InOrder(mail'[s].batches, version')
  BY DEF AllInOrder
<1>1. /\ mail[s] \in Mailbox(Update) /\ Contiguous(mail[s])
      /\ mail[s].batches \in Seq(Batch(Update))
      /\ mail'[s] \in Mailbox(Update) /\ mail'[s].batches \in Seq(Batch(Update))
  <2>1. mail[s] \in Mailbox(Update) /\ Contiguous(mail[s])
    BY DEF Inv, TypeOK, MailOrderly, Orderly
  <2>2. mail'[s] \in Mailbox(Update)
    BY NextInv DEF Inv, TypeOK
  <2>. QED  BY <2>1, <2>2 DEF Mailbox
<1>2. InOrder(mail[s].batches, version')
  <2> DEFINE b == mail[s].batches
  <2>1. InOrder(b, version)
    BY DEF AllInOrder
  <2>2. ASSUME NEW i \in DOMAIN b, NEW u \in b[i].updates, u.element \in Plain
        PROVE  u.version <= version'[u.element]
    <3>1. u \in Update /\ u.element \in Entities
      <4>1. b[i] \in Batch(Update)
        BY <1>1
      <4>2. b[i].updates \subseteq Update
        <5>. HIDE DEF b
        <5>. QED  BY <4>1 DEF Batch
      <4>. QED  BY <2>2, <4>2 DEF Plain
    <3>2. u.version \in Nat
      BY <3>1, SubscriptionsAssumption DEF Update, SubscriptionsAssumption
    <3>3. u.version <= version[u.element]
      BY <2>1, <2>2 DEF InOrder
    <3>. QED  BY <3>1, <3>2, <3>3, VersionsGrow
  <2>. HIDE DEF b
  <2>. QED  BY <2>1, <2>2 DEF InOrder, b
<1>3. ASSUME NEW e \in Elements, NEW v \in 0..MaxVersion, Reported(s, e, v)
      PROVE  InOrder(mail'[s].batches, version')
  <2> DEFINE new == {[element |-> e, version |-> v]}
  <2>1. new \in SUBSET Update /\ v \in Nat
    BY SubscriptionsAssumption DEF Update, SubscriptionsAssumption
  <2>2. PICK kept \in Seq(Batch(Update)) :
           /\ Suffix(kept, mail[s].batches)
           /\ mail'[s].batches = Append(kept, [seq |-> mail[s].next, updates |-> new])
    <3>1. mail'[s] = Enqueue(mail[s], new)
      BY <1>3 DEF Reported
    <3>. HIDE DEF new
    <3>2. \E kept \in Seq(Batch(Update)) :
             /\ Suffix(kept, mail[s].batches)
             /\ Enqueue(mail[s], new).batches =
                   Append(kept, [seq |-> mail[s].next, updates |-> new])
      BY <1>1, <2>1, EnqueueContents
    <3>. QED  BY <3>1, <3>2, Zenon
  <2>3. InOrder(kept, version')
    BY <1>1, <1>2, <2>2, InOrderSuffix
  <2>4. e \in ServiceElements \/ v = version'[e]
    BY <1>3 DEF Reported
  <2>. QED  BY <2>1, <2>2, <2>3, <2>4, InOrderAppend
<1>4. ASSUME version' = version, NEW ack \in Int,
             mail'[s] = Synced(mail[s], ack, CurrentValues(s))
      PROVE  InOrder(mail'[s].batches, version')
  <2> DEFINE now == CurrentValues(s)
  <2>1. now \in SUBSET Update
    BY CurrentValuesType, SubscriptionsAssumption DEF Inv
  <2>2. CASE Suffix(mail'[s].batches, mail[s].batches)
    BY <1>1, <1>2, <2>2, InOrderSuffix
  <2>3. CASE mail'[s].batches = <<[seq |-> mail[s].next, updates |-> now]>>
    <3>1. ASSUME NEW u \in now, u.element \in Plain
          PROVE  u.version <= version'[u.element]
      <4>1. u.version = version[u.element] /\ u.element \in Entities
        BY <3>1 DEF CurrentValues, Plain, Entities
      <4>. QED  BY <1>4, <4>1, VersionsGrow
    <3>. HIDE DEF now
    <3>. QED  BY <2>3, <3>1 DEF InOrder
  <2>4. \/ Suffix(mail'[s].batches, mail[s].batches)
        \/ mail'[s].batches = <<[seq |-> mail[s].next, updates |-> now]>>
    <3>1. mail'[s] = Synced(mail[s], ack, now)
      BY <1>4
    <3>. HIDE DEF now
    <3>. QED  BY <1>1, <2>1, <3>1, SyncedContents
  <2>. QED  BY <2>2, <2>3, <2>4
<1>5. CASE mail'[s] = Drained(mail[s])
  BY <1>5 DEF Drained, InOrder
<1>6. CASE mail'[s] = mail[s]
  BY <1>2, <1>6
<1>. QED  BY <1>3, <1>4, <1>5, <1>6, MailSteps

\* A queue never reports the state of an entity after a later one, and never one
\* the entity has not had.
THEOREM ReportsInOrder == Spec => []QueuesInOrder
<1>1. Init => AllInOrder
  BY DEF Init, AllInOrder, InOrder, EmptyMailbox
<1>2. AllInOrder => QueuesInOrder
  <2>. SUFFICES ASSUME AllInOrder, NEW s \in SubIds,
                       NEW i \in DOMAIN mail[s].batches, NEW j \in DOMAIN mail[s].batches,
                       NEW u \in mail[s].batches[i].updates,
                       NEW w \in mail[s].batches[j].updates,
                       i < j, u.element = w.element, u.element \in Plain
                PROVE  u.version <= w.version /\ w.version <= version[w.element]
    BY DEF QueuesInOrder, Plain
  <2>. QED  BY DEF AllInOrder, InOrder
<1>. QED  BY InitInv, NextInv, UntouchedInit, UntouchedNext, AllInOrderNext, <1>1, <1>2,
             PTL DEF Spec

-----------------------------------------------------------------------------
(* Every subscription is a channel of numbered updates: the refinement of   *)
(* UpdateChannels.  The queue operators map to the steps of a channel; the  *)
(* manager's actions then do, by what MailSteps says a step can do to the   *)
(* queue of a subscription.                                                 *)

\* In an orderly mailbox the oldest number follows from the length.
LEMMA OldestNumber ==
    ASSUME NEW m \in Mailbox(Update), Orderly(m)
    PROVE  /\ ChannelOf(m).oldest = m.next - Len(m.batches)
           /\ m.next \in Nat /\ Len(m.batches) \in Nat /\ m.overflow \in BOOLEAN
<1>1. m.batches \in Seq(Batch(Update)) /\ m.next \in Nat /\ m.overflow \in BOOLEAN
      /\ Len(m.batches) \in Nat
  BY DEF Mailbox
<1>2. CASE m.batches = <<>>
  BY <1>1, <1>2 DEF ChannelOf
<1>3. CASE m.batches # <<>>
  <2>1. 1 \in DOMAIN m.batches
    BY <1>1, <1>3
  <2>2. m.batches[1].seq = m.next - Len(m.batches) + 1 - 1
    BY <2>1 DEF Orderly, Contiguous
  <2>. QED  BY <1>1, <1>3, <2>2 DEF ChannelOf
<1>. QED  BY <1>1, <1>2, <1>3

\* _enqueue is a Put.
LEMMA EnqueueIsPut ==
    ASSUME NEW m \in Mailbox(Update), Orderly(m), NEW u \in SUBSET Update
    PROVE  ChannelOf(Enqueue(m, u)) = Channel!Put(ChannelOf(m))
<1> DEFINE e == Enqueue(m, u)
<1>1. e \in Mailbox(Update) /\ Orderly(e)
  BY EnqueueType, EnqueueOrderly
<1>2. /\ ChannelOf(m).oldest = m.next - Len(m.batches)
      /\ ChannelOf(e).oldest = e.next - Len(e.batches)
      /\ m.next \in Nat /\ Len(m.batches) \in Nat /\ m.batches \in Seq(Batch(Update))
      /\ Len(m.batches) <= MaxQueued
  <2>. HIDE DEF e
  <2>. QED  BY <1>1, OldestNumber DEF Mailbox, Orderly
<1>3. /\ e.next = m.next + 1 /\ e.overflow = (m.overflow \/ Full(m))
      /\ Len(e.batches) = IF Full(m) THEN Len(m.batches) ELSE Len(m.batches) + 1
  BY <1>2, MaxQueuedAssumption DEF Enqueue, Full
<1>4. Full(m) <=> ChannelOf(m).next - ChannelOf(m).oldest >= MaxQueued
  BY <1>2, MaxQueuedAssumption DEF Full, ChannelOf
<1>5. /\ ChannelOf(e) = [next |-> e.next, oldest |-> ChannelOf(e).oldest, owed |-> e.overflow]
      /\ ChannelOf(m).next = m.next /\ ChannelOf(m).owed = m.overflow
  BY DEF ChannelOf
<1>6. e.next - Len(e.batches) = IF Full(m) THEN ChannelOf(m).oldest + 1 ELSE ChannelOf(m).oldest
  BY <1>2, <1>3
<1>. HIDE DEF e
<1>7. CASE Full(m)
  <2>1. e.overflow = TRUE /\ e.next = ChannelOf(m).next + 1
        /\ ChannelOf(e).oldest = ChannelOf(m).oldest + 1
    BY <1>2, <1>3, <1>5, <1>6, <1>7
  <2>2. ChannelOf(e) =
          [next |-> ChannelOf(m).next + 1, oldest |-> ChannelOf(m).oldest + 1, owed |-> TRUE]
    BY <1>5, <2>1
  <2>3. Channel!Put(ChannelOf(m)) =
          [next |-> ChannelOf(m).next + 1, oldest |-> ChannelOf(m).oldest + 1, owed |-> TRUE]
    BY <1>4, <1>7 DEF Channel!Put
  <2>. QED  BY <2>2, <2>3 DEF e
<1>8. CASE ~Full(m)
  <2>1. e.overflow = m.overflow /\ e.next = ChannelOf(m).next + 1
        /\ ChannelOf(e).oldest = ChannelOf(m).oldest
    <3>1. m.overflow \in BOOLEAN /\ e.overflow = (m.overflow \/ FALSE)
      BY <1>3, <1>8, OldestNumber
    <3>. QED  BY <1>2, <1>3, <1>5, <1>6, <1>8, <3>1
  <2>2. ChannelOf(e) =
          [next |-> ChannelOf(m).next + 1, oldest |-> ChannelOf(m).oldest,
           owed |-> ChannelOf(m).owed]
    BY <1>5, <2>1
  <2>3. Channel!Put(ChannelOf(m)) =
          [next |-> ChannelOf(m).next + 1, oldest |-> ChannelOf(m).oldest,
           owed |-> ChannelOf(m).owed]
    BY <1>2, <1>4, <1>5, <1>8, OldestNumber DEF Channel!Put
  <2>. QED  BY <2>2, <2>3 DEF e
<1>. QED  BY <1>7, <1>8

\* An acknowledgement leaves the numbering alone and takes the oldest.
LEMMA AckedOldest ==
    ASSUME NEW m \in Mailbox(Update), Orderly(m), NEW n \in Int
    PROVE  LET a == Acked(m, n) IN
           /\ a.next = m.next
           /\ ChannelOf(a).oldest \in ChannelOf(m).oldest..m.next
<1> DEFINE a == Acked(m, n)
<1>1. /\ a \in Mailbox(Update) /\ a.next = m.next /\ Contiguous(a)
      /\ a.batches \in Seq(Batch(Update)) /\ Len(a.batches) \in Nat
  <2>1. a \in Mailbox(Update) /\ a.next = m.next /\ Contiguous(a)
    BY AckedOrderly
  <2>. HIDE DEF a
  <2>. QED  BY <2>1 DEF Mailbox
<1>2. m.next \in Nat /\ Len(m.batches) \in Nat /\ m.batches \in Seq(Batch(Update))
      /\ ChannelOf(m).oldest = m.next - Len(m.batches)
  BY OldestNumber DEF Mailbox
<1>3. Len(a.batches) <= Len(m.batches)
  <2>1. CASE n = ClearAll
    BY <1>2, <2>1 DEF Acked, Holding
  <2>2. CASE n # ClearAll
    <3> DEFINE k == AckedCount(m.batches, n)
    <3>1. k \in 0..Len(m.batches)
      BY AckedCountProperty DEF Orderly
    <3>2. a.batches = SubSeq(m.batches, k + 1, Len(m.batches))
      BY <2>2 DEF Acked, Holding
    <3>. HIDE DEF k, a
    <3>. QED  BY <1>2, <3>1, <3>2
  <2>. QED  BY <2>1, <2>2
<1>4. ChannelOf(a).oldest = a.next - Len(a.batches)
  <2>. HIDE DEF a
  <2>1. a.batches # <<>> => 1 \in DOMAIN a.batches
    BY <1>1
  <2>. QED  BY <1>1, <1>2, <2>1 DEF ChannelOf, Contiguous
<1>. HIDE DEF a
<1>5. a.next - Len(a.batches) \in (m.next - Len(m.batches))..m.next
  BY <1>1, <1>2, <1>3
<1>. QED  BY <1>1, <1>2, <1>4, <1>5 DEF a

\* sync is a Take, or a Take of everything with a Put.
LEMMA SyncedIsStep ==
    ASSUME NEW m \in Mailbox(Update), Orderly(m), NEW n \in Int,
           NEW current \in SUBSET Update
    PROVE  ChannelOf(Synced(m, n, current)) \in Channel!Steps(ChannelOf(m))
<1> DEFINE a == Acked(m, n)
           cm == ChannelOf(m)
<1>1. /\ a \in Mailbox(Update) /\ a.next = m.next /\ Len(a.batches) <= MaxQueued
      /\ m.next \in Nat
  BY AckedOrderly, OldestNumber
<1>2. ChannelOf(a).oldest \in cm.oldest..cm.next /\ cm.next = m.next
  BY AckedOldest DEF ChannelOf
<1>3. CASE ~(a.batches = <<>> /\ current # {})
  <2>1. Synced(m, n, current) = Holding(a, a.batches, FALSE)
    BY <1>3 DEF Synced
  <2>2. ChannelOf(Synced(m, n, current)) = Channel!Take(cm, ChannelOf(a).oldest)
    BY <1>1, <1>2, <2>1 DEF Holding, ChannelOf, Channel!Take
  <2>. QED  BY <1>2, <2>2 DEF Channel!Steps
<1>4. CASE a.batches = <<>> /\ current # {}
  <2>1. Enqueue(a, current).batches = <<[seq |-> m.next, updates |-> current]>>
        /\ Enqueue(a, current).next = m.next + 1
    BY <1>1, <1>4, MaxQueuedAssumption DEF Enqueue, Full
  <2>2. ChannelOf(Synced(m, n, current)) =
          [next |-> m.next + 1, oldest |-> m.next, owed |-> FALSE]
    <3> DEFINE f == Enqueue(a, current)
               r == Synced(m, n, current)
    <3>1. r = Holding(f, f.batches, FALSE)
      BY <1>4 DEF Synced
    <3>2. r.next = f.next /\ r.batches = f.batches /\ r.overflow = FALSE
      BY <3>1 DEF Holding
    <3>3. r.batches # <<>> /\ r.batches[1].seq = m.next /\ r.next = m.next + 1
      BY <2>1, <3>2
    <3>. HIDE DEF f, r
    <3>. QED  BY <3>2, <3>3 DEF r, ChannelOf
  <2>3. Channel!Put(Channel!Take(cm, cm.next)) =
          [next |-> m.next + 1, oldest |-> m.next, owed |-> FALSE]
    <3> DEFINE t == Channel!Take(cm, cm.next)
    <3>1. t.next = m.next /\ t.oldest = m.next /\ t.owed = FALSE
      BY <1>2 DEF Channel!Take
    <3>2. ~(t.next - t.oldest >= MaxQueued)
      BY <1>1, <3>1, MaxQueuedAssumption
    <3>. HIDE DEF t
    <3>3. Channel!Put(t) = [next |-> t.next + 1, oldest |-> t.oldest, owed |-> t.owed]
      BY <3>1, <3>2 DEF Channel!Put
    <3>. QED  BY <3>1, <3>3 DEF t
  <2>. QED  BY <2>2, <2>3 DEF Channel!Steps
<1>. QED  BY <1>3, <1>4

\* drain is a Take of everything.
LEMMA DrainedIsStep ==
    ASSUME NEW m \in Mailbox(Update), Orderly(m)
    PROVE  ChannelOf(Drained(m)) \in Channel!Steps(ChannelOf(m))
<1>1. /\ m.next \in Nat /\ Len(m.batches) \in Nat
      /\ ChannelOf(m).oldest = m.next - Len(m.batches) /\ ChannelOf(m).next = m.next
  BY OldestNumber DEF ChannelOf
<1>2. ChannelOf(Drained(m)) = Channel!Take(ChannelOf(m), ChannelOf(m).next)
  BY <1>1 DEF Drained, ChannelOf, Channel!Take
<1>3. ChannelOf(m).next \in ChannelOf(m).oldest..ChannelOf(m).next
  BY <1>1
<1>. QED  BY <1>2, <1>3 DEF Channel!Steps

\* Whatever the manager does, to a subscription it is a step of its channel.
LEMMA ChannelStep ==
    ASSUME Inv, Untouched, [Next]_vars, NEW s \in SubIds
    PROVE  ChannelOf(mail'[s]) \in Channel!Steps(ChannelOf(mail[s]))
<1>1. mail[s] \in Mailbox(Update) /\ Orderly(mail[s])
  BY DEF Inv, TypeOK, MailOrderly
<1>2. CASE mail'[s] = mail[s]
  BY <1>2 DEF Channel!Steps
<1>3. ASSUME NEW e \in Elements, NEW v \in 0..MaxVersion, Reported(s, e, v)
      PROVE  ChannelOf(mail'[s]) \in Channel!Steps(ChannelOf(mail[s]))
  <2>1. {[element |-> e, version |-> v]} \in SUBSET Update
    BY DEF Update
  <2>2. mail'[s] = Enqueue(mail[s], {[element |-> e, version |-> v]})
    BY <1>3 DEF Reported
  <2>3. ChannelOf(mail'[s]) = Channel!Put(ChannelOf(mail[s]))
    BY <1>1, <2>1, <2>2, EnqueueIsPut
  <2>. QED  BY <2>3 DEF Channel!Steps
<1>4. ASSUME NEW ack \in Int, mail'[s] = Synced(mail[s], ack, CurrentValues(s))
      PROVE  ChannelOf(mail'[s]) \in Channel!Steps(ChannelOf(mail[s]))
  <2>1. CurrentValues(s) \in SUBSET Update
    BY CurrentValuesType, SubscriptionsAssumption DEF Inv
  <2>. QED  BY <1>1, <1>4, <2>1, SyncedIsStep
<1>5. CASE mail'[s] = Drained(mail[s])
  BY <1>1, <1>5, DrainedIsStep
<1>. QED  BY <1>2, <1>3, <1>4, <1>5, MailSteps

\* Every step of the manager is a step of the channels.
LEMMA ChannelNext == Inv /\ Untouched /\ [Next]_vars => [Channel!Next]_channels
BY ChannelStep DEF Channel!Next, channels

\* The subscription manager implements the channels: numbered updates, loss only of
\* the oldest, only when full, and always owed to the reader.
THEOREM SubscriptionsAreChannels == Spec => ChannelSpec
<1>1. Init => Channel!Init
  BY DEF Init, channels, Channel!Init, Channel!Fresh, ChannelOf, EmptyMailbox
<1>. QED  BY InitInv, NextInv, UntouchedInit, UntouchedNext, ChannelNext, <1>1,
             PTL DEF Spec, ChannelSpec, Channel!Spec

-----------------------------------------------------------------------------
(* The handlers' bookkeeping, and the manager under them.                   *)

\* A handle has a coroutine, and a subscription, exactly when stream_open made it.
HandlersKnown ==
    \A h \in Handles :
        IF h \in opened THEN pc[h] # "none" /\ target[h] \in issued
                        ELSE pc[h] = "none" /\ out[h] = <<>> /\ sent[h] = <<>>

\* What was drained is held only while it is being written.
OutIsBeingWritten == \A h \in Handles : out[h] # <<>> <=> pc[h] = "writing"

HandlerInv == Inv /\ Untouched /\ HandlerTypeOK /\ HandlersKnown /\ OutIsBeingWritten

LEMMA HandlerInit == SseInit => HandlerInv
<1>. SUFFICES ASSUME SseInit PROVE HandlerInv
  OBVIOUS
<1>1. Inv /\ Untouched
  BY InitInv, UntouchedInit DEF SseInit
<1>2. target \in [opened -> SubIds]
  <2>1. opened = {} /\ target = <<>>
    BY DEF SseInit, Init
  <2>2. <<>> \in [{} -> SubIds]
    OBVIOUS
  <2>. QED  BY <2>1, <2>2
<1>3. <<>> \in Seq(Batch(Update)) /\ <<>> \in Seq(Nat \ {0})
  OBVIOUS
<1>. QED  BY <1>1, <1>2, <1>3
          DEF SseInit, Init, HandlerInv, HandlerTypeOK, HandlersKnown, OutIsBeingWritten, Inv

\* A running handler was opened, for a subscription.
LEMMA RunningIsOpened ==
    ASSUME HandlerInv, NEW h \in Handles, pc[h] \in Awaits
    PROVE  h \in opened /\ target[h] \in SubIds /\ target[h] \in issued
BY DEF HandlerInv, HandlersKnown, HandlerTypeOK, Awaits

\* The top of the loop as the manager sees it: a drain, or nothing.
LEMMA TopOfLoopManager ==
    ASSUME HandlerInv, NEW h \in Handles, pc[h] \in Awaits, TopOfLoop(h)
    PROVE  [Next]_vars
BY RunningIsOpened DEF TopOfLoop, Next, Streaming

\* Every step of the composition is a step of the manager, or none of its business.
LEMMA ManagerStep == HandlerInv /\ [SseNext]_sseVars => [Next]_vars
<1>. SUFFICES ASSUME HandlerInv, [SseNext]_sseVars PROVE [Next]_vars
  OBVIOUS
<1>1. ASSUME NEW c \in Clients, NEW s \in SubIds, NEW h \in Handles, Open(c, s, h)
      PROVE  [Next]_vars
  BY <1>1 DEF Open, Next, Streaming
<1>2. ASSUME NEW h \in Handles, Prepared(h) \/ Wake(h) \/ Beaten(h) PROVE [Next]_vars
  BY <1>2, TopOfLoopManager DEF Prepared, Wake, Beaten, Awaits
<1>3. ASSUME NEW h \in Handles, PrepareFails(h) \/ HeartbeatDue(h) \/ Disconnect(h)
      PROVE  [Next]_vars
  BY <1>3 DEF PrepareFails, HeartbeatDue, Disconnect
<1>4. ASSUME NEW h \in Handles, Written(h) PROVE [Next]_vars
  <2>1. target[h] \in SubIds
    BY <1>4, RunningIsOpened DEF Written, Awaits
  <2>. QED  BY <1>4, <2>1 DEF Written, Next, Streaming
<1>5. ASSUME NEW h \in Handles, WriteFails(h) \/ Ended(h) PROVE [Next]_vars
  <2>1. target[h] \in SubIds
    BY <1>5, RunningIsOpened DEF WriteFails, Ended, Awaits
  <2>. QED  BY <1>5, <2>1 DEF WriteFails, Ended, Next, Streaming
<1>6. CASE Elsewhere
  BY <1>6 DEF Elsewhere, Next
<1>7. CASE UNCHANGED sseVars
  BY <1>7 DEF sseVars
<1>. QED  BY <1>1, <1>2, <1>3, <1>4, <1>5, <1>6, <1>7 DEF SseNext, Handler

\* The manager's steps create no handles and unlearn no tokens.
LEMMA IssuedGrows ==
    ASSUME Inv, [Next]_vars
    PROVE  issued \subseteq issued' /\ opened \subseteq opened'
BY DEF Inv, TypeOK, Next, Calls, Streaming, World, vars, subVars, slotVars, Create,
       TouchOnly, Delete, Register, Unregister, Sync, StreamOpen, StreamClose, Drain,
       HandlerTouch, StateChange, StateRemoved, Reindex, FollowUp, Tick, Janitor, Stop

LEMMA OpenedStays ==
    ASSUME \/ \E c \in Clients : Calls(c)
           \/ World \/ Janitor \/ Stop
           \/ \E s \in SubIds, h \in Handles : StreamClose(s, h)
           \/ \E s : Drain(s) \/ HandlerTouch(s)
           \/ UNCHANGED vars
    PROVE  opened' = opened
BY DEF Calls, World, vars, subVars, slotVars, Create, TouchOnly, Delete, Register,
       Unregister, Sync, StreamClose, Drain, HandlerTouch, StateChange, StateRemoved,
       Reindex, FollowUp, Tick, Janitor, Stop

\* The top of the loop keeps the bookkeeping.
LEMMA TopOfLoopBooks ==
    ASSUME HandlerInv, NEW h \in Handles, pc[h] \in {"preparing", "waiting", "beating"},
           TopOfLoop(h)
    PROVE  /\ HandlerTypeOK' /\ OutIsBeingWritten'
           /\ opened' = opened /\ target' = target /\ sent' = sent
           /\ \A g \in Handles : g # h => pc'[g] = pc[g] /\ out'[g] = out[g]
           /\ h \in opened /\ pc'[h] # "none"
<1>1. h \in opened /\ target[h] \in SubIds /\ out[h] = <<>>
  BY RunningIsOpened DEF Awaits, HandlerInv, OutIsBeingWritten
<1>2. TypeOK'
  BY TopOfLoopManager, NextInv DEF Awaits, HandlerInv, Inv
<1>3. mail[target[h]].batches \in Seq(Batch(Update))
  BY <1>1 DEF HandlerInv, Inv, TypeOK, Mailbox
<1>4. CASE h \in closed \cup gone
  <2>1. /\ pc' = [pc EXCEPT ![h] = "ending"]
        /\ opened' = opened /\ target' = target /\ out' = out /\ gone' = gone /\ sent' = sent
    BY <1>4 DEF TopOfLoop, Goto, vars, slotVars
  <2>2. HandlerTypeOK'
    BY <1>2, <2>1 DEF HandlerInv, HandlerTypeOK, Awaits
  <2>3. OutIsBeingWritten'
    BY <1>1, <2>1 DEF HandlerInv, HandlerTypeOK, OutIsBeingWritten
  <2>. QED  BY <1>1, <2>1, <2>2, <2>3 DEF HandlerInv, HandlerTypeOK
<1>5. CASE h \notin closed \cup gone
  <2> DEFINE b == mail[target[h]].batches
  <2>1. /\ pc' = [pc EXCEPT ![h] = IF b = <<>> THEN "waiting" ELSE "writing"]
        /\ out' = [out EXCEPT ![h] = b]
        /\ opened' = opened /\ target' = target /\ gone' = gone /\ sent' = sent
    BY <1>5 DEF TopOfLoop, Goto, Drain, slotVars
  <2>. HIDE DEF b
  <2>2. HandlerTypeOK'
    BY <1>2, <1>3, <2>1 DEF HandlerInv, HandlerTypeOK, Awaits, b
  <2>3. OutIsBeingWritten'
    BY <1>1, <2>1 DEF HandlerInv, HandlerTypeOK, OutIsBeingWritten
  <2>. QED  BY <1>1, <2>1, <2>2, <2>3 DEF HandlerInv, HandlerTypeOK
<1>. QED  BY <1>4, <1>5

LEMMA HandlerInvNext == HandlerInv /\ [SseNext]_sseVars => HandlerInv'
<1>. SUFFICES ASSUME HandlerInv, [SseNext]_sseVars PROVE HandlerInv'
  OBVIOUS
<1>0. /\ Inv' /\ Untouched' /\ TypeOK' /\ issued \subseteq issued'
  BY ManagerStep, NextInv, UntouchedNext, IssuedGrows DEF HandlerInv, Inv
<1>1. ASSUME NEW c \in Clients, NEW s \in SubIds, NEW h \in Handles, Open(c, s, h)
      PROVE  HandlerInv'
  <2>1. /\ h \notin opened /\ opened' = opened \cup {h} /\ s \in issued
        /\ pc' = [pc EXCEPT ![h] = "preparing"]
        /\ target' = [g \in opened \cup {h} |-> IF g = h THEN s ELSE target[g]]
        /\ out' = out /\ gone' = gone /\ sent' = sent
    BY <1>1 DEF Open, Goto, StreamOpen, Owned, HandlerInv, Inv, TypeOK
  <2>2. HandlerTypeOK'
    BY <1>0, <2>1 DEF HandlerInv, HandlerTypeOK, Awaits
  <2>3. HandlersKnown'
    BY <1>0, <2>1 DEF HandlerInv, HandlerTypeOK, HandlersKnown
  <2>4. OutIsBeingWritten'
    BY <2>1 DEF HandlerInv, HandlerTypeOK, HandlersKnown, OutIsBeingWritten
  <2>. QED  BY <1>0, <2>2, <2>3, <2>4 DEF HandlerInv
<1>2. ASSUME NEW h \in Handles, Prepared(h) \/ Wake(h) \/ Beaten(h) PROVE HandlerInv'
  <2>1. pc[h] \in {"preparing", "waiting", "beating"} /\ TopOfLoop(h)
    BY <1>2 DEF Prepared, Wake, Beaten
  <2>2. /\ HandlerTypeOK' /\ OutIsBeingWritten'
        /\ opened' = opened /\ target' = target /\ sent' = sent
        /\ \A g \in Handles : g # h => pc'[g] = pc[g] /\ out'[g] = out[g]
        /\ h \in opened /\ pc'[h] # "none"
    BY <2>1, TopOfLoopBooks
  <2>3. HandlersKnown'
    BY <1>0, <2>2 DEF HandlerInv, HandlersKnown
  <2>. QED  BY <1>0, <2>2, <2>3 DEF HandlerInv
<1>3. ASSUME NEW h \in Handles,
             PrepareFails(h) \/ HeartbeatDue(h) \/ WriteFails(h) \/ Ended(h)
      PROVE  HandlerInv'
  <2>1. h \in opened /\ opened' = opened
    BY <1>3, RunningIsOpened, OpenedStays
       DEF PrepareFails, HeartbeatDue, WriteFails, Ended, Awaits, StreamClose, vars, slotVars
  <2>2. /\ \/ pc[h] # "writing" /\ out' = out
           \/ out' = [out EXCEPT ![h] = <<>>]
        /\ \/ pc' = [pc EXCEPT ![h] = "done"]
           \/ pc' = [pc EXCEPT ![h] = "beating"]
        /\ target' = target /\ gone' = gone /\ sent' = sent
    BY <1>3 DEF PrepareFails, HeartbeatDue, WriteFails, Ended, Goto
  <2>3. HandlerTypeOK'
    <3>1. out' \in [Handles -> Seq(Batch(Update))]
      <4>1. out \in [Handles -> Seq(Batch(Update))] /\ <<>> \in Seq(Batch(Update))
        BY DEF HandlerInv, HandlerTypeOK
      <4>. QED  BY <2>2, <4>1
    <3>2. pc' \in [Handles -> Awaits \cup {"none", "done"}]
      BY <2>2 DEF HandlerInv, HandlerTypeOK, Awaits
    <3>. QED  BY <1>0, <2>1, <2>2, <3>1, <3>2 DEF HandlerInv, HandlerTypeOK
  <2>4. HandlersKnown'
    BY <1>0, <2>1, <2>2 DEF HandlerInv, HandlerTypeOK, HandlersKnown
  <2>5. OutIsBeingWritten'
    BY <2>2 DEF HandlerInv, HandlerTypeOK, OutIsBeingWritten
  <2>. QED  BY <1>0, <2>3, <2>4, <2>5 DEF HandlerInv
<1>4. ASSUME NEW h \in Handles, Written(h) PROVE HandlerInv'
  <2>1. h \in opened /\ opened' = opened
    BY <1>4, RunningIsOpened DEF Written, Awaits, HandlerTouch, vars, slotVars
  <2>2. /\ out[h] \in Seq(Batch(Update)) /\ out[h] # <<>> /\ pc[h] = "writing"
        /\ Head(out[h]).seq \in Nat \ {0} /\ Tail(out[h]) \in Seq(Batch(Update))
    <3>1. out[h] \in Seq(Batch(Update)) /\ out[h] # <<>> /\ pc[h] = "writing"
      BY <1>4 DEF Written, HandlerInv, HandlerTypeOK, OutIsBeingWritten
    <3>2. Head(out[h]) \in Batch(Update) /\ Tail(out[h]) \in Seq(Batch(Update))
      BY <3>1
    <3>. QED  BY <3>1, <3>2 DEF Batch
  <2>3. /\ sent' = [sent EXCEPT ![h] = Append(@, Head(out[h]).seq)]
        /\ out' = [out EXCEPT ![h] = Tail(@)]
        /\ target' = target /\ gone' = gone
        /\ IF Tail(out[h]) = <<>> THEN pc' = [pc EXCEPT ![h] = "waiting"] ELSE pc' = pc
    BY <1>4 DEF Written, Goto
  <2>4. sent' \in [Handles -> Seq(Nat \ {0})] /\ out' \in [Handles -> Seq(Batch(Update))]
    BY <2>2, <2>3 DEF HandlerInv, HandlerTypeOK
  <2>5. HandlerTypeOK'
    BY <1>0, <2>1, <2>3, <2>4 DEF HandlerInv, HandlerTypeOK, Awaits
  <2>6. HandlersKnown'
    BY <1>0, <2>1, <2>2, <2>3 DEF HandlerInv, HandlerTypeOK, HandlersKnown
  <2>7. OutIsBeingWritten'
    BY <2>2, <2>3 DEF HandlerInv, HandlerTypeOK, OutIsBeingWritten
  <2>. QED  BY <1>0, <2>5, <2>6, <2>7 DEF HandlerInv
<1>5. ASSUME NEW h \in Handles, Disconnect(h) PROVE HandlerInv'
  <2>1. h \in opened /\ opened' = opened
    BY <1>5, RunningIsOpened DEF Disconnect, Running, vars, slotVars
  <2>. QED  BY <1>0, <1>5, <2>1
            DEF Disconnect, HandlerInv, HandlerTypeOK, HandlersKnown, OutIsBeingWritten
<1>6. ASSUME Elsewhere \/ UNCHANGED sseVars PROVE HandlerInv'
  <2>1. opened' = opened /\ UNCHANGED handlerVars
    BY <1>6, OpenedStays DEF Elsewhere, sseVars
  <2>. QED  BY <1>0, <2>1
            DEF handlerVars, HandlerInv, HandlerTypeOK, HandlersKnown, OutIsBeingWritten
<1>. QED  BY <1>1, <1>2, <1>3, <1>4, <1>5, <1>6 DEF SseNext, Handler

\* The handlers' type invariant.
THEOREM HandlersTyped == SseSpec => []HandlerTypeOK
<1>1. HandlerInv => HandlerTypeOK
  BY DEF HandlerInv
<1>. QED  BY HandlerInit, HandlerInvNext, <1>1, PTL DEF SseSpec

\* The stream handlers use the manager as its specification says.
THEOREM HandlersUseTheManager == SseSpec => ManagerSpec
<1>1. SseInit => Init
  BY DEF SseInit
<1>. QED  BY HandlerInit, HandlerInvNext, ManagerStep, <1>1, PTL DEF SseSpec, ManagerSpec

\* So everything that was proved of the manager holds with its handlers running:
\* consecutive numbers, no lost wake-up, reports in order, the channels.
THEOREM ManagerPromisesKept ==
    SseSpec => /\ []NumbersContiguous /\ []ReadyCoversQueue /\ []QueuesInOrder
               /\ []SlotIsOpen /\ []WatchersAgree
               /\ ChannelSpec
<1>1. ManagerSpec => Spec
  BY DEF ManagerSpec, Spec
<1>. QED  BY HandlersUseTheManager, <1>1, QueueNumbering, NoLostWakeup, ReportsInOrder,
             SlotOwnership, IndexesAgree, SubscriptionsAreChannels, PTL

-----------------------------------------------------------------------------
(* The slot.                                                                *)

\* A running handler that was not told to end holds the slot of its subscription,
\* from stream_open on and not only in its loop.
HoldsSlot == \A h \in opened : pc[h] \in Awaits /\ h \notin closed => stream[target[h]] = h

\* The rest of the manager takes a slot away only by telling its handle to end.
LEMMA SlotKeptOrTold ==
    ASSUME Inv, Elsewhere, NEW h \in Handles, NEW s \in issued, stream[s] = h
    PROVE  stream'[s] = h \/ h \in closed'
<1>0. h # NoHandle /\ s \in SubIds /\ stream \in [SubIds -> Handles \cup {NoHandle}]
  BY SubscriptionsAssumption DEF SubscriptionsAssumption, Inv, TypeOK
<1>1. ASSUME NEW D \in SUBSET subs, Drop(D) PROVE stream'[s] = h \/ h \in closed'
  BY <1>0, <1>1 DEF Drop, ActiveStreams, Inv, TypeOK
<1>2. ASSUME NEW c \in Clients, NEW t \in SubIds, Create(c, t) PROVE stream'[s] = h
  BY <1>0, <1>2 DEF Create
<1>3. CASE UNCHANGED stream
  BY <1>3
<1>4. CASE \E c \in Clients : Calls(c)
  BY <1>1, <1>2, <1>3, <1>4
     DEF Calls, OwnedBy, slotVars, TouchOnly, Delete, Register, Unregister, Sync
<1>5. CASE World \/ Janitor \/ Stop
  BY <1>1, <1>3, <1>5
     DEF World, subVars, slotVars, StateChange, StateRemoved, Reindex, FollowUp, Tick,
         Janitor, Expired, Stop
<1>. QED  BY <1>4, <1>5 DEF Elsewhere

\* No handle that was told to end is forgotten to have been.
LEMMA ClosedGrows ==
    ASSUME [Next]_vars
    PROVE  closed \subseteq closed'
BY DEF Next, Calls, Streaming, World, vars, subVars, slotVars, Create, Drop, TouchOnly,
       Delete, Register, Unregister, Sync, StreamOpen, StreamClose, Drain, HandlerTouch,
       StateChange, StateRemoved, Reindex, FollowUp, Tick, Janitor, Stop

LEMMA HoldsSlotNext == HandlerInv /\ HoldsSlot /\ [SseNext]_sseVars => HoldsSlot'
<1>. SUFFICES ASSUME HandlerInv, HoldsSlot, [SseNext]_sseVars,
                     NEW h \in opened', pc'[h] \in Awaits, h \notin closed'
              PROVE  stream'[target'[h]] = h
  BY DEF HoldsSlot
<1>1. /\ pc \in [Handles -> Awaits \cup {"none", "done"}] /\ h \in Handles
      /\ h \notin closed
      /\ stream \in [SubIds -> Handles \cup {NoHandle}]
      /\ pc[h] \in Awaits => /\ h \in opened /\ stream[target[h]] = h
                             /\ target[h] \in SubIds /\ target[h] \in issued
  <2>1. h \in Handles /\ h \notin closed
    BY ManagerStep, NextInv, ClosedGrows DEF HandlerInv, Inv, TypeOK
  <2>. QED  BY <2>1, RunningIsOpened DEF HandlerInv, HandlerTypeOK, HoldsSlot, Inv, TypeOK
<1>2. ASSUME NEW c \in Clients, NEW s \in SubIds, NEW g \in Handles, Open(c, s, g)
      PROVE  stream'[target'[h]] = h
  <2>1. /\ stream' = [stream EXCEPT ![s] = g]
        /\ target' = [f \in opened \cup {g} |-> IF f = g THEN s ELSE target[f]]
        /\ pc' = [pc EXCEPT ![g] = "preparing"]
        /\ closed' = IF stream[s] = NoHandle THEN closed ELSE closed \cup {stream[s]}
    BY <1>2 DEF Open, StreamOpen, Goto
  <2>2. CASE h = g
    BY <1>1, <2>1, <2>2
  <2>3. CASE h # g
    <3>1. pc[h] \in Awaits
      BY <1>1, <2>1, <2>3
    <3>2. target'[h] = target[h]
      BY <1>1, <2>1, <2>3, <3>1
    <3>3. target[h] # s
      BY <1>1, <2>1, <3>1, SubscriptionsAssumption DEF SubscriptionsAssumption
    <3>. QED  BY <1>1, <2>1, <3>1, <3>2, <3>3
  <2>. QED  BY <2>2, <2>3
<1>3. ASSUME NEW g \in Handles,
             \/ Prepared(g) \/ Wake(g) \/ Beaten(g) \/ Written(g)
             \/ PrepareFails(g) \/ HeartbeatDue(g) \/ Disconnect(g)
      PROVE  stream'[target'[h]] = h
  <2>1. target' = target /\ stream' = stream
    BY <1>3 DEF Prepared, Wake, Beaten, Written, PrepareFails, HeartbeatDue, Disconnect,
                TopOfLoop, Drain, HandlerTouch, vars, slotVars
  <2>2. pc[h] \in Awaits
    BY <1>1, <1>3
       DEF Prepared, Wake, Beaten, Written, PrepareFails, HeartbeatDue, Disconnect,
           TopOfLoop, Goto, Awaits
  <2>. QED  BY <1>1, <2>1, <2>2
<1>4. ASSUME NEW g \in Handles, WriteFails(g) \/ Ended(g) PROVE stream'[target'[h]] = h
  <2>1. g # h /\ pc[h] \in Awaits /\ target' = target
    BY <1>1, <1>4 DEF WriteFails, Ended, Goto, Awaits
  <2>2. stream' = stream \/ \E s \in SubIds : stream[s] = g
                               /\ stream' = [stream EXCEPT ![s] = NoHandle]
    BY <1>4, RunningIsOpened DEF WriteFails, Ended, StreamClose, Awaits
  <2>. QED  BY <1>1, <2>1, <2>2
<1>5. CASE Elsewhere
  <2>1. pc' = pc /\ target' = target
    BY <1>5 DEF Elsewhere, handlerVars
  <2>. QED  BY <1>1, <1>5, <2>1, SlotKeptOrTold DEF HandlerInv
<1>6. CASE UNCHANGED sseVars
  BY <1>1, <1>6 DEF sseVars, vars, slotVars, handlerVars
<1>. QED  BY <1>2, <1>3, <1>4, <1>5, <1>6 DEF SseNext, Handler

\* One stream per subscription: a handler in its loop that was not told to end holds
\* the slot, and a slot holds one handle.
THEOREM OneStreamEach == SseSpec => []SingleStream
<1>1. SseInit => HoldsSlot
  BY DEF SseInit, Init, HoldsSlot
<1>2. HandlerInv /\ HoldsSlot => SingleStream
  <2>. SUFFICES ASSUME HandlerInv, HoldsSlot,
                       NEW h \in Handles, pc[h] \in InLoop, h \notin closed
                PROVE  stream[target[h]] = h
    BY DEF SingleStream
  <2>1. pc[h] \in Awaits
    BY DEF InLoop, Awaits
  <2>. QED  BY <2>1, RunningIsOpened DEF HoldsSlot
<1>. QED  BY HandlerInit, HandlerInvNext, HoldsSlotNext, <1>1, <1>2, PTL DEF SseSpec

-----------------------------------------------------------------------------
(* The numbers.                                                             *)

OldestOf(s) == ChannelOf(mail[s]).oldest

\* What a handler wrote and holds rises.
Rises(h) ==
    /\ \A i, j \in DOMAIN sent[h] : i < j => sent[h][i] < sent[h][j]
    /\ \A i, j \in DOMAIN out[h] : i < j => out[h][i].seq < out[h][j].seq
    /\ \A i \in DOMAIN sent[h], j \in DOMAIN out[h] : sent[h][i] < out[h][j].seq

\* What was taken lies below everything that is still queued or will be.
TakenBefore == \A h \in opened : \A n \in Taken(h) : n < OldestOf(target[h])

TakenOnce ==
    \A g, h \in opened : g # h /\ target[g] = target[h] => Taken(g) \cap Taken(h) = {}

Numbered == (\A h \in Handles : Rises(h)) /\ TakenBefore /\ TakenOnce

\* The oldest number of a queue never falls, and the queue lies above it.
LEMMA OldestGrows ==
    ASSUME Inv, Untouched, [Next]_vars, NEW s \in SubIds
    PROVE  /\ OldestOf(s) \in Int /\ OldestOf(s)' \in Int /\ OldestOf(s) <= OldestOf(s)'
           /\ mail[s].next \in Nat
           /\ \A n \in SeqNumbers(mail[s].batches) :
                 n \in Nat /\ OldestOf(s) <= n /\ n < mail[s].next
<1> DEFINE m == mail[s]
           ch == ChannelOf(m)
<1>1. /\ m \in Mailbox(Update) /\ Orderly(m)
      /\ ch.oldest = m.next - Len(m.batches) /\ ch.next = m.next
      /\ m.next \in Nat /\ Len(m.batches) \in Nat /\ m.batches \in Seq(Batch(Update))
  <2>1. m \in Mailbox(Update) /\ Orderly(m)
    BY DEF Inv, TypeOK, MailOrderly
  <2>2. ch.next = m.next
    BY DEF ChannelOf
  <2>3. m.batches \in Seq(Batch(Update))
    BY <2>1 DEF Mailbox
  <2>. QED  BY <2>1, <2>2, <2>3, OldestNumber
<1>2. ChannelOf(mail'[s]) \in Channel!Steps(ch)
  BY ChannelStep
<1>3. ch.oldest \in Int /\ ch.next \in Int /\ ch.oldest <= ch.next
  <2>. HIDE DEF m, ch
  <2>. QED  BY <1>1
<1>4. /\ Channel!Put(ch).oldest \in Int /\ ch.oldest <= Channel!Put(ch).oldest
      /\ \A n \in ch.oldest..ch.next : Channel!Take(ch, n).oldest = n
      /\ Channel!Put(Channel!Take(ch, ch.next)).oldest \in {ch.next, ch.next + 1}
  <2>. HIDE DEF ch
  <2>. QED  BY <1>3 DEF Channel!Put, Channel!Take
<1>5. ChannelOf(mail'[s]).oldest \in Int /\ ch.oldest <= ChannelOf(mail'[s]).oldest
  <2>. HIDE DEF ch
  <2>. QED  BY <1>2, <1>3, <1>4 DEF Channel!Steps
<1>6. ASSUME NEW n \in SeqNumbers(m.batches)
      PROVE  n \in Nat /\ ch.oldest <= n /\ n < m.next
  <2>1. PICK i \in 1..Len(m.batches) : n = m.batches[i].seq
    BY <1>1 DEF SeqNumbers
  <2>2. n = m.next - Len(m.batches) + i - 1 /\ Len(m.batches) < m.next
    BY <1>1, <2>1 DEF Orderly, Contiguous
  <2>. HIDE DEF m, ch
  <2>. QED  BY <1>1, <2>1, <2>2
<1>. QED  BY <1>1, <1>3, <1>5, <1>6 DEF OldestOf

\* Batch numbers are natural numbers.
LEMMA TakenTyped ==
    ASSUME HandlerInv, NEW h \in opened
    PROVE  Taken(h) \subseteq Nat /\ h \in Handles
<1>1. h \in Handles /\ sent[h] \in Seq(Nat \ {0}) /\ out[h] \in Seq(Batch(Update))
  BY DEF HandlerInv, HandlerTypeOK, Inv, TypeOK
<1>2. \A i \in DOMAIN sent[h] : sent[h][i] \in Nat
  BY <1>1
<1>3. \A i \in DOMAIN out[h] : out[h][i].seq \in Nat
  <2>1. \A i \in DOMAIN out[h] : out[h][i] \in Batch(Update)
    BY <1>1
  <2>. QED  BY <2>1 DEF Batch
<1>. QED  BY <1>1, <1>2, <1>3 DEF Taken, SeqNumbers

\* A step in which nobody takes anything.
LEMMA NobodyTakes ==
    ASSUME HandlerInv, Numbered, [Next]_vars,
           \A h \in opened : target'[h] = target[h] /\ Taken(h)' \subseteq Taken(h),
           \A h \in opened' \ opened : Taken(h)' = {}
    PROVE  TakenBefore' /\ TakenOnce'
<1>1. TakenBefore'
  <2>. SUFFICES ASSUME NEW h \in opened', NEW n \in Taken(h)'
                PROVE  n < ChannelOf(mail'[target'[h]]).oldest
    BY DEF TakenBefore, OldestOf
  <2>1. h \in opened /\ n \in Taken(h) /\ target'[h] = target[h]
    OBVIOUS
  <2>2. PICK s \in SubIds : s = target[h]
    BY <2>1 DEF HandlerInv, HandlerTypeOK
  <2>3. n < ChannelOf(mail[s]).oldest /\ n \in Int
    <3>1. n < ChannelOf(mail[s]).oldest
      BY <2>1, <2>2 DEF Numbered, TakenBefore, OldestOf
    <3>. QED  BY <2>1, <3>1, TakenTyped
  <2>4. /\ ChannelOf(mail[s]).oldest \in Int /\ ChannelOf(mail'[s]).oldest \in Int
        /\ ChannelOf(mail[s]).oldest <= ChannelOf(mail'[s]).oldest
    BY OldestGrows DEF HandlerInv, OldestOf
  <2>. QED  BY <2>1, <2>2, <2>3, <2>4
<1>2. TakenOnce'
  BY DEF Numbered, TakenOnce
<1>. QED  BY <1>1, <1>2

\* A handler drains the queue of its subscription: it had nothing left to write, and
\* what it takes is new to everybody.
LEMMA TakingIsNew ==
    ASSUME HandlerInv, Numbered, NEW h \in Handles, out[h] = <<>>, h \in opened,
           Drain(target[h]), out' = [out EXCEPT ![h] = mail[target[h]].batches],
           UNCHANGED <<opened, target, sent>>, [Next]_vars
    PROVE  Numbered'
<1>1. PICK s \in SubIds : s = target[h]
  BY DEF HandlerInv, HandlerTypeOK
<1> DEFINE b == mail[s].batches
           old == ChannelOf(mail[s]).oldest
<1>2. /\ mail[s] \in Mailbox(Update) /\ Contiguous(mail[s])
      /\ b \in Seq(Batch(Update))
      /\ out \in [Handles -> Seq(Batch(Update))] /\ sent \in [Handles -> Seq(Nat \ {0})]
      /\ out' = [out EXCEPT ![h] = b] /\ mail' = [mail EXCEPT ![s] = Drained(mail[s])]
      /\ mail \in [SubIds -> Mailbox(Update)]
  <2>1. mail[s] \in Mailbox(Update) /\ Contiguous(mail[s])
        /\ mail \in [SubIds -> Mailbox(Update)]
    BY DEF HandlerInv, Inv, TypeOK, MailOrderly, Orderly
  <2>2. b \in Seq(Batch(Update))
    BY <2>1 DEF Mailbox
  <2>. QED  BY <1>1, <2>1, <2>2 DEF HandlerInv, HandlerTypeOK, Drain
<1>3. /\ old \in Int /\ mail[s].next \in Nat /\ ChannelOf(mail'[s]).oldest = mail[s].next
      /\ \A n \in SeqNumbers(b) : n \in Nat /\ old <= n /\ n < mail[s].next
      /\ old <= mail[s].next
  <2>1. mail'[s] = Drained(mail[s])
    BY <1>2
  <2>2. ChannelOf(mail'[s]).oldest = mail[s].next
    BY <2>1 DEF ChannelOf, Drained
  <2>. QED  BY <2>2, OldestGrows DEF HandlerInv, OldestOf
<1>4. /\ Taken(h)' = Taken(h) \cup SeqNumbers(b)
      /\ \A g \in Handles : g # h => Taken(g)' = Taken(g)
      /\ \A n \in Taken(h) : \E i \in DOMAIN sent[h] : n = sent[h][i]
  <2>1. out'[h] = b /\ \A g \in Handles : g # h => out'[g] = out[g]
    BY <1>2
  <2>. HIDE DEF b
  <2>. QED  BY <2>1 DEF Taken, SeqNumbers
<1>5. \A g \in opened : target[g] = s => \A n \in Taken(g) : n \in Nat /\ n < old
  BY TakenTyped DEF Numbered, TakenBefore, OldestOf
<1>6. \A g \in Handles : Rises(g)'
  <2>. SUFFICES ASSUME NEW g \in Handles PROVE Rises(g)'
    OBVIOUS
  <2>1. CASE g # h
    <3>1. out'[g] = out[g] /\ sent' = sent /\ Rises(g)
      BY <1>2, <2>1 DEF Numbered
    <3>. QED  BY <3>1 DEF Rises
  <2>2. CASE g = h
    <3>1. out'[g] = b /\ sent'[g] = sent[h] /\ Rises(h)
      BY <1>2, <2>2 DEF Numbered
    <3>2. ASSUME NEW i \in DOMAIN b, NEW j \in DOMAIN b, i < j PROVE b[i].seq < b[j].seq
      <4>1. b[i].seq = mail[s].next - Len(b) + i - 1 /\ b[j].seq = mail[s].next - Len(b) + j - 1
        BY <1>2, <3>2 DEF Contiguous
      <4>2. i \in Int /\ j \in Int /\ Len(b) \in Int
        <5>. HIDE DEF b
        <5>. QED  BY <1>2
      <4>. HIDE DEF b
      <4>. QED  BY <1>3, <3>2, <4>1, <4>2
    <3>3. ASSUME NEW i \in DOMAIN sent[h], NEW j \in DOMAIN b PROVE sent[h][i] < b[j].seq
      <4>1. sent[h][i] \in Taken(h)
        BY DEF Taken
      <4>2. sent[h][i] \in Nat /\ sent[h][i] < old
        BY <1>1, <1>5, <4>1
      <4>3. b[j].seq \in Nat /\ old <= b[j].seq
        BY <1>3 DEF SeqNumbers
      <4>. HIDE DEF b, old
      <4>. QED  BY <1>3, <4>2, <4>3
    <3>. HIDE DEF b
    <3>. QED  BY <2>2, <3>1, <3>2, <3>3 DEF Rises
  <2>. QED  BY <2>1, <2>2
<1>7. TakenBefore'
  <2>. SUFFICES ASSUME NEW g \in opened, NEW n \in Taken(g)'
                PROVE  n < ChannelOf(mail'[target[g]]).oldest
    BY DEF TakenBefore, OldestOf
  <2>1. CASE g = h
    <3>1. CASE n \in SeqNumbers(b)
      BY <1>1, <1>3, <2>1, <3>1
    <3>2. CASE n \in Taken(h)
      <4>1. n \in Nat /\ n < old
        BY <1>1, <1>5, <3>2
      <4>. HIDE DEF old
      <4>. QED  BY <1>1, <1>3, <2>1, <4>1
    <3>. QED  BY <1>4, <2>1, <3>1, <3>2
  <2>2. CASE g # h
    <3>1. PICK t \in SubIds : t = target[g]
      BY DEF HandlerInv, HandlerTypeOK
    <3>2. n \in Taken(g) /\ n \in Int /\ n < ChannelOf(mail[t]).oldest
      <4>1. n \in Taken(g) /\ g \in Handles
        BY <1>4, <2>2, TakenTyped
      <4>2. n < ChannelOf(mail[t]).oldest
        BY <3>1, <4>1 DEF Numbered, TakenBefore, OldestOf
      <4>. QED  BY <4>1, <4>2, TakenTyped
    <3>3. /\ ChannelOf(mail[t]).oldest \in Int /\ ChannelOf(mail'[t]).oldest \in Int
          /\ ChannelOf(mail[t]).oldest <= ChannelOf(mail'[t]).oldest
      BY OldestGrows DEF HandlerInv, OldestOf
    <3>. QED  BY <3>1, <3>2, <3>3
  <2>. QED  BY <2>1, <2>2
<1>8. TakenOnce'
  <2>. SUFFICES ASSUME NEW f \in opened, NEW g \in opened, f # g, target[f] = target[g]
                PROVE  Taken(f)' \cap Taken(g)' = {}
    BY DEF TakenOnce
  <2>1. Taken(f) \cap Taken(g) = {} /\ f \in Handles /\ g \in Handles
    BY TakenTyped DEF Numbered, TakenOnce
  <2>2. ASSUME NEW x \in opened, x # h, target[x] = s
        PROVE  Taken(x) \cap SeqNumbers(b) = {}
    <3>. SUFFICES ASSUME NEW n \in Taken(x), n \in SeqNumbers(b) PROVE FALSE
      OBVIOUS
    <3>1. n \in Nat /\ n < old /\ old <= n
      BY <1>3, <1>5, <2>2
    <3>. HIDE DEF old
    <3>. QED  BY <1>3, <3>1
  <2>. HIDE DEF b
  <2>3. CASE f = h
    BY <1>1, <1>4, <2>1, <2>2, <2>3
  <2>4. CASE g = h
    BY <1>1, <1>4, <2>1, <2>2, <2>4
  <2>5. CASE f # h /\ g # h
    BY <1>4, <2>1, <2>5
  <2>. QED  BY <2>3, <2>4, <2>5
<1>. QED  BY <1>6, <1>7, <1>8 DEF Numbered

\* A step that leaves alone what the handlers wrote and hold.
LEMMA NothingTaken ==
    ASSUME HandlerInv, Numbered, [Next]_vars, UNCHANGED <<opened, target, sent, out>>
    PROVE  Numbered'
<1>1. \A h \in opened : Taken(h)' = Taken(h)
  BY DEF Taken, SeqNumbers
<1>2. \A h \in Handles : Rises(h)'
  BY DEF Numbered, Rises
<1>. QED  BY <1>1, <1>2, NobodyTakes DEF Numbered

\* Writing the first batch of out moves its number to sent.
LEMMA WritingMovesOne ==
    ASSUME HandlerInv, Numbered, NEW h \in Handles, Written(h), [Next]_vars
    PROVE  Numbered'
<1> DEFINE o == out[h]
           s == sent[h]
<1>1. /\ h \in opened /\ opened' = opened /\ target' = target
      /\ o \in Seq(Batch(Update)) /\ o # <<>> /\ s \in Seq(Nat \ {0})
      /\ sent' = [sent EXCEPT ![h] = Append(s, Head(o).seq)]
      /\ out' = [out EXCEPT ![h] = Tail(o)]
      /\ out \in [Handles -> Seq(Batch(Update))] /\ sent \in [Handles -> Seq(Nat \ {0})]
  <2>1. h \in opened
    BY RunningIsOpened DEF Written, Awaits
  <2>. QED  BY <2>1 DEF Written, HandlerTouch, vars, slotVars, HandlerInv, HandlerTypeOK,
                        OutIsBeingWritten
<1>2. /\ Len(o) \in Nat \ {0} /\ Head(o) = o[1] /\ DOMAIN o = 1..Len(o)
      /\ DOMAIN Tail(o) = 1..(Len(o) - 1)
      /\ \A i \in 1..(Len(o) - 1) : Tail(o)[i] = o[i + 1]
      /\ Len(s) \in Nat /\ DOMAIN s = 1..Len(s)
  <2>. HIDE DEF o, s
  <2>. QED  BY <1>1
<1> DEFINE n == Head(o).seq
           s2 == Append(s, n)
<1>3. /\ DOMAIN s2 = 1..(Len(s) + 1) /\ s2[Len(s) + 1] = n
      /\ \A i \in 1..Len(s) : s2[i] = s[i]
  <2>. HIDE DEF o, s, n
  <2>. QED  BY <1>1, <1>2
<1>4. /\ sent'[h] = s2 /\ out'[h] = Tail(o) /\ n = o[1].seq
      /\ \A g \in Handles : g # h => sent'[g] = sent[g] /\ out'[g] = out[g]
  <2>1. n = o[1].seq
    BY <1>2
  <2>. HIDE DEF o, s
  <2>. QED  BY <1>1, <2>1
<1>5. \A g \in opened : Taken(g)' \subseteq Taken(g)
  <2>. SUFFICES ASSUME NEW g \in opened PROVE Taken(g)' \subseteq Taken(g)
    OBVIOUS
  <2>0. g \in Handles
    BY TakenTyped
  <2>1. CASE g # h
    BY <1>4, <2>0, <2>1 DEF Taken, SeqNumbers
  <2>2. CASE g = h
    <3>1. \A i \in DOMAIN s2 : s2[i] \in Taken(h)
      <4>1. n \in Taken(h)
        BY <1>2, <1>4 DEF Taken, SeqNumbers
      <4>2. \A i \in 1..Len(s) : s[i] \in Taken(h)
        BY <1>2 DEF Taken
      <4>. HIDE DEF s2, s, n
      <4>. QED  BY <1>2, <1>3, <4>1, <4>2
    <3>2. \A i \in DOMAIN Tail(o) : Tail(o)[i].seq \in Taken(h)
      <4>1. \A i \in 1..Len(o) : o[i].seq \in Taken(h)
        BY <1>2 DEF Taken, SeqNumbers
      <4>. HIDE DEF o
      <4>. QED  BY <1>2, <4>1
    <3>3. Taken(h)' = {s2[i] : i \in DOMAIN s2} \cup {Tail(o)[i].seq : i \in DOMAIN Tail(o)}
      <4>. HIDE DEF s2, o
      <4>. QED  BY <1>4 DEF Taken, SeqNumbers
    <3>. HIDE DEF s2, o
    <3>. QED  BY <2>2, <3>1, <3>2, <3>3
  <2>. QED  BY <2>1, <2>2
<1>6. TakenBefore' /\ TakenOnce'
  BY <1>1, <1>5, NobodyTakes
<1>7. \A g \in Handles : Rises(g)'
  <2>. SUFFICES ASSUME NEW g \in Handles PROVE Rises(g)'
    OBVIOUS
  <2>1. CASE g # h
    <3>1. Rises(g) /\ sent'[g] = sent[g] /\ out'[g] = out[g]
      BY <1>4, <2>1 DEF Numbered
    <3>. QED  BY <3>1 DEF Rises
  <2>2. CASE g = h
    <3>0. /\ \A i, j \in 1..Len(s) : i < j => s[i] < s[j]
          /\ \A i, j \in 1..Len(o) : i < j => o[i].seq < o[j].seq
          /\ \A i \in 1..Len(s), j \in 1..Len(o) : s[i] < o[j].seq
      <4>1. Rises(h)
        BY DEF Numbered
      <4>. QED  BY <1>2, <4>1 DEF Rises
    <3>. HIDE DEF o, s, n, s2
    <3>1. \A i, j \in DOMAIN s2 : i < j => s2[i] < s2[j]
      <4>1. \A i \in 1..Len(s) : s[i] < n
        BY <1>2, <1>4, <3>0
      <4>. QED  BY <1>2, <1>3, <3>0, <4>1
    <3>2. \A i, j \in DOMAIN Tail(o) : i < j => Tail(o)[i].seq < Tail(o)[j].seq
      <4>. SUFFICES ASSUME NEW i \in 1..(Len(o) - 1), NEW j \in 1..(Len(o) - 1), i < j
                    PROVE  Tail(o)[i].seq < Tail(o)[j].seq
        BY <1>2
      <4>1. i + 1 \in 1..Len(o) /\ j + 1 \in 1..Len(o) /\ i + 1 < j + 1
        BY <1>2
      <4>. QED  BY <1>2, <3>0, <4>1
    <3>3. \A i \in DOMAIN s2, j \in DOMAIN Tail(o) : s2[i] < Tail(o)[j].seq
      <4>. SUFFICES ASSUME NEW i \in 1..(Len(s) + 1), NEW j \in 1..(Len(o) - 1)
                    PROVE  s2[i] < Tail(o)[j].seq
        BY <1>2, <1>3
      <4>1. j + 1 \in 1..Len(o) /\ 1 \in 1..Len(o) /\ 1 < j + 1
            /\ Tail(o)[j] = o[j + 1]
        BY <1>2
      <4>2. CASE i = Len(s) + 1
        BY <1>3, <1>4, <3>0, <4>1, <4>2
      <4>3. CASE i \in 1..Len(s)
        BY <1>3, <3>0, <4>1, <4>3
      <4>. QED  BY <1>2, <4>2, <4>3
    <3>. QED  BY <1>4, <2>2, <3>1, <3>2, <3>3 DEF Rises
  <2>. QED  BY <2>1, <2>2
<1>. QED  BY <1>6, <1>7 DEF Numbered

LEMMA NumberedNext == HandlerInv /\ Numbered /\ [SseNext]_sseVars => Numbered'
<1>. SUFFICES ASSUME HandlerInv, Numbered, [SseNext]_sseVars PROVE Numbered'
  OBVIOUS
<1>0. [Next]_vars
  BY ManagerStep
<1>1. ASSUME NEW c \in Clients, NEW s \in SubIds, NEW h \in Handles, Open(c, s, h)
      PROVE  Numbered'
  <2>1. /\ opened' = opened \cup {h} /\ sent' = sent /\ out' = out /\ h \notin opened
        /\ \A g \in opened : target'[g] = target[g]
    BY <1>1 DEF Open, StreamOpen
  <2>2. \A g \in Handles : Rises(g)' /\ Taken(g)' = Taken(g)
    BY <2>1 DEF Numbered, Rises, Taken, SeqNumbers
  <2>3. Taken(h)' = {}
    BY <2>1 DEF HandlerInv, HandlersKnown, Taken, SeqNumbers
  <2>4. TakenBefore' /\ TakenOnce'
    BY <1>0, <2>1, <2>2, <2>3, TakenTyped, NobodyTakes
  <2>. QED  BY <2>2, <2>4 DEF Numbered
<1>2. ASSUME NEW h \in Handles, Prepared(h) \/ Wake(h) \/ Beaten(h) PROVE Numbered'
  <2>1. pc[h] \in {"preparing", "waiting", "beating"} /\ TopOfLoop(h)
    BY <1>2 DEF Prepared, Wake, Beaten
  <2>2. /\ opened' = opened /\ target' = target /\ sent' = sent /\ h \in opened
        /\ out[h] = <<>>
    BY <2>1, TopOfLoopBooks DEF HandlerInv, OutIsBeingWritten
  <2>3. CASE h \in closed \cup gone
    <3>1. out' = out
      BY <2>1, <2>3 DEF TopOfLoop
    <3>. QED  BY <1>0, <2>2, <3>1, NothingTaken
  <2>4. CASE h \notin closed \cup gone
    <3>1. Drain(target[h]) /\ out' = [out EXCEPT ![h] = mail[target[h]].batches]
      BY <2>1, <2>4 DEF TopOfLoop
    <3>. QED  BY <1>0, <2>2, <3>1, TakingIsNew
  <2>. QED  BY <2>3, <2>4
<1>3. ASSUME NEW h \in Handles, Written(h) PROVE Numbered'
  BY <1>0, <1>3, WritingMovesOne
<1>4. ASSUME NEW h \in Handles, WriteFails(h) PROVE Numbered'
  <2>1. /\ opened' = opened /\ target' = target /\ sent' = sent
        /\ out' = [out EXCEPT ![h] = <<>>] /\ out \in [Handles -> Seq(Batch(Update))]
    BY <1>4 DEF WriteFails, StreamClose, HandlerInv, HandlerTypeOK
  <2>2. \A g \in Handles : out'[g] = out[g] \/ out'[g] = <<>>
    BY <2>1
  <2>3. \A g \in Handles : Taken(g)' \subseteq Taken(g) /\ Rises(g)'
    BY <2>1, <2>2 DEF Numbered, Rises, Taken, SeqNumbers
  <2>4. TakenBefore' /\ TakenOnce'
    BY <1>0, <2>1, <2>3, TakenTyped, NobodyTakes
  <2>. QED  BY <2>3, <2>4 DEF Numbered
<1>5. ASSUME NEW h \in Handles,
             PrepareFails(h) \/ HeartbeatDue(h) \/ Ended(h) \/ Disconnect(h)
      PROVE  Numbered'
  BY <1>0, <1>5, NothingTaken
     DEF PrepareFails, HeartbeatDue, Ended, Disconnect, StreamClose, vars, slotVars
<1>6. ASSUME Elsewhere \/ UNCHANGED sseVars PROVE Numbered'
  <2>1. opened' = opened
    BY <1>6, OpenedStays DEF Elsewhere, sseVars
  <2>. QED  BY <1>0, <1>6, <2>1, NothingTaken DEF Elsewhere, sseVars, handlerVars
<1>. QED  BY <1>1, <1>2, <1>3, <1>4, <1>5, <1>6 DEF SseNext, Handler

\* Where the elements of two sequences are when they are put together.
LEMMA Concatenated ==
    ASSUME NEW S, NEW s \in Seq(S), NEW t \in Seq(S)
    PROVE  /\ DOMAIN (s \o t) = 1..(Len(s) + Len(t))
           /\ \A i \in 1..Len(s) : (s \o t)[i] = s[i]
           /\ \A k \in 1..Len(t) : (s \o t)[Len(s) + k] = t[k]
<1>1. Len(s) \in Nat /\ Len(t) \in Nat
  OBVIOUS
<1>2. s \o t \in Seq(S) /\ Len(s \o t) = Len(s) + Len(t)
  OBVIOUS
<1>3. DOMAIN (s \o t) = 1..(Len(s) + Len(t))
  BY <1>1, <1>2
<1>4. ASSUME NEW i \in 1..Len(s) PROVE (s \o t)[i] = s[i]
  BY <1>1
<1>5. ASSUME NEW k \in 1..Len(t) PROVE (s \o t)[Len(s) + k] = t[k]
  BY <1>1
<1>. QED  BY <1>3, <1>4, <1>5

\* The numbers along what a handler wrote and will write rise.
LEMMA AllRises ==
    ASSUME HandlerInv, NEW h \in Handles, Rises(h)
    PROVE  LET all == sent[h] \o [i \in DOMAIN out[h] |-> out[h][i].seq] IN
           \A i, j \in DOMAIN all : i < j => all[i] < all[j]
<1> DEFINE s == sent[h]
           t == [i \in DOMAIN out[h] |-> out[h][i].seq]
           all == s \o t
<1>1. out[h] \in Seq(Batch(Update)) /\ s \in Seq(Nat \ {0}) /\ Len(s) \in Nat
  BY DEF HandlerInv, HandlerTypeOK
<1>2. t \in Seq(Nat \ {0}) /\ Len(t) = Len(out[h]) /\ Len(t) \in Nat
  <2>1. \A i \in 1..Len(out[h]) : out[h][i].seq \in Nat \ {0}
    <3>1. \A i \in 1..Len(out[h]) : out[h][i] \in Batch(Update)
      BY <1>1
    <3>. QED  BY <3>1 DEF Batch
  <2>2. Len(out[h]) \in Nat /\ DOMAIN out[h] = 1..Len(out[h])
    BY <1>1
  <2>. QED  BY <2>1, <2>2
<1>3. /\ \A i, j \in 1..Len(s) : i < j => s[i] < s[j]
      /\ \A i, j \in 1..Len(t) : i < j => t[i] < t[j]
      /\ \A i \in 1..Len(s), j \in 1..Len(t) : s[i] < t[j]
  <2>1. /\ \A i, j \in DOMAIN s : i < j => s[i] < s[j]
        /\ \A i, j \in DOMAIN out[h] : i < j => out[h][i].seq < out[h][j].seq
        /\ \A i \in DOMAIN s, j \in DOMAIN out[h] : s[i] < out[h][j].seq
    BY DEF Rises
  <2>2. DOMAIN s = 1..Len(s) /\ DOMAIN out[h] = 1..Len(t)
    BY <1>1, <1>2
  <2>3. \A i \in DOMAIN out[h] : t[i] = out[h][i].seq
    OBVIOUS
  <2>. HIDE DEF s, t
  <2>. QED  BY <2>1, <2>2, <2>3
<1> DEFINE m == Len(s)
           n == Len(t)
<1>4. /\ DOMAIN all = 1..(m + n)
      /\ \A i \in 1..m : all[i] = s[i]
      /\ \A k \in 1..n : all[m + k] = t[k]
  <2> DEFINE S == Nat \ {0}
  <2>1. s \in Seq(S) /\ t \in Seq(S)
    BY <1>1, <1>2
  <2>. HIDE DEF s, t, S
  <2>2. /\ DOMAIN (s \o t) = 1..(Len(s) + Len(t))
        /\ \A i \in 1..Len(s) : (s \o t)[i] = s[i]
        /\ \A k \in 1..Len(t) : (s \o t)[Len(s) + k] = t[k]
    BY <2>1, Concatenated
  <2>. QED  BY <2>2
<1>5. m \in Nat /\ n \in Nat
  BY <1>1, <1>2
<1>6. /\ \A i, j \in 1..m : i < j => s[i] < s[j]
      /\ \A i, j \in 1..n : i < j => t[i] < t[j]
      /\ \A i \in 1..m, j \in 1..n : s[i] < t[j]
  BY <1>3
<1>. HIDE DEF s, t, all, m, n
<1>7. ASSUME NEW i \in 1..(m + n), NEW j \in 1..(m + n), i < j PROVE all[i] < all[j]
  <2>1. CASE j <= m
    <3>1. i \in 1..m /\ j \in 1..m
      BY <1>5, <1>7, <2>1
    <3>. QED  BY <1>4, <1>6, <1>7, <3>1
  <2>2. CASE i <= m /\ ~(j <= m)
    <3>1. PICK k \in 1..n : j = m + k
      <4>1. j - m \in 1..n /\ j = m + (j - m)
        BY <1>5, <2>2
      <4>. QED  BY <4>1
    <3>2. i \in 1..m
      BY <1>5, <2>2
    <3>3. all[i] = s[i] /\ all[j] = t[k]
      BY <1>4, <3>1, <3>2
    <3>. QED  BY <1>6, <3>1, <3>2, <3>3
  <2>3. CASE ~(i <= m)
    <3>1. /\ i - m \in 1..n /\ i = m + (i - m)
          /\ j - m \in 1..n /\ j = m + (j - m)
          /\ i - m < j - m
      BY <1>5, <1>7, <2>3
    <3>2. PICK k \in 1..n, l \in 1..n : i = m + k /\ j = m + l /\ k < l
      BY <3>1
    <3>3. all[i] = t[k] /\ all[j] = t[l]
      BY <1>4, <3>2
    <3>. QED  BY <1>6, <3>2, <3>3
  <2>. QED  BY <1>5, <1>7, <2>1, <2>2, <2>3
<1>8. \A i, j \in DOMAIN all : i < j => all[i] < all[j]
  BY <1>4, <1>7
<1>. QED  BY <1>8 DEF all, s, t

\* At most once, in order: however streams take over from each other and fail, no
\* batch is written twice, by two streams, or by a stream and a later sync.
THEOREM WrittenAtMostOnce == SseSpec => []AtMostOnce
<1>1. SseInit => Numbered
  BY DEF SseInit, Init, Numbered, Rises, TakenBefore, TakenOnce
<1>2. HandlerInv /\ Numbered /\ [Next]_vars => AtMostOnce
  <2>. SUFFICES ASSUME HandlerInv, Numbered, [Next]_vars PROVE AtMostOnce
    OBVIOUS
  <2>1. \A h \in Handles : Rises(h)
    BY DEF Numbered
  <2>2. ASSUME NEW h \in opened
        PROVE  Taken(h) \cap SeqNumbers(mail[target[h]].batches) = {}
    <3>. SUFFICES ASSUME NEW n \in Taken(h), n \in SeqNumbers(mail[target[h]].batches)
                  PROVE  FALSE
      OBVIOUS
    <3>1. n < OldestOf(target[h]) /\ target[h] \in SubIds
      BY DEF Numbered, TakenBefore, HandlerInv, HandlerTypeOK
    <3>2. OldestOf(target[h]) \in Int /\ n \in Nat /\ OldestOf(target[h]) <= n
      BY <3>1, OldestGrows DEF HandlerInv
    <3>. QED  BY <3>1, <3>2
  <2>3. \A g, h \in opened : g # h /\ target[g] = target[h] => Taken(g) \cap Taken(h) = {}
    BY DEF Numbered, TakenOnce
  <2>. QED  BY <2>1, <2>2, <2>3, AllRises DEF AtMostOnce
<1>. QED  BY HandlerInit, HandlerInvNext, NumberedNext, ManagerStep, <1>1, <1>2,
             PTL DEF SseSpec
=============================================================================
