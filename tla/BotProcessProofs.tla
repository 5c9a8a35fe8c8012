--------------------------- MODULE BotProcessProofs ---------------------------
(***************************************************************************)
(* Proofs about one process of the bot: its loops stop when they are told, *)
(* its notices are a cooldown apart, what it goes by is what is stored,    *)
(* one announcement at a time reaches everybody once and stops when it is  *)
(* told, and no queued message is forgotten while its profile is there.    *)
(***************************************************************************)
EXTENDS BotProcess, TLAPS, FiniteSetTheorems, WellFoundedInduction

-----------------------------------------------------------------------------
(* Who changes what                                                        *)

LEMMA PanelKeeps ==
  ASSUME PanelNext
  PROVE  /\ UNCHANGED <<restarts, go, loop, crashes, age, pace, stamp, said, blind>>
         /\ phase' = phase \/ (phase = "booting" /\ phase' = "loaded")
  <1> USE DEF processVars, lifeVars, Take, Set, Persist, Spend
  <1>1. CASE Load
    BY <1>1 DEF Load
  <1>2. ASSUME NEW p \in Presses,
               \/ PauseToggle(p) \/ SwitchToggle(p) \/ SetText(p) \/ SetNumber(p)
               \/ SetChartRender(p) \/ AdminButtonEmoji(p) \/ AdminButtonEmojiSet(p)
        PROVE  UNCHANGED <<processVars, stamp, said, blind>>
    BY <1>2 DEF PauseToggle, SwitchToggle, SetText, SetNumber, SetChartRender, AdminButtonEmoji, AdminButtonEmojiSet
  <1>3. ASSUME NEW p \in Presses, AdminScheduleSet(p) \/ MaintenanceToggle(p) \/ MaintenanceMessage(p)
        PROVE  UNCHANGED <<processVars, stamp, said, blind>>
    BY <1>3 DEF AdminScheduleSet, MaintenanceToggle, MaintenanceMessage
  <1>4. ASSUME NEW p \in Presses, NEW a \in Admins, AdminRouter(p, a)
        PROVE  UNCHANGED <<processVars, stamp, said, blind>>
    BY <1>4 DEF AdminRouter
  <1>5. ASSUME NEW p \in Presses, CommitPress(p) \/ Remember(p) \/ FailPress(p)
        PROVE  UNCHANGED <<processVars, stamp, said, blind>>
    BY <1>5 DEF CommitPress, Remember, FailPress
  <1> QED
    BY <1>1, <1>2, <1>3, <1>4, <1>5 DEF PanelNext

LEMMA CastKeeps ==
  ASSUME CastNext
  PROVE  UNCHANGED <<processVars, stamp, said, blind>>
  <1> USE DEF lifeVars, Spend
  <1>1. ASSUME NEW a \in Admins,
               \/ AdminBroadcast(a) \/ BroadcastText(a) \/ BroadcastEditText(a) \/ BroadcastCancel(a)
               \/ ConfirmSend(a) \/ ConfirmClear(a) \/ ConfirmCreate(a) \/ BroadcastCancelActive(a)
        PROVE  UNCHANGED <<processVars, stamp, said, blind>>
    BY <1>1 DEF AdminBroadcast, BroadcastText, BroadcastEditText, BroadcastCancel, ConfirmSend,
         ConfirmClear, ConfirmCreate, BroadcastCancelActive, Compose, Speak
  <1>2. ASSUME NEW k \in Tasks,
               \/ ReadPage(k) \/ PageDone(k) \/ Pick(k) \/ Deliver(k) \/ RetryAfter(k) \/ Refused(k)
               \/ Deactivate(k) \/ Summary(k) \/ Interrupt(k)
        PROVE  UNCHANGED <<processVars, stamp, said, blind>>
    BY <1>2 DEF ReadPage, PageDone, Pick, Deliver, RetryAfter, Refused, Deactivate, Summary, Interrupt
  <1>3. ASSUME NEW u \in People \cup Latecomers, Joins(u) \/ Blocks(u) \/ Returns(u) \/ Deletes(u)
        PROVE  UNCHANGED <<processVars, stamp, said, blind>>
    BY <1>3 DEF Joins, Blocks, Returns, Deletes, PeopleStep
  <1> QED
    BY <1>1, <1>2, <1>3 DEF CastNext

LEMMA CleanKeeps ==
  ASSUME CleanNext
  PROVE  UNCHANGED <<processVars, stamp, said, blind>>
  BY DEF CleanNext, Say, Claim, TryDelete, CommitDeletes, lifeVars

LEMMA QueueingKeeps ==
  ASSUME NEW m \in Messages, QueueMessage(m)
  PROVE  UNCHANGED <<processVars, stamp, said, blind>>
  BY DEF QueueMessage, Enqueue, NotQueued, lifeVars

\* What is left to look at when the process itself moves.
LEMMA RestKeeps ==
  ASSUME Rest \/ UNCHANGED vars
  PROVE  UNCHANGED <<lifeVars, panelVars, castVars, cleanVars>>
  BY DEF Rest, vars
-----------------------------------------------------------------------------
(* The loops stop                                                          *)

StopInv ==
  /\ DOMAIN loop = Loops
  /\ phase \in {"stopping", "closing"} => ~ restarts /\ \A m \in DOMAIN go : ~ go[m]
  /\ phase = "closing" => Busy = {}

LEMMA StopStarts == Init => StopInv
  BY DEF Init, LifeInit, StopInv

LEMMA LoopsKeepStop ==
  ASSUME StopInv, NEW interval, NEW t \in Loops,
         Beat(t, interval) \/ LoopEnds(t) \/ LoopFails(t) \/ LoopRestarts(t, interval)
  PROVE  StopInv'
  <1> USE DEF StopInv, Busy, MayRestart
  <1>1. CASE Beat(t, interval)
    BY <1>1 DEF Beat
  <1>2. CASE LoopEnds(t)
    BY <1>2 DEF LoopEnds
  <1>3. CASE LoopFails(t)
    BY <1>3 DEF LoopFails
  <1>4. CASE LoopRestarts(t, interval)
    BY <1>4 DEF LoopRestarts
  <1> QED
    BY <1>1, <1>2, <1>3, <1>4

LEMMA ProcessKeepsStop == StopInv /\ Process => StopInv'
  <1> SUFFICES ASSUME StopInv, Process PROVE StopInv'
    OBVIOUS
  <1> USE DEF StopInv, Busy
  <1>1. CASE Boot
    BY <1>1 DEF Boot
  <1>2. CASE Announce
    BY <1>2 DEF Announce, AskNotice, SendNotice
  <1>3. CASE Spawn(Setting("interval"))
    BY <1>3 DEF Spawn
  <1>4. CASE Shutdown
    BY <1>4 DEF Shutdown
  <1>5. CASE StopLoops
    BY <1>5 DEF StopLoops
  <1>6. CASE CancelLoops
    BY <1>6 DEF CancelLoops
  <1>7. CASE LoopSteps(Setting("interval"))
    BY <1>7, LoopsKeepStop DEF LoopSteps
  <1>8. CASE Tick
    BY <1>8 DEF Tick
  <1>9. CASE Close
    BY <1>9 DEF Close
  <1>10. CASE Kill
    BY <1>10 DEF Kill
  <1> QED
    BY <1>1, <1>2, <1>3, <1>4, <1>5, <1>6, <1>7, <1>8, <1>9, <1>10 DEF Process

LEMMA StopHolds == StopInv /\ [Next]_vars => StopInv'
  <1> SUFFICES ASSUME StopInv, [Next]_vars PROVE StopInv'
    OBVIOUS
  <1>1. CASE PanelNext
    BY <1>1, PanelKeeps DEF StopInv, Busy
  <1>2. CASE CastNext \/ CleanNext \/ (\E m \in Messages : QueueMessage(m)) \/ Rest \/ UNCHANGED vars
    BY <1>2, CastKeeps, CleanKeeps, QueueingKeeps, RestKeeps DEF StopInv, Busy, lifeVars, processVars
  <1> QED
    BY <1>1, <1>2, ProcessKeepsStop DEF Next

\* When the bot shuts down (app.py, on_shutdown), a loop that comes back from its
\* back-off does not tell its module to go on, and no loop is left when the database is
\* closed: for any loops and modules.
THEOREM StopStaysKept == Spec => []StopIsKept
  <1>1. StopInv => StopIsKept
    BY DEF StopInv, StopIsKept
  <1> QED
    BY <1>1, StopStarts, StopHolds, PTL DEF Spec
-----------------------------------------------------------------------------
(* The notices are apart                                                   *)

Announcing == phase \in {"greeting", "parting"}

\* The time that is stored is not older than the last notice; when a notice is on its
\* way it has just been stored, and the last one is a cooldown ago.
NoticeInv ==
  /\ stamp \in 0..Longest \cup {None} /\ said \in 0..Longest \cup {None}
  /\ blind \in BOOLEAN
  /\ ~ blind /\ said # None =>
       /\ stamp # None /\ stamp <= said
       /\ Announcing => stamp = 0 /\ said >= Cooldown
  /\ ~ blind /\ Announcing => stamp = 0

LEMMA Aged ==
  ASSUME NEW n \in 0..Longest \cup {None}
  PROVE  /\ Older(n) \in 0..Longest \cup {None}
         /\ (Older(n) = None) <=> (n = None)
         /\ n # None => Older(n) = IF n < Longest THEN n + 1 ELSE n
  BY LifecycleAssumption DEF LifecycleAssumption, Older

LEMMA DueLate ==
  ASSUME stamp \in 0..Longest \cup {None}, NoticeDue
  PROVE  stamp = None \/ stamp >= Cooldown
  <1>1. CASE stamp \in Nat /\ stamp < Cooldown
    <2>1. stamp \in 0..(Cooldown - 1)
      BY <1>1, LifecycleAssumption DEF LifecycleAssumption
    <2> QED
      BY <2>1 DEF NoticeDue
  <1> QED
    BY <1>1, LifecycleAssumption DEF LifecycleAssumption

LEMMA NoticeStarts == Init => NoticeInv
  BY LifecycleAssumption DEF Init, LifeInit, NoticeInv, Announcing, LifecycleAssumption

LEMMA ProcessKeepsNotice == NoticeInv /\ Process => NoticeInv'
  <1> SUFFICES ASSUME NoticeInv, Process PROVE NoticeInv'
    OBVIOUS
  <1> USE LifecycleAssumption DEF LifecycleAssumption, NoticeInv, Announcing
  <1>1. CASE Boot
    BY <1>1 DEF Boot
  <1>2. ASSUME NEW from, NEW send, NEW next,
               send \in {"greeting", "parting"}, next \notin {"greeting", "parting"},
               from \notin {"greeting", "parting"}, AskNotice(from, send, next)
        PROVE  NoticeInv'
    <2>1. NoticeDue => stamp = None \/ stamp >= Cooldown
      BY DueLate
    <2>2. CASE NoticeDue /\ phase' = send /\ stamp' = 0 /\ UNCHANGED <<blind, said>>
      <3>1. ~ blind /\ said # None => said >= Cooldown
        BY <2>1, <2>2
      <3> QED
        BY <1>2, <2>2, <3>1
    <2>3. CASE phase' = next /\ UNCHANGED <<stamp, blind, said>>
      BY <1>2, <2>3
    <2>4. CASE blind' = TRUE /\ UNCHANGED <<stamp, said>>
      BY <1>2, <2>4
    <2> QED
      BY <1>2, <2>2, <2>3, <2>4 DEF AskNotice, Stamped
  <1>3. ASSUME NEW from, NEW next, from \in {"greeting", "parting"}, next \notin {"greeting", "parting"},
               SendNotice(from, next)
        PROVE  NoticeInv'
    BY <1>3 DEF SendNotice
  <1>4. CASE Spawn(Setting("interval")) \/ Shutdown \/ StopLoops \/ CancelLoops \/ Close \/ Kill
    BY <1>4 DEF Spawn, Shutdown, StopLoops, CancelLoops, Close, Kill
  <1>5. CASE LoopSteps(Setting("interval"))
    BY <1>5 DEF LoopSteps, Beat, LoopEnds, LoopFails, LoopRestarts
  <1>6. CASE Tick
    <2>1. /\ stamp' = Older(stamp) /\ said' = Older(said) /\ blind' = blind /\ phase' = phase
          /\ ~ Announcing
      BY <1>6 DEF Tick
    <2> QED
      BY <2>1, Aged
  <1>7. CASE Announce
    BY <1>2, <1>3, <1>7 DEF Announce
  <1> QED
    BY <1>1, <1>4, <1>5, <1>6, <1>7 DEF Process

LEMMA NoticeHolds == NoticeInv /\ [Next]_vars => NoticeInv'
  <1> SUFFICES ASSUME NoticeInv, [Next]_vars PROVE NoticeInv'
    OBVIOUS
  <1>1. CASE PanelNext
    BY <1>1, PanelKeeps DEF NoticeInv, Announcing
  <1>2. CASE CastNext \/ CleanNext \/ (\E m \in Messages : QueueMessage(m)) \/ Rest \/ UNCHANGED vars
    BY <1>2, CastKeeps, CleanKeeps, QueueingKeeps, RestKeeps DEF NoticeInv, Announcing, lifeVars, processVars
  <1> QED
    BY <1>1, <1>2, ProcessKeepsNotice DEF Next

\* However often the process is killed and started, the administrators get two notices
\* a cooldown apart (app.py, _admin_notify_cooldown_ok), unless the database failed: for
\* any cooldown and any loops.
THEOREM NoticesStayApart == Spec => NoticesApart
  <1>1. NoticeInv /\ [Next]_vars =>
          [said' = 0 /\ phase \in {"greeting", "parting"} /\ said # None => said >= Cooldown \/ blind]_lifeVars
    BY DEF NoticeInv, Announcing
  <1> QED
    BY <1>1, NoticeStarts, NoticeHolds, PTL DEF Spec, NoticesApart
-----------------------------------------------------------------------------
(* No queued message is forgotten                                          *)

\* A replica works on messages that were sent, and what it will take from the queue is
\* no longer shown.
QueueInv ==
  /\ due \in [Messages -> 0..Delay \cup {None}]
  /\ queued \in [Messages -> 0..Longest \cup {None}]
  /\ DOMAIN chat = Messages
  /\ DOMAIN claim = Cleaners /\ DOMAIN handled = Cleaners
  /\ wanted \subseteq Messages
  /\ \A m \in Messages : due[m] # None \/ queued[m] # None \/ m \in wanted => chat[m] # "unsent"
  /\ \A c \in Cleaners : claim[c] \subseteq Messages /\ \A m \in claim[c] : chat[m] # "unsent"
  /\ \A c \in Cleaners : \A m \in handled[c] : m \in Messages /\ chat[m] \notin {"unsent", "shown"}
  /\ NoneForgotten

LEMMA QueueStarts == Init => QueueInv
  BY DEF Init, CleanInit, QueueInv, NoneForgotten

LEMMA SayKeepsQueue ==
  ASSUME QueueInv, NEW m \in Messages, Say(m)
  PROVE  QueueInv'
  <1>1. /\ chat' = [chat EXCEPT ![m] = "shown"] /\ wanted' = wanted \cup {m}
        /\ chat[m] \in {"unsent", "shown"}
        /\ UNCHANGED <<due, claim, handled, queued, orphans>>
    BY DEF Say
  <1>2. \A n \in Messages : chat[n] # "unsent" => chat'[n] = chat[n]
    BY <1>1 DEF QueueInv
  <1>3. chat[m] = "unsent" => due[m] = None /\ queued[m] = None
    BY DEF QueueInv
  <1>4. \A c \in Cleaners : m \notin handled[c]
    BY <1>1 DEF QueueInv
  <1> QED
    BY <1>1, <1>2, <1>3, <1>4 DEF QueueInv, NoneForgotten

LEMMA NewDueIsEarly ==
  ASSUME QueueInv, NEW m \in Messages
  PROVE  /\ NewDue(m) \in 0..Delay
         /\ due[m] # None => NewDue(m) = due[m]
  BY AutoDeleteAssumption, LifecycleAssumption
  DEF QueueInv, NewDue, AutoDeleteAssumption, LifecycleAssumption

LEMMA EnqueueKeepsQueue ==
  ASSUME QueueInv, NEW m \in Messages, NEW u, Enqueue(m, u)
  PROVE  QueueInv'
  <1> USE AutoDeleteAssumption, LifecycleAssumption DEF AutoDeleteAssumption, LifecycleAssumption
  <1>1. wanted' = wanted \ {m} /\ m \in wanted /\ UNCHANGED <<chat, claim, handled>>
    BY DEF Enqueue
  <1>2. CASE UNCHANGED <<due, queued, orphans>>
    BY <1>1, <1>2 DEF QueueInv, NoneForgotten
  <1>3. CASE /\ due' = [due EXCEPT ![m] = NewDue(m)]
             /\ queued' = [queued EXCEPT ![m] = IF @ = None \/ m \in orphans THEN 0 ELSE @]
             /\ orphans' = orphans \ {m}
    <2>1. /\ due' \in [Messages -> 0..Delay \cup {None}]
          /\ queued' \in [Messages -> 0..Longest \cup {None}]
      BY <1>3, NewDueIsEarly DEF QueueInv
    <2>2. \A n \in Messages \ {m} :
            due'[n] = due[n] /\ queued'[n] = queued[n] /\ (n \in orphans' <=> n \in orphans)
      BY <1>3 DEF QueueInv
    <2>3. /\ due'[m] = NewDue(m)
          /\ queued'[m] = IF queued[m] = None \/ m \in orphans THEN 0 ELSE queued[m]
      BY <1>3 DEF QueueInv
    <2>4. NoneForgotten'
      <3>1. /\ queued[m] = None \/ m \in orphans => due'[m] \in 0..Delay /\ queued'[m] = 0
            /\ queued[m] # None /\ m \notin orphans /\ chat[m] = "shown" =>
                 due'[m] = due[m] /\ queued'[m] = queued[m]
        BY <2>3, NewDueIsEarly DEF QueueInv, NoneForgotten
      <3>2. queued'[m] # None /\ chat[m] = "shown" =>
              due'[m] # None /\ (due'[m] > 0 => due'[m] + queued'[m] <= Delay)
        BY <3>1 DEF QueueInv, NoneForgotten
      <3> QED
        BY <1>1, <2>2, <3>2 DEF QueueInv, NoneForgotten
    <2> QED
      BY <1>1, <2>1, <2>2, <2>4 DEF QueueInv
  <1> QED
    BY <1>2, <1>3 DEF Enqueue

LEMMA QueueingKeepsQueue ==
  ASSUME QueueInv, NEW m \in Messages, QueueMessage(m)
  PROVE  QueueInv'
  <1>1. CASE NotQueued(m)
    BY <1>1 DEF NotQueued, QueueInv, NoneForgotten
  <1> QED
    BY <1>1, EnqueueKeepsQueue DEF QueueMessage

\* The rows of a profile go with it, and their messages are orphans.
LEMMA CascadeKeepsQueue ==
  ASSUME QueueInv, NEW users, Cascade(users)
  PROVE  QueueInv'
  <1> DEFINE lost == {m \in Messages : due[m] # None /\ owner[m] \notin users}
  <1>1. /\ due' = [m \in Messages |-> IF m \in lost THEN None ELSE due[m]]
        /\ orphans' = orphans \cup lost
        /\ UNCHANGED <<chat, wanted, claim, handled, queued>>
    BY DEF Cascade
  <1> HIDE DEF lost
  <1>2. /\ due' \in [Messages -> 0..Delay \cup {None}]
        /\ \A m \in Messages : due'[m] = due[m] \/ (due'[m] = None /\ m \in orphans')
        /\ \A m \in Messages : m \notin orphans' => m \notin orphans
    BY <1>1 DEF QueueInv
  <1> QED
    BY <1>1, <1>2 DEF QueueInv, NoneForgotten

LEMMA CleanerKeepsQueue ==
  ASSUME QueueInv, NEW c \in Cleaners, Claim(c) \/ TryDelete(c) \/ CommitDeletes(c)
  PROVE  QueueInv'
  <1>1. CASE Claim(c)
    <2>1. PICK some \in SUBSET Claimable : claim' = [claim EXCEPT ![c] = some]
      BY <1>1 DEF Claim
    <2>2. \A m \in some : m \in Messages /\ due[m] = 0
      BY <2>1 DEF Claimable
    <2>3. \A m \in some : m \in Messages /\ chat[m] # "unsent"
      BY <2>2, LifecycleAssumption DEF QueueInv, LifecycleAssumption
    <2>4. UNCHANGED <<chat, due, wanted, handled, queued, orphans>>
      BY <1>1 DEF Claim
    <2> QED
      BY <2>1, <2>3, <2>4 DEF QueueInv, NoneForgotten
  <1>2. CASE TryDelete(c)
    <2>1. PICK m \in claim[c] \ tried[c], deleted \in BOOLEAN :
            /\ IF deleted
               THEN \E end \in {"gone", "kept"} : chat' = [chat EXCEPT ![m] = IF @ = "shown" THEN end ELSE @]
               ELSE UNCHANGED chat
            /\ handled' = [handled EXCEPT ![c] = IF Processed(deleted) THEN @ \cup {m} ELSE @]
      BY <1>2 DEF TryDelete
    <2>2. UNCHANGED <<due, wanted, claim, queued, orphans>> /\ m \in Messages /\ chat[m] # "unsent"
      BY <1>2, <2>1 DEF TryDelete, QueueInv
    <2>3. \A n \in Messages : chat'[n] = chat[n] \/ (chat[n] = "shown" /\ chat'[n] \in {"gone", "kept"})
      BY <2>1 DEF QueueInv
    <2>4. DOMAIN chat' = Messages /\ DOMAIN handled' = Cleaners
      BY <2>1 DEF QueueInv
    <2>5. deleted => chat'[m] \notin {"unsent", "shown"}
      BY <2>1, <2>2 DEF QueueInv
    <2>6. \A d \in Cleaners : \A n \in handled'[d] : n \in handled[d] \/ (n = m /\ deleted)
      BY <2>1 DEF QueueInv, Processed
    <2>7. \A d \in Cleaners : \A n \in handled'[d] : n \in Messages /\ chat'[n] \notin {"unsent", "shown"}
      <3>1. \A n \in Messages : chat[n] # "shown" => chat'[n] = chat[n]
        BY <2>1 DEF QueueInv
      <3> QED
        BY <3>1, <2>2, <2>5, <2>6 DEF QueueInv
    <2> QED
      BY <2>2, <2>3, <2>4, <2>7 DEF QueueInv, NoneForgotten
  <1>3. CASE CommitDeletes(c)
    <2>1. /\ claim' = [claim EXCEPT ![c] = {}] /\ handled' = [handled EXCEPT ![c] = {}]
          /\ UNCHANGED <<chat, wanted, queued, orphans>>
          /\ UNCHANGED due \/ due' = [m \in Messages |-> IF m \in handled[c] THEN None ELSE due[m]]
      BY <1>3 DEF CommitDeletes, Release
    <2>2. \A m \in handled[c] : chat[m] # "shown"
      BY DEF QueueInv
    <2>3. due' \in [Messages -> 0..Delay \cup {None}]
      BY <2>1 DEF QueueInv
    <2>4. \A m \in Messages : due'[m] = due[m] \/ (due'[m] = None /\ chat[m] # "shown")
      BY <2>1, <2>2
    <2> QED
      BY <2>1, <2>3, <2>4 DEF QueueInv, NoneForgotten
  <1> QED
    BY <1>1, <1>2, <1>3

LEMMA RollBackKeepsQueue ==
  ASSUME QueueInv, RollBack, wanted' \subseteq wanted
  PROVE  QueueInv'
  BY DEF QueueInv, RollBack, Release, NoneForgotten

LEMMA TickKeepsQueue ==
  ASSUME QueueInv, TickQueue
  PROVE  QueueInv'
  <1> USE AutoDeleteAssumption, LifecycleAssumption DEF AutoDeleteAssumption, LifecycleAssumption
  <1>1. UNCHANGED <<chat, wanted, claim, handled, orphans>>
    BY DEF TickQueue
  <1>2. \A m \in Messages : due'[m] = IF due[m] \in {None, 0} THEN due[m] ELSE due[m] - 1
    BY DEF TickQueue
  <1>3. \A m \in Messages : queued'[m] = Older(queued[m])
    BY DEF TickQueue
  <1>4. due' \in [Messages -> 0..Delay \cup {None}]
    BY DEF TickQueue, QueueInv
  <1>5. queued' \in [Messages -> 0..Longest \cup {None}]
    BY Aged DEF TickQueue, QueueInv
  <1>6. \A m \in Messages : (due'[m] = None <=> due[m] = None) /\ (queued'[m] = None <=> queued[m] = None)
    <2> TAKE m \in Messages
    <2>1. queued[m] \in 0..Longest \cup {None} /\ due[m] \in 0..Delay \cup {None}
      BY DEF QueueInv
    <2>2. queued'[m] = None <=> queued[m] = None
      BY <2>1, <1>3, Aged
    <2>3. due'[m] = None <=> due[m] = None
      BY <2>1, <1>2
    <2> QED
      BY <2>2, <2>3
  <1>7. NoneForgotten'
    <2> SUFFICES ASSUME NEW m \in Messages \ orphans', queued'[m] # None, chat'[m] = "shown"
                 PROVE  due'[m] # None /\ (due'[m] > 0 => due'[m] + queued'[m] <= Delay)
      BY DEF NoneForgotten
    <2>1. /\ queued[m] \in 0..Longest /\ due[m] \in 0..Delay
          /\ due[m] > 0 => due[m] + queued[m] <= Delay
      BY <1>1, <1>6 DEF QueueInv, NoneForgotten
    <2>2. queued'[m] = IF queued[m] < Longest THEN queued[m] + 1 ELSE queued[m]
      BY <1>3, <2>1, Aged
    <2>3. due'[m] = IF due[m] = 0 THEN 0 ELSE due[m] - 1
      BY <1>2, <2>1
    <2> QED
      BY <2>1, <2>2, <2>3
  <1> QED
    BY <1>1, <1>4, <1>5, <1>6, <1>7 DEF QueueInv

LEMMA QueueHolds == QueueInv /\ [Next]_vars => QueueInv'
  <1> SUFFICES ASSUME QueueInv, [Next]_vars PROVE QueueInv'
    OBVIOUS
  <1>1. CASE UNCHANGED cleanVars
    BY <1>1 DEF cleanVars, QueueInv, NoneForgotten
  <1>2. CASE CleanNext
    BY <1>2, SayKeepsQueue, CleanerKeepsQueue DEF CleanNext
  <1>3. CASE Process
    BY <1>1, <1>3, RollBackKeepsQueue, TickKeepsQueue DEF Process, CleanupStops, Ends, QueueInv
  <1>4. CASE CastNext /\ Cascade(rows')
    BY <1>4, CascadeKeepsQueue
  <1> QED
    BY <1>1, <1>2, <1>3, <1>4, QueueingKeepsQueue, RestKeeps DEF Next

\* Whatever fails, whichever replica is killed and however often it is edited, a queued
\* message that is still shown has its row, due in time (services/auto_cleanup.py), unless
\* the profile it was queued for was deleted: for any messages, replicas, delay, limit
\* and chats.
THEOREM NoMessageForgotten == Spec => []NoneForgotten
  <1>1. QueueInv => NoneForgotten
    BY DEF QueueInv
  <1> QED
    BY <1>1, QueueStarts, QueueHolds, PTL DEF Spec
-----------------------------------------------------------------------------
(* The pages of an announcement                                            *)

LEMMA LeastOf ==
  ASSUME NEW S \in SUBSET Nat, S # {}
  PROVE  First(S) \in S /\ \A j \in S : First(S) <= j
  <1> DEFINE R == OpToRel(<, Nat)
  <1>1. IsWellFoundedOn(R, Nat)
    BY NatLessThanWellFounded
  <1>2. \A x, y \in Nat : x < y => <<x, y>> \in R
    BY DEF OpToRel
  <1> HIDE DEF R
  <1>3. PICK i \in S : \A j \in S : ~ (<<j, i>> \in R)
    BY <1>1, WFMin
  <1>4. \A j \in S : i <= j
    <2> TAKE j \in S
    <2>1. i \in Nat /\ j \in Nat /\ ~ (j < i)
      BY <1>2, <1>3
    <2> QED
      BY <2>1
  <1> QED
    BY <1>4 DEF First

\* A page is what comes first of what is to be paged.
LEMMA PageIsFirst ==
  ASSUME NEW S \in SUBSET Nat
  PROVE  /\ Page(S) \subseteq S
         /\ Page(S) = {} => S = {}
         /\ \A i \in S \ Page(S), j \in Page(S) : j < i
  <1>1. ASSUME S # {} PROVE Page(S) # {}
    <2> DEFINE i == First(S)
    <2>0. i \in Nat /\ i \in S /\ \A j \in S : j \in Nat /\ i <= j
      BY <1>1, LeastOf
    <2> HIDE DEF i
    <2>1. Before(S, i) = {}
      <3>1. \A j \in S : ~ (j < i)
        BY <2>0
      <3> QED
        BY <3>1 DEF Before
    <2>2. Cardinality(Before(S, i)) < Batch
      BY <2>1, FS_EmptySet, BroadcastAssumption DEF BroadcastAssumption
    <2> QED
      BY <2>0, <2>2 DEF Page
  <1>2. ASSUME NEW i \in S \ Page(S), NEW j \in Page(S) PROVE j < i
    <2>0. i \in S /\ j \in S /\ i \in Nat /\ j \in Nat /\ i # j
      BY DEF Page
    <2> SUFFICES ASSUME i < j PROVE FALSE
      BY <2>0
    <2>1. Before(S, i) \subseteq Before(S, j) /\ Before(S, j) \subseteq 0..j
      <3>1. \A x \in S : (x < i => x < j) /\ (x < j => x \in 0..j)
        BY <2>0
      <3> QED
        BY <3>1 DEF Before
    <2>2. IsFiniteSet(Before(S, j))
      <3>1. 0 \in Int /\ j \in Int
        BY <2>0
      <3>2. IsFiniteSet(0..j)
        BY <3>1, FS_Interval
      <3> QED
        BY <2>1, <3>2, FS_Subset
    <2>3. /\ Cardinality(Before(S, i)) <= Cardinality(Before(S, j))
          /\ Cardinality(Before(S, i)) \in Nat /\ Cardinality(Before(S, j)) \in Nat
      BY <2>1, <2>2, FS_Subset, FS_CardinalityType
    <2> QED
      BY <2>3, <1>2, BroadcastAssumption DEF Page, BroadcastAssumption
  <1> QED
    BY <1>1, <1>2 DEF Page

Underway == {"page", "send", "attempt", "deactivate"}

TaskType ==
  [pc : Underway \cup {"summary", "done"}, batch : SUBSET Nat, last : Nat, tries : Nat, cut : BOOLEAN]

\* A task t, when r got the announcement and p were active all the time: who got it is
\* behind the cursor, whoever is behind it got it, and who is not on the page comes after
\* the page.
Paging(t, r, p, stopped) ==
  /\ \A i \in r : i <= t.last
  /\ \A i \in t.batch : t.last < i
  /\ t.pc = "page" => t.batch = {}
  /\ t.pc \in {"attempt", "deactivate"} => t.batch # {}
  /\ t.pc \in Underway =>
       \A i \in p : /\ i <= t.last => i \in r
                    /\ i > t.last /\ i \notin t.batch => \A j \in t.batch : j < i
  /\ t.pc = "summary" => stopped \/ t.cut \/ p \subseteq r

LEMMA PagingShrinks ==
  ASSUME NEW t, NEW r, NEW p, NEW q \in SUBSET p, NEW c, NEW d, c => d, Paging(t, r, p, c)
  PROVE  Paging(t, r, q, d)
  BY DEF Paging

\* The first of the page has been tried.
LEMMA PagingPasses ==
  ASSUME NEW t \in TaskType, NEW r \in SUBSET Nat, NEW p \in SUBSET Nat, NEW c,
         Paging(t, r, p, c), t.pc \in {"attempt", "deactivate"}
  PROVE  LET u == First(t.batch)
         IN  /\ u \in Nat /\ u \notin r
             /\ Passed(t) \in TaskType /\ Passed(t).pc = "send"
             /\ Paging(Passed(t), r \cup {u}, p, c)
  <1> DEFINE u == First(t.batch)
             s == Passed(t)
  <1>1. t.batch \in SUBSET Nat /\ t.batch # {} /\ t.last \in Nat
    BY DEF Paging, TaskType
  <1>2. u \in t.batch /\ u \in Nat /\ \A j \in t.batch : u <= j
    BY <1>1, LeastOf
  <1>3. s.pc = "send" /\ s.batch = t.batch \ {u} /\ s.last = u /\ s \in TaskType
    BY <1>2 DEF Passed, TaskType, Underway
  <1>4. t.last < u /\ u \notin r
    BY <1>1, <1>2 DEF Paging
  <1>5. \A i \in r \cup {u} : i <= u
    BY <1>1, <1>2, <1>4 DEF Paging
  <1>6. \A i \in s.batch : u < i
    BY <1>1, <1>2, <1>3
  <1>7. ASSUME NEW i \in p
        PROVE  /\ i <= u => i \in r \cup {u}
               /\ i > u /\ i \notin s.batch => \A j \in s.batch : j < i
    <2>1. /\ i <= t.last => i \in r
          /\ i > t.last /\ i \notin t.batch => \A j \in t.batch : j < i
      BY <1>7 DEF Paging, Underway
    <2> QED
      BY <2>1, <1>1, <1>2, <1>3, <1>4
  <1> HIDE DEF u, s
  <1>8. Paging(s, r \cup {u}, p, c)
    BY <1>3, <1>5, <1>6, <1>7 DEF Paging, Underway
  <1> QED
    BY <1>2, <1>3, <1>4, <1>8 DEF u, s

\* The next page begins behind the cursor.
LEMMA PagingTurns ==
  ASSUME NEW t \in TaskType, NEW r \in SUBSET Nat, NEW p, NEW c, active \in SUBSET Nat, p \subseteq active,
         Paging(t, r, p, c), t.pc = "page"
  PROVE  /\ Paging([t EXCEPT !.pc = "send", !.batch = NextBatch(t.last)], r, p, c)
         /\ [t EXCEPT !.pc = "send", !.batch = NextBatch(t.last)] \in TaskType
         /\ NextBatch(t.last) = {} => p \subseteq r
  <1> DEFINE S == {i \in active : i > t.last}
             n == NextBatch(t.last)
             s == [t EXCEPT !.pc = "send", !.batch = n]
  <1>1. S \in SUBSET Nat /\ n = Page(S) /\ t.last \in Nat
    BY DEF NextBatch, TaskType
  <1>2. n \subseteq S /\ (n = {} => S = {}) /\ \A i \in S \ n, j \in n : j < i
    BY <1>1, PageIsFirst
  <1>3. n \in SUBSET Nat
    BY <1>1, <1>2
  <1> HIDE DEF n
  <1>4. s \in TaskType /\ s.pc = "send" /\ s.batch = n /\ s.last = t.last
    BY <1>3 DEF TaskType, Underway
  <1>5. \A i \in p : i <= t.last => i \in r
    BY DEF Paging, Underway
  <1>6. n = {} => p \subseteq r
    BY <1>1, <1>2, <1>5
  <1>7. Paging(s, r, p, c)
    BY <1>1, <1>2, <1>4, <1>5 DEF Paging, Underway
  <1> QED
    BY <1>4, <1>6, <1>7 DEF n
-----------------------------------------------------------------------------
(* One announcement                                                        *)

Over == \A k \in Tasks : task[k].pc = "done"

CastType ==
  /\ active \subseteq People \cup Latecomers
  /\ present \subseteq active /\ reached \subseteq Nat
  /\ task \in [Tasks -> TaskType]
  /\ sender \in [Admins -> {None, "clear", "create"}]
  /\ cancel \in BOOLEAN

\* The task on its way is the present one, and whoever is in the section of the lock has
\* found none.
AloneInv ==
  /\ \A k \in Tasks : task[k].pc # "done" => k = current
  /\ \A a \in Admins : sender[a] # None => Over /\ \A b \in Admins : sender[b] # None => a = b

\* After the message that was on its way no attempt begins.
HeedInv ==
  late = 0 \/ /\ late = 1
              /\ \A k \in Tasks : task[k].pc # "attempt"
              /\ cancel \/ Over

PagesInv ==
  /\ \A k \in Tasks : task[k].pc # "done" => Paging(task[k], reached, present, cancel)
  /\ EverybodyOnce

CastInv == CastType /\ AloneInv /\ HeedInv /\ PagesInv

LEMMA Numbered == CastType => active \in SUBSET Nat /\ present \in SUBSET Nat
  BY BroadcastAssumption DEF CastType, BroadcastAssumption

LEMMA GoneType == Gone \in TaskType /\ Gone.pc = "done" /\ Gone.batch = {} /\ Gone.last = 0
  BY DEF Gone, TaskType, Underway

LEMMA CastStarts == Init => CastInv
  <1> SUFFICES ASSUME Init PROVE CastInv
    OBVIOUS
  <1>1. CastInit /\ PanelInit
    BY DEF Init
  <1>2. \A k \in Tasks : task[k] = Gone
    BY <1>1 DEF CastInit
  <1>3. CastType
    BY <1>1, GoneType DEF CastInit, CastType
  <1>4. AloneInv /\ HeedInv
    BY <1>1, <1>2, GoneType DEF CastInit, AloneInv, HeedInv
  <1>5. PagesInv
    BY <1>1, <1>2, GoneType DEF CastInit, PagesInv, EverybodyOnce
  <1> QED
    BY <1>3, <1>4, <1>5 DEF CastInv

\* None is running: none of them is.
LEMMA NotRunning ==
  ASSUME CastInv, ~ Running
  PROVE  Over
  BY BroadcastAssumption DEF CastInv, AloneInv, Running, Over, BroadcastAssumption

LEMMA AdminsKeepCast ==
  ASSUME CastInv, NEW a \in Admins,
         \/ AdminBroadcast(a) \/ BroadcastText(a) \/ BroadcastEditText(a) \/ BroadcastCancel(a)
         \/ ConfirmSend(a) \/ ConfirmClear(a) \/ ConfirmCreate(a) \/ BroadcastCancelActive(a)
  PROVE  CastInv'
  <1>1. CASE AdminBroadcast(a) \/ BroadcastText(a) \/ BroadcastEditText(a) \/ BroadcastCancel(a)
    <2>1. UNCHANGED castVars
      BY <1>1 DEF AdminBroadcast, BroadcastText, BroadcastEditText, BroadcastCancel, Compose
    <2> QED
      BY <2>1 DEF castVars, CastInv, CastType, AloneInv, HeedInv, PagesInv, EverybodyOnce, Over
  <1>2. CASE ConfirmSend(a)
    <2>1. /\ sender' = [sender EXCEPT ![a] = "clear"] /\ \A b \in Admins : sender[b] = None
          /\ UNCHANGED <<active, task, current, cancel, reached, present, verdict, late, twice>>
      BY <1>2 DEF ConfirmSend, history, LockFree
    <2>2. Over
      BY <1>2, NotRunning DEF ConfirmSend
    <2> QED
      BY <2>1, <2>2 DEF CastInv, CastType, AloneInv, HeedInv, PagesInv, EverybodyOnce, Over
  <1>3. CASE ConfirmClear(a)
    <2>1. /\ sender[a] = "clear" /\ UNCHANGED <<active, task, current, reached, present, verdict, late, twice>>
          /\ \/ cancel' = FALSE /\ sender' = [sender EXCEPT ![a] = "create"]
             \/ cancel' = cancel /\ sender' = [sender EXCEPT ![a] = None]
      BY <1>3 DEF ConfirmClear, history
    <2>2. sender[a] # None
      BY <2>1, BroadcastAssumption DEF BroadcastAssumption
    <2>3. Over
      BY <2>2 DEF CastInv, AloneInv
    <2> QED
      BY <2>1, <2>2, <2>3 DEF CastInv, CastType, AloneInv, HeedInv, PagesInv, EverybodyOnce, Over
  <1>4. CASE ConfirmCreate(a)
    <2>1. PICK k \in Tasks : task' = [task EXCEPT ![k] = [Gone EXCEPT !.pc = "page"]] /\ current' = k
      BY <1>4 DEF ConfirmCreate
    <2>2. /\ sender' = [sender EXCEPT ![a] = None] /\ sender[a] = "create"
          /\ reached' = {} /\ present' = active /\ verdict' = None /\ late' = 0 /\ twice' = FALSE
          /\ UNCHANGED <<active, cancel>>
      BY <1>4 DEF ConfirmCreate
    <2>3. sender[a] # None
      BY <2>2, BroadcastAssumption DEF BroadcastAssumption
    <2>4. Over /\ \A b \in Admins : b # a => sender[b] = None
      BY <2>3 DEF CastInv, AloneInv
    <2>5. [Gone EXCEPT !.pc = "page"] \in TaskType /\ Paging([Gone EXCEPT !.pc = "page"], {}, active, cancel)
      <3> DEFINE s == [Gone EXCEPT !.pc = "page"]
      <3>1. s \in TaskType /\ s.pc = "page" /\ s.last = 0 /\ s.batch = {}
        BY DEF Gone, TaskType, Underway
      <3>2. \A i \in active : i \in Nat \ {0}
        BY BroadcastAssumption DEF BroadcastAssumption, CastInv, CastType
      <3>3. \A i \in active : ~ (i <= 0)
        BY <3>2
      <3> HIDE DEF s
      <3>4. Paging(s, {}, active, cancel)
        BY <3>1, <3>3 DEF Paging
      <3> QED
        BY <3>1, <3>4 DEF s
    <2>6. CastType'
      BY <2>1, <2>2, <2>5 DEF CastInv, CastType
    <2>7. \A j \in Tasks : j # k => task'[j].pc = "done"
      BY <2>1, <2>4 DEF Over, CastInv, CastType
    <2>8. AloneInv' /\ HeedInv'
      BY <2>1, <2>2, <2>4, <2>7 DEF AloneInv, HeedInv, CastInv, CastType
    <2>9. PagesInv'
      BY <2>1, <2>2, <2>5, <2>7 DEF PagesInv, EverybodyOnce, CastInv, CastType
    <2> QED
      BY <2>6, <2>8, <2>9 DEF CastInv
  <1>5. CASE BroadcastCancelActive(a)
    <2>1. cancel' = TRUE /\ UNCHANGED <<active, task, current, sender, reached, present, verdict, late, twice>>
      BY <1>5 DEF BroadcastCancelActive, history
    <2>2. \A k \in Tasks : task[k].pc # "done" => Paging(task[k], reached, present, TRUE)
      BY PagingShrinks DEF CastInv, PagesInv
    <2> QED
      BY <2>1, <2>2 DEF CastInv, CastType, AloneInv, HeedInv, PagesInv, EverybodyOnce, Over
  <1> QED
    BY <1>1, <1>2, <1>3, <1>4, <1>5

\* A step of the present task that leaves the people and the messages alone.
LEMMA TaskMoves ==
  ASSUME CastInv, NEW k \in Tasks, task[k].pc # "done",
         NEW s \in TaskType, task' = [task EXCEPT ![k] = s],
         Paging(s, reached, present, cancel),
         s.pc = "attempt" => ~ cancel \/ task[k].pc = "attempt",
         UNCHANGED <<active, current, cancel, sender, reached, present, verdict, late, twice>>
  PROVE  CastInv'
  <1>1. CastType'
    BY DEF CastInv, CastType
  <1>2. k = current /\ \A j \in Tasks : j # k => task[j].pc = "done" /\ task'[j] = task[j]
    BY DEF CastInv, CastType, AloneInv
  <1>3. task'[k] = s
    BY DEF CastInv, CastType
  <1>4. \A a \in Admins : sender[a] = None
    BY DEF CastInv, AloneInv, Over
  <1>5. AloneInv' /\ PagesInv'
    BY <1>2, <1>3, <1>4 DEF CastInv, AloneInv, PagesInv, EverybodyOnce
  <1>6. HeedInv'
    BY <1>2, <1>3 DEF CastInv, HeedInv, Over
  <1> QED
    BY <1>1, <1>5, <1>6 DEF CastInv

\* A step by which the first of the page is done with.
LEMMA TaskPasses ==
  ASSUME CastInv, NEW k \in Tasks, task[k].pc \in {"attempt", "deactivate"},
         task' = [task EXCEPT ![k] = Passed(task[k])],
         reached' = reached \cup {First(task[k].batch)},
         active' \subseteq active, present' = present \cap active',
         late' = late \/ (cancel /\ task[k].pc = "attempt" /\ late' = late + 1),
         twice' => twice \/ First(task[k].batch) \in reached,
         UNCHANGED <<current, cancel, sender, verdict>>
  PROVE  CastInv'
  <1> DEFINE t == task[k]
             u == First(t.batch)
             s == Passed(t)
  <1>0. t \in TaskType /\ t.pc # "done"
    BY DEF CastInv, CastType
  <1>1. Paging(t, reached, present, cancel)
    BY <1>0 DEF CastInv, PagesInv
  <1>2. /\ k = current /\ \A j \in Tasks : j # k => task[j].pc = "done"
        /\ \A a \in Admins : sender[a] = None
    BY <1>0 DEF CastInv, AloneInv, Over
  <1>3. reached \in SUBSET Nat /\ present \in SUBSET Nat
    BY Numbered DEF CastInv, CastType
  <1>4. /\ u \in Nat /\ u \notin reached /\ s \in TaskType /\ s.pc = "send"
        /\ Paging(s, reached \cup {u}, present, cancel)
    BY <1>0, <1>1, <1>3, PagingPasses
  <1>5. Paging(s, reached', present', cancel)
    BY <1>4, PagingShrinks
  <1> HIDE DEF s, u
  <1>6. /\ task' = [task EXCEPT ![k] = s] /\ reached' = reached \cup {u}
        /\ First(task[k].batch) \notin reached
    BY <1>4 DEF s, u
  <1>7. CastType'
    BY <1>4, <1>6 DEF CastInv, CastType
  <1>8. task'[k] = s /\ \A j \in Tasks : j # k => task'[j].pc = "done"
    BY <1>2, <1>6 DEF CastInv, CastType
  <1>9. AloneInv'
    BY <1>2, <1>8 DEF AloneInv
  <1>10. HeedInv'
    <2>1. task[k].pc = "attempt" => late = 0
      BY DEF CastInv, HeedInv
    <2>2. \A j \in Tasks : task'[j].pc # "attempt"
      BY <1>4, <1>8
    <2>3. late # 0 => late = 1 /\ cancel
      BY <1>0 DEF CastInv, HeedInv, Over
    <2> QED
      BY <2>1, <2>2, <2>3 DEF HeedInv
  <1>11. PagesInv'
    BY <1>5, <1>6, <1>8 DEF CastInv, PagesInv, EverybodyOnce
  <1> QED
    BY <1>7, <1>9, <1>10, <1>11 DEF CastInv

LEMMA TaskKeepsCast ==
  ASSUME CastInv, NEW k \in Tasks,
         \/ ReadPage(k) \/ PageDone(k) \/ Pick(k) \/ Deliver(k) \/ RetryAfter(k) \/ Refused(k)
         \/ Deactivate(k) \/ Summary(k) \/ Interrupt(k)
  PROVE  CastInv'
  <1> DEFINE t == task[k]
             u == First(t.batch)
  <1>0. t \in TaskType
    BY DEF CastInv, CastType
  <1>1. t.pc # "done"
    BY DEF ReadPage, PageDone, Pick, Deliver, RetryAfter, Refused, Deactivate, Summary, Interrupt, At
  <1>2. Paging(t, reached, present, cancel)
    BY <1>1 DEF CastInv, PagesInv
  <1>3. /\ k = current /\ \A j \in Tasks : j # k => task[j].pc = "done"
        /\ \A a \in Admins : sender[a] = None
    BY <1>1 DEF CastInv, AloneInv, Over
  <1>4. active \in SUBSET Nat /\ present \in SUBSET Nat /\ reached \in SUBSET Nat /\ present \subseteq active
    BY Numbered DEF CastInv, CastType
  <1> HIDE DEF t
  <1>5. CASE ReadPage(k)
    <2>1. /\ t.pc = "page"
          /\ UNCHANGED <<active, current, cancel, sender, reached, present, verdict, late, twice>>
      BY <1>5 DEF ReadPage, At, history, t
    <2>2. CASE /\ cancel \/ NextBatch(t.last) = {}
               /\ task' = [task EXCEPT ![k] = [t EXCEPT !.pc = "summary"]]
      <3> DEFINE s == [t EXCEPT !.pc = "summary"]
      <3>1. s \in TaskType /\ s.pc = "summary" /\ s.last = t.last /\ s.batch = t.batch
        BY <1>0 DEF TaskType, Underway
      <3>2. cancel \/ present \subseteq reached
        BY <2>1, <2>2, <1>0, <1>2, <1>4, PagingTurns
      <3>3. task' = [task EXCEPT ![k] = s]
        BY <2>2
      <3> HIDE DEF s
      <3>4. Paging(s, reached, present, cancel)
        BY <1>2, <3>1, <3>2 DEF Paging, Underway
      <3> QED
        BY <1>1, <2>1, <3>1, <3>3, <3>4, TaskMoves DEF t
    <2>3. CASE task' = [task EXCEPT ![k] = [t EXCEPT !.pc = "send", !.batch = NextBatch(t.last)]]
      <3> DEFINE s == [t EXCEPT !.pc = "send", !.batch = NextBatch(t.last)]
      <3>1. s \in TaskType /\ Paging(s, reached, present, cancel)
        BY <2>1, <1>0, <1>2, <1>4, PagingTurns
      <3>2. s.pc = "send"
        BY <1>0 DEF TaskType
      <3>3. task' = [task EXCEPT ![k] = s]
        BY <2>3
      <3> HIDE DEF s
      <3> QED
        BY <1>1, <2>1, <3>1, <3>2, <3>3, TaskMoves DEF t
    <2>4. CASE task' = [task EXCEPT ![k] = [t EXCEPT !.pc = "summary", !.cut = TRUE]]
      <3> DEFINE s == [t EXCEPT !.pc = "summary", !.cut = TRUE]
      <3>1. s \in TaskType /\ s.pc = "summary" /\ s.cut /\ s.last = t.last /\ s.batch = t.batch
        BY <1>0 DEF TaskType, Underway
      <3>2. task' = [task EXCEPT ![k] = s]
        BY <2>4
      <3> HIDE DEF s
      <3>3. Paging(s, reached, present, cancel)
        BY <1>2, <3>1 DEF Paging, Underway
      <3> QED
        BY <1>1, <2>1, <3>1, <3>2, <3>3, TaskMoves DEF t
    <2> QED
      BY <1>5, <2>2, <2>3, <2>4 DEF ReadPage, StopHere, To, t
  <1>6. CASE PageDone(k)
    <2> DEFINE s == [t EXCEPT !.pc = "page", !.batch = {}]
    <2>1. /\ t.pc = "send" /\ task' = [task EXCEPT ![k] = s]
          /\ UNCHANGED <<active, current, cancel, sender, reached, present, verdict, late, twice>>
      BY <1>6 DEF PageDone, At, StopHere, To, history, t
    <2>2. s \in TaskType /\ s.pc = "page" /\ s.last = t.last /\ s.batch = {}
      BY <1>0 DEF TaskType, Underway
    <2> HIDE DEF s
    <2>3. Paging(s, reached, present, cancel)
      BY <1>2, <2>1, <2>2 DEF Paging, Underway
    <2> QED
      BY <1>1, <2>1, <2>2, <2>3, TaskMoves DEF t
  <1>7. CASE Pick(k)
    <2> DEFINE s == [t EXCEPT !.pc = "attempt"]
    <2>1. /\ t.pc = "send" /\ t.batch # {} /\ ~ cancel /\ task' = [task EXCEPT ![k] = s]
          /\ UNCHANGED <<active, current, cancel, sender, reached, present, verdict, late, twice>>
      BY <1>7 DEF Pick, At, StopHere, To, history, t
    <2>2. s \in TaskType /\ s.pc = "attempt" /\ s.last = t.last /\ s.batch = t.batch
      BY <1>0 DEF TaskType, Underway
    <2> HIDE DEF s
    <2>3. Paging(s, reached, present, cancel)
      BY <1>2, <2>1, <2>2 DEF Paging, Underway
    <2> QED
      BY <1>1, <2>1, <2>2, <2>3, TaskMoves DEF t
  <1>8. CASE Deliver(k)
    <2>1. /\ t.pc = "attempt" /\ task' = [task EXCEPT ![k] = Passed(t)]
          /\ reached' = reached \cup {First(t.batch)}
          /\ twice' = (twice \/ First(t.batch) \in reached)
          /\ late' = IF cancel THEN late + 1 ELSE late
          /\ UNCHANGED <<active, current, cancel, sender, present, verdict>>
      BY <1>8 DEF Deliver, At, To, t
    <2>2. present' = present \cap active'
      BY <2>1, <1>4
    <2> QED
      BY <2>1, <2>2, TaskPasses DEF t
  <1>9. CASE RetryAfter(k)
    <2>1. /\ t.pc = "attempt"
          /\ UNCHANGED <<active, current, cancel, sender, present, verdict, late, twice>>
          /\ \/ task' = [task EXCEPT ![k] = [t EXCEPT !.tries = @ + 1]] /\ reached' = reached
             \/ task' = [task EXCEPT ![k] = Passed(t)] /\ reached' = reached \cup {First(t.batch)}
      BY <1>9 DEF RetryAfter, At, To, t
    <2>2. CASE task' = [task EXCEPT ![k] = [t EXCEPT !.tries = @ + 1]] /\ reached' = reached
      <3> DEFINE s == [t EXCEPT !.tries = @ + 1]
      <3>1. /\ s \in TaskType /\ s.pc = t.pc /\ s.last = t.last /\ s.batch = t.batch
            /\ task' = [task EXCEPT ![k] = s]
        BY <1>0, <2>2 DEF TaskType, Underway
      <3> HIDE DEF s
      <3>2. Paging(s, reached, present, cancel)
        BY <1>2, <2>1, <3>1 DEF Paging, Underway
      <3> QED
        BY <1>1, <2>1, <2>2, <3>1, <3>2, TaskMoves DEF t
    <2>3. CASE task' = [task EXCEPT ![k] = Passed(t)] /\ reached' = reached \cup {First(t.batch)}
      <3>1. present' = present \cap active'
        BY <2>1, <1>4
      <3> QED
        BY <2>1, <2>3, <3>1, TaskPasses DEF t
    <2> QED
      BY <2>1, <2>2, <2>3
  <1>10. CASE Refused(k)
    <2> DEFINE s == [t EXCEPT !.pc = "deactivate"]
    <2>1. /\ t.pc = "attempt" /\ task' = [task EXCEPT ![k] = s]
          /\ UNCHANGED <<active, current, cancel, sender, reached, present, verdict, late, twice>>
      BY <1>10 DEF Refused, At, To, history, t
    <2>2. s \in TaskType /\ s.pc = "deactivate" /\ s.last = t.last /\ s.batch = t.batch
      BY <1>0 DEF TaskType, Underway
    <2> HIDE DEF s
    <2>3. Paging(s, reached, present, cancel)
      BY <1>2, <2>1, <2>2 DEF Paging, Underway
    <2> QED
      BY <1>1, <2>1, <2>2, <2>3, TaskMoves DEF t
  <1>11. CASE Deactivate(k)
    <2>1. /\ t.pc = "deactivate" /\ task' = [task EXCEPT ![k] = Passed(t)]
          /\ reached' = reached \cup {First(t.batch)}
          /\ active' \subseteq active /\ present' = present \cap active'
          /\ UNCHANGED <<current, cancel, sender, verdict, late, twice>>
      BY <1>11 DEF Deactivate, At, To, t
    <2> QED
      BY <2>1, TaskPasses DEF t
  <1>12. CASE Summary(k)
    <2>1. /\ t.pc = "summary" /\ task' = [task EXCEPT ![k] = Gone]
          /\ verdict' = [said |-> IF cancel THEN "stopped" ELSE "completed", cut |-> t.cut]
          /\ UNCHANGED <<active, current, cancel, sender, reached, present, late, twice>>
      BY <1>12 DEF Summary, At, To, t
    <2>2. \A j \in Tasks : task'[j].pc = "done"
      BY <2>1, <1>3, GoneType DEF CastInv, CastType
    <2>3. CastType'
      BY <2>1, GoneType DEF CastInv, CastType
    <2>4. AloneInv' /\ HeedInv'
      BY <2>1, <2>2, <1>3 DEF CastInv, AloneInv, HeedInv, Over
    <2>5. EverybodyOnce'
      <3>1. cancel \/ t.cut \/ present \subseteq reached
        BY <1>2, <2>1 DEF Paging
      <3> QED
        BY <2>1, <3>1 DEF CastInv, PagesInv, EverybodyOnce
    <2> QED
      BY <2>2, <2>3, <2>4, <2>5 DEF CastInv, PagesInv
  <1>13. CASE Interrupt(k)
    <2> DEFINE s == [t EXCEPT !.pc = "summary", !.cut = TRUE]
    <2>1. /\ task' = [task EXCEPT ![k] = s]
          /\ UNCHANGED <<active, current, cancel, sender, reached, present, verdict, late, twice>>
      BY <1>13 DEF Interrupt, To, history, t
    <2>2. s \in TaskType /\ s.pc = "summary" /\ s.cut /\ s.last = t.last /\ s.batch = t.batch
      BY <1>0 DEF TaskType, Underway
    <2> HIDE DEF s
    <2>3. Paging(s, reached, present, cancel)
      BY <1>2, <2>2 DEF Paging, Underway
    <2> QED
      BY <1>1, <2>1, <2>2, <2>3, TaskMoves DEF t
  <1> QED
    BY <1>5, <1>6, <1>7, <1>8, <1>9, <1>10, <1>11, <1>12, <1>13

LEMMA PeopleKeepCast ==
  ASSUME CastInv, NEW u \in People \cup Latecomers, Joins(u) \/ Blocks(u) \/ Returns(u) \/ Deletes(u)
  PROVE  CastInv'
  <1>1. /\ present' = present \cap active'
        /\ UNCHANGED <<task, current, cancel, sender, reached, verdict, late, twice>>
    BY DEF Joins, Blocks, Returns, Deletes, PeopleStep
  <1>2. active' \subseteq People \cup Latecomers
    BY DEF Joins, Blocks, Returns, Deletes, PeopleStep, CastInv, CastType
  <1>3. CastType' /\ AloneInv' /\ HeedInv'
    BY <1>1, <1>2 DEF CastInv, CastType, AloneInv, HeedInv, Over
  <1>4. \A k \in Tasks : task[k].pc # "done" => Paging(task[k], reached, present', cancel)
    BY <1>1, PagingShrinks DEF CastInv, PagesInv
  <1>5. PagesInv'
    BY <1>1, <1>4 DEF CastInv, PagesInv, EverybodyOnce
  <1> QED
    BY <1>3, <1>5 DEF CastInv

LEMMA EndKeepsCast ==
  ASSUME CastInv, ForgetCast
  PROVE  CastInv'
  <1>1. /\ task' = [k \in Tasks |-> Gone] /\ cancel' = FALSE /\ sender' = [a \in Admins |-> None]
        /\ UNCHANGED <<active, reached, present, verdict, late, twice>>
    BY DEF ForgetCast, history
  <1>2. \A k \in Tasks : task'[k].pc = "done"
    BY <1>1, GoneType
  <1> QED
    BY <1>1, <1>2, GoneType
    DEF CastInv, CastType, AloneInv, HeedInv, PagesInv, EverybodyOnce, Over

LEMMA CastHolds == CastInv /\ [Next]_vars => CastInv'
  <1> SUFFICES ASSUME CastInv, [Next]_vars PROVE CastInv'
    OBVIOUS
  <1>1. CASE UNCHANGED castVars
    BY <1>1 DEF castVars, CastInv, CastType, AloneInv, HeedInv, PagesInv, EverybodyOnce, Over
  <1>2. CASE CastNext
    BY <1>2, AdminsKeepCast, TaskKeepsCast, PeopleKeepCast DEF CastNext
  <1>3. CASE Process
    BY <1>1, <1>3, EndKeepsCast DEF Process, Ends
  <1> QED
    BY <1>1, <1>2, <1>3, RestKeeps DEF Next

\* However many administrators confirm, and however slowly (handlers/admin/broadcast.py,
\* broadcast_confirm_send), one announcement is on its way at a time: for any
\* administrators, people and tasks.
THEOREM OneBroadcastAtATime == Spec => []OneBroadcast
  <1>1. CastInv => OneBroadcast
    <2> SUFFICES ASSUME CastInv PROVE OneBroadcast
      OBVIOUS
    <2>1. {k \in Tasks : task[k].pc # "done"} \subseteq {current}
      BY DEF CastInv, AloneInv
    <2>2. IsFiniteSet({current}) /\ Cardinality({current}) = 1
      BY FS_Singleton
    <2>3. Cardinality({k \in Tasks : task[k].pc # "done"}) <= Cardinality({current})
      BY <2>1, <2>2, FS_Subset
    <2> QED
      BY <2>2, <2>3 DEF OneBroadcast
  <1> QED
    BY <1>1, CastStarts, CastHolds, PTL DEF Spec

\* However people join, leave, block, come back and are deactivated between two pages
\* (_run_broadcast, get_active_user_ids_cursor), nobody gets an announcement twice and a
\* completed one was tried on everybody: for any people and any size of the pages.
THEOREM EverybodyIsReachedOnce == Spec => []EverybodyOnce
  <1>1. CastInv => EverybodyOnce
    BY DEF CastInv, PagesInv
  <1> QED
    BY <1>1, CastStarts, CastHolds, PTL DEF Spec

\* After an administrator has stopped it (_broadcast_cancel), at most the message of an
\* announcement that was on its way arrives, whatever is confirmed next.
THEOREM StopIsAlwaysHeeded == Spec => []StopIsHeeded
  <1>1. CastInv => StopIsHeeded
    BY DEF CastInv, HeedInv, StopIsHeeded
  <1> QED
    BY <1>1, CastStarts, CastHolds, PTL DEF Spec
-----------------------------------------------------------------------------
(* The copies are what is stored                                           *)

Stored(s, k) == IF s[k] = None THEN Default[k] ELSE s[k]

Shown == {"enabled", "message"}  \* copies that change before their rows

Shaped(w) == w = [pc |-> w.pc, writes |-> w.writes, copies |-> w.copies, log |-> w.log]

\* A handler at work: what it writes, what it will remember, and what it logs.
Proper(w) ==
  /\ Shaped(w) /\ w.pc \in {"idle", "commit", "remember"}
  /\ \A k \in DOMAIN w.writes : w.writes[k] # None
  /\ \A k \in DOMAIN w.copies : w.copies[k] # None
  /\ w.pc = "commit" =>
       /\ \A k \in DOMAIN w.copies : k \in DOMAIN w.writes /\ w.copies[k] = w.writes[k]
       /\ \A k \in DOMAIN w.writes : k \in Copies /\ k \notin DOMAIN w.copies => k \in Shown
       /\ "bot_paused" \in DOMAIN w.writes =>
            w.writes["bot_paused"] \in BOOLEAN /\ w.log = PauseEvent(w.writes["bot_paused"])
       /\ "bot_paused" \notin DOMAIN w.writes => w.log = None

\* The copies l, while w is at work, and the rows s.
Pending(w, l, s, un) ==
  \A k \in Copies :
    IF w.pc = "commit" /\ k \in DOMAIN w.writes /\ k \notin DOMAIN w.copies THEN l[k] = w.writes[k]
    ELSE IF w.pc = "remember" /\ k \in DOMAIN w.copies THEN w.copies[k] = Stored(s, k)
    ELSE k \notin un => l[k] = Stored(s, k)

PanelInv ==
  /\ DOMAIN stored = Keys /\ DOMAIN live = Copies /\ DOMAIN work = Presses
  /\ unsaved \subseteq Shown
  /\ stored["bot_paused"] \in BOOLEAN \cup {None} /\ \A k \in Copies : live[k] # None
  /\ \A p \in Presses : Proper(work[p])
  /\ phase \in {"down", "booting"} => ~ AtWork
  /\ lastLog # None => (lastLog = "pause_on" <=> Setting("bot_paused"))
  /\ ~ crossed =>
       /\ \A p, q \in Presses : work[p].pc # "idle" /\ work[q].pc # "idle" => p = q
       /\ phase \notin {"down", "booting"} =>
            /\ \A p \in Presses : work[p].pc # "idle" => Pending(work[p], live, stored, unsaved)
            /\ ~ AtWork => \A k \in Copies \ unsaved : live[k] = Stored(stored, k)

LEMMA EmptyWork == DOMAIN Nothing = {} /\ Proper(Quiet) /\ Quiet.pc = "idle"
  <1>1. DOMAIN Nothing = {}
    BY DEF Nothing
  <1> QED
    BY <1>1 DEF Quiet, Proper, Shaped

LEMMA DefaultIsSet == \A k \in Copies : Default[k] # None
  <1>1. /\ Default["chart"] = FALSE /\ Default["emoji"] = TRUE
        /\ Default["enabled"] = FALSE /\ Default["message"] = "default"
    BY DEF Default
  <1> QED
    BY <1>1, PanelAssumption DEF Copies

LEMMA PanelStarts == Init => PanelInv
  <1> SUFFICES ASSUME Init PROVE PanelInv
    OBVIOUS
  <1>1. PanelInit /\ phase = "down"
    BY DEF Init, LifeInit
  <1>2. "bot_paused" \in Keys
    BY DEF Keys
  <1> QED
    BY <1>1, <1>2, EmptyWork, DefaultIsSet DEF PanelInit, PanelInv, AtWork

\* A handler begins.
LEMMA TakeKeepsPanel ==
  ASSUME PanelInv, NEW p \in Presses, NEW w, Take(p, w), Proper(w),
         DOMAIN live' = Copies, \A k \in Copies : live'[k] # None,
         unsaved' = unsaved,
         w.pc # "idle" /\ ~ AtWork /\ (\A k \in Copies \ unsaved : live[k] = Stored(stored, k)) =>
           Pending(w, live', stored, unsaved),
         w.pc = "idle" => live' = live
  PROVE  PanelInv'
  <1>1. /\ phase' = phase /\ phase \notin {"down", "booting"} /\ work[p].pc = "idle"
        /\ work' = [work EXCEPT ![p] = w] /\ crossed' = (crossed \/ AtWork)
        /\ UNCHANGED <<stored, lastLog>>
    BY DEF Take, processVars
  <1>2. work'[p] = w /\ \A q \in Presses : q # p => work'[q] = work[q]
    BY <1>1 DEF PanelInv
  <1>3. ASSUME ~ crossed'
        PROVE  /\ \A q, r \in Presses : work'[q].pc # "idle" /\ work'[r].pc # "idle" => q = r
               /\ \A q \in Presses : work'[q].pc # "idle" => Pending(work'[q], live', stored, unsaved)
               /\ ~ AtWork' => \A k \in Copies \ unsaved : live'[k] = Stored(stored, k)
    <2>1. /\ ~ crossed /\ \A q \in Presses : work[q].pc = "idle"
          /\ \A k \in Copies \ unsaved : live[k] = Stored(stored, k)
      BY <1>1, <1>3 DEF PanelInv, AtWork
    <2>2. \A q \in Presses : work'[q].pc # "idle" => q = p /\ w.pc # "idle"
      BY <1>2, <2>1
    <2>3. ~ AtWork' => live' = live
      BY <1>2 DEF AtWork
    <2> QED
      BY <1>2, <2>1, <2>2, <2>3 DEF AtWork
  <1> QED
    BY <1>1, <1>2, <1>3 DEF PanelInv, Setting

LEMMA WritesIs ==
  ASSUME NEW x
  PROVE  Writes(x) = [pc |-> "commit", writes |-> x, copies |-> Nothing, log |-> None]
  BY DEF Writes

LEMMA SetKeepsPanel ==
  ASSUME PanelInv, NEW p \in Presses, NEW w, Set(p, w), Proper(w), w.pc = "commit",
         \A k \in DOMAIN w.writes : k \in Copies => k \in DOMAIN w.copies
  PROVE  PanelInv'
  <1>1. Take(p, w) /\ live' = live /\ unsaved' = unsaved
    BY DEF Set
  <1>2. DOMAIN live' = Copies /\ \A k \in Copies : live'[k] # None
    BY <1>1 DEF PanelInv
  <1>3. (\A k \in Copies \ unsaved : live[k] = Stored(stored, k)) => Pending(w, live', stored, unsaved)
    BY <1>1 DEF Pending
  <1> QED
    BY <1>1, <1>2, <1>3, TakeKeepsPanel

\* A setting nothing is copied from.
LEMMA PlainKeepsPanel ==
  ASSUME PanelInv, NEW p \in Presses, NEW x, Set(p, Writes(x)),
         \A k \in DOMAIN x : k \notin Copies /\ k # "bot_paused" /\ x[k] # None
  PROVE  PanelInv'
  <1>1. Proper(Writes(x)) /\ Writes(x).pc = "commit" /\ Writes(x).writes = x
    BY WritesIs, EmptyWork DEF Proper, Shaped
  <1> QED
    BY <1>1, SetKeepsPanel

\* A setting that is remembered once it is stored.
LEMMA CopiedKeepsPanel ==
  ASSUME PanelInv, NEW p \in Presses, NEW x, Set(p, [Writes(x) EXCEPT !.copies = x]),
         \A k \in DOMAIN x : k # "bot_paused" /\ x[k] # None
  PROVE  PanelInv'
  <1> DEFINE w == [pc |-> "commit", writes |-> x, copies |-> x, log |-> None]
  <1>1. [Writes(x) EXCEPT !.copies = x] = w
    BY WritesIs
  <1>2. Proper(w) /\ w.pc = "commit" /\ w.writes = x /\ w.copies = x
    BY DEF Proper, Shaped
  <1>3. Set(p, w)
    BY <1>1
  <1> HIDE DEF w
  <1> QED
    BY <1>2, <1>3, SetKeepsPanel

\* A copy that changes before its row.
LEMMA PersistKeepsPanel ==
  ASSUME PanelInv, NEW p \in Presses, NEW x, Persist(p, x),
         DOMAIN x \subseteq Shown, \A k \in DOMAIN x : x[k] # None
  PROVE  PanelInv'
  <1> DEFINE w == Writes(x)
  <1>1. w = [pc |-> "commit", writes |-> x, copies |-> Nothing, log |-> None]
    BY WritesIs
  <1>2. Proper(w) /\ w.pc = "commit" /\ w.writes = x /\ DOMAIN w.copies = {}
    <2>1. "bot_paused" \notin DOMAIN x
      BY DEF Shown
    <2> QED
      BY <1>1, <2>1, EmptyWork DEF Proper, Shaped
  <1>3. Take(p, w) /\ live' = Updated(live, x) /\ unsaved' = unsaved
    BY DEF Persist
  <1>4. DOMAIN live' = Copies /\ \A k \in Copies : live'[k] = IF k \in DOMAIN x THEN x[k] ELSE live[k]
    BY <1>3 DEF Updated, PanelInv
  <1> HIDE DEF w
  <1>5. (\A k \in Copies \ unsaved : live[k] = Stored(stored, k)) => Pending(w, live', stored, unsaved)
    BY <1>2, <1>4 DEF Pending
  <1>6. \A k \in Copies : live'[k] # None
    BY <1>4 DEF PanelInv
  <1> QED
    BY <1>2, <1>3, <1>4, <1>5, <1>6, TakeKeepsPanel

LEMMA PressesKeepPanel ==
  ASSUME PanelInv, NEW p \in Presses,
         \/ PauseToggle(p) \/ SwitchToggle(p) \/ SetText(p) \/ SetNumber(p) \/ AdminScheduleSet(p)
         \/ SetChartRender(p) \/ AdminButtonEmoji(p) \/ AdminButtonEmojiSet(p)
         \/ MaintenanceToggle(p) \/ MaintenanceMessage(p)
         \/ \E a \in Admins : AdminRouter(p, a)
  PROVE  PanelInv'
  <1> USE PanelAssumption, LifecycleAssumption
  <1>1. CASE PauseToggle(p)
    <2> DEFINE on == ~ Setting("bot_paused")
               w == [pc |-> "commit", writes |-> [bot_paused |-> on], copies |-> Nothing, log |-> PauseEvent(on)]
    <2>1. on \in BOOLEAN
      OBVIOUS
    <2>2. Set(p, w)
      BY <1>1, WritesIs DEF PauseToggle
    <2> HIDE DEF on
    <2>3. /\ w.pc = "commit" /\ w.writes = [bot_paused |-> on] /\ w.copies = Nothing
          /\ w.log = PauseEvent(on) /\ Shaped(w)
      BY DEF Shaped
    <2> HIDE DEF w
    <2>4. /\ DOMAIN w.writes = {"bot_paused"} /\ w.writes["bot_paused"] = on
          /\ DOMAIN w.copies = {} /\ "bot_paused" \notin Copies
      BY <2>3, EmptyWork DEF Copies
    <2>5. Proper(w)
      BY <2>1, <2>3, <2>4 DEF Proper
    <2> QED
      BY <2>2, <2>3, <2>4, <2>5, SetKeepsPanel
  <1>2. CASE SwitchToggle(p)
    <2> DEFINE v == ~ Setting("switch")
               x == [switch |-> v]
    <2>1. v \in BOOLEAN
      OBVIOUS
    <2>2. v # None
      BY <2>1
    <2> HIDE DEF v
    <2>3. \A k \in DOMAIN x : k \notin Copies /\ k # "bot_paused" /\ x[k] # None
      BY <2>2 DEF Copies
    <2> QED
      BY <1>2, <2>3, PlainKeepsPanel DEF SwitchToggle, v
  <1>3. CASE SetText(p)
    <2> DEFINE x == [text |-> "custom"]
    <2>1. \A k \in DOMAIN x : k \notin Copies /\ k # "bot_paused" /\ x[k] # None
      BY DEF Copies
    <2> QED
      BY <1>3, <2>1, PlainKeepsPanel DEF SetText
  <1>4. CASE SetNumber(p)
    <2> DEFINE x == [number |-> 1]
    <2>1. \A k \in DOMAIN x : k \notin Copies /\ k # "bot_paused" /\ x[k] # None
      BY DEF Copies
    <2> QED
      BY <1>4, <2>1, PlainKeepsPanel DEF SetNumber
  <1>5. CASE AdminScheduleSet(p)
    <2>1. PICK i \in Intervals : Set(p, Writes([interval |-> i]))
      BY <1>5 DEF AdminScheduleSet
    <2> DEFINE x == [interval |-> i]
    <2>2. \A k \in DOMAIN x : k \notin Copies /\ k # "bot_paused" /\ x[k] # None
      BY DEF Copies
    <2> QED
      BY <2>1, <2>2, PlainKeepsPanel
  <1>6. CASE SetChartRender(p)
    <2> DEFINE v == ~ Setting("chart")
               x == [chart |-> v]
    <2>1. v \in BOOLEAN
      OBVIOUS
    <2>2. v # None
      BY <2>1
    <2> HIDE DEF v
    <2>3. \A k \in DOMAIN x : k # "bot_paused" /\ x[k] # None
      BY <2>2
    <2> QED
      BY <1>6, <2>3, CopiedKeepsPanel DEF SetChartRender, v
  <1>7. CASE AdminButtonEmoji(p)
    <2> DEFINE c == [emoji |-> EmojiSetting]
               w == [pc |-> "remember", writes |-> Nothing, copies |-> c, log |-> None]
    <2>1. Take(p, w) /\ live' = live /\ unsaved' = unsaved
      BY <1>7 DEF AdminButtonEmoji, Set
    <2>2. DOMAIN c = {"emoji"} /\ c["emoji"] = EmojiSetting /\ EmojiSetting # None
      BY DEF EmojiSetting, PanelInv, Copies
    <2> HIDE DEF c
    <2>3. /\ Shaped(w) /\ w.pc = "remember" /\ w.writes = Nothing /\ w.copies = c
      BY DEF Shaped
    <2> HIDE DEF w
    <2>4. Proper(w)
      BY <2>2, <2>3, EmptyWork DEF Proper
    <2>5. "emoji" \in Copies \ unsaved
      BY DEF PanelInv, Copies, Shown
    <2>6. (\A k \in Copies \ unsaved : live[k] = Stored(stored, k)) => Pending(w, live', stored, unsaved)
      <3> SUFFICES ASSUME \A k \in Copies \ unsaved : live[k] = Stored(stored, k)
                   PROVE  Pending(w, live', stored, unsaved)
        OBVIOUS
      <3>1. EmojiSetting = Stored(stored, "emoji")
        BY <2>5 DEF EmojiSetting, Stored
      <3> QED
        BY <2>1, <2>2, <2>3, <3>1 DEF Pending
    <2>7. DOMAIN live' = Copies /\ \A k \in Copies : live'[k] # None
      BY <2>1 DEF PanelInv
    <2> QED
      BY <2>1, <2>3, <2>4, <2>6, <2>7, TakeKeepsPanel
  <1>8. CASE AdminButtonEmojiSet(p)
    <2> DEFINE v == ~ EmojiSetting
               x == [emoji |-> v]
    <2>1. v \in BOOLEAN
      OBVIOUS
    <2>2. v # None
      BY <2>1
    <2> HIDE DEF v
    <2>3. \A k \in DOMAIN x : k # "bot_paused" /\ x[k] # None
      BY <2>2
    <2> QED
      BY <1>8, <2>3, CopiedKeepsPanel DEF AdminButtonEmojiSet, v
  <1>9. CASE MaintenanceToggle(p)
    <2> DEFINE v == ~ live["enabled"]
               x == [enabled |-> v]
    <2>1. v \in BOOLEAN
      OBVIOUS
    <2>2. v # None
      BY <2>1
    <2> HIDE DEF v
    <2>3. DOMAIN x \subseteq Shown /\ \A k \in DOMAIN x : x[k] # None
      BY <2>2 DEF Shown
    <2> QED
      BY <1>9, <2>3, PersistKeepsPanel DEF MaintenanceToggle, v
  <1>10. CASE MaintenanceMessage(p)
    <2> DEFINE x == [message |-> "custom", enabled |-> live["enabled"]]
    <2>1. DOMAIN x \subseteq Shown /\ \A k \in DOMAIN x : x[k] # None
      BY DEF Shown, PanelInv, Copies
    <2> QED
      BY <1>10, <2>1, PersistKeepsPanel DEF MaintenanceMessage
  <1>11. ASSUME NEW a \in Admins, AdminRouter(p, a) PROVE PanelInv'
    <2>1. Take(p, Quiet) /\ live' = live /\ unsaved' = unsaved
      BY <1>11 DEF AdminRouter
    <2>2. DOMAIN live' = Copies /\ \A k \in Copies : live'[k] # None
      BY <2>1 DEF PanelInv
    <2> QED
      BY <2>1, <2>2, EmptyWork, TakeKeepsPanel
  <1> QED
    BY <1>1, <1>2, <1>3, <1>4, <1>5, <1>6, <1>7, <1>8, <1>9, <1>10, <1>11

LEMMA CommitKeepsPanel ==
  ASSUME PanelInv, NEW p \in Presses, CommitPress(p)
  PROVE  PanelInv'
  <1> USE PanelAssumption DEF Copies
  <1> DEFINE w == work[p]
             v == IF w.copies = Nothing THEN Quiet ELSE [w EXCEPT !.pc = "remember"]
  <1>1. /\ w.pc = "commit" /\ Proper(w)
        /\ stored' = Updated(stored, w.writes) /\ unsaved' = unsaved \ DOMAIN w.writes
        /\ lastLog' = IF w.log = None THEN lastLog ELSE w.log
        /\ UNCHANGED <<phase, live, crossed>>
        /\ work' = [work EXCEPT ![p] = v]
    BY DEF CommitPress, lifeVars, processVars, PanelInv
  <1>2. v = Quiet \/ v = [pc |-> "remember", writes |-> w.writes, copies |-> w.copies, log |-> w.log]
    BY <1>1 DEF Proper, Shaped
  <1>3. /\ Proper(v)
        /\ v.pc = "remember" => v.copies = w.copies
        /\ v.pc = "idle" => DOMAIN w.copies = {}
        /\ v.pc \in {"idle", "remember"}
    BY <1>1, <1>2, EmptyWork DEF Proper, Shaped
  <1>4. /\ DOMAIN stored' = Keys
        /\ \A k \in Keys : stored'[k] = IF k \in DOMAIN w.writes THEN w.writes[k] ELSE stored[k]
    BY <1>1 DEF Updated, PanelInv
  <1> HIDE DEF v
  <1>5. DOMAIN work' = Presses /\ work'[p] = v /\ \A q \in Presses : q # p => work'[q] = work[q]
    BY <1>1 DEF PanelInv
  <1> HIDE DEF w
  <1>6. "bot_paused" \in Keys /\ Copies \subseteq Keys
    BY DEF Keys
  <1>7. /\ stored'["bot_paused"] \in BOOLEAN \cup {None}
        /\ lastLog' # None => (lastLog' = "pause_on" <=> Setting("bot_paused")')
    <2>1. CASE "bot_paused" \in DOMAIN w.writes
      <3>1. stored'["bot_paused"] = w.writes["bot_paused"] /\ stored'["bot_paused"] \in BOOLEAN
        BY <1>1, <1>4, <1>6, <2>1 DEF Proper
      <3>2. lastLog' = PauseEvent(w.writes["bot_paused"])
        BY <1>1, <2>1 DEF Proper, PauseEvent
      <3>3. Setting("bot_paused")' = w.writes["bot_paused"]
        BY <3>1 DEF Setting
      <3> QED
        BY <3>1, <3>2, <3>3 DEF PauseEvent
    <2>2. CASE "bot_paused" \notin DOMAIN w.writes
      BY <1>1, <1>4, <1>6, <2>2 DEF Proper, PanelInv, Setting
    <2> QED
      BY <2>1, <2>2
  <1>8. ASSUME ~ crossed'
        PROVE  /\ \A q, r \in Presses : work'[q].pc # "idle" /\ work'[r].pc # "idle" => q = r
               /\ \A q \in Presses : work'[q].pc # "idle" => Pending(work'[q], live', stored', unsaved')
               /\ ~ AtWork' => \A k \in Copies \ unsaved' : live'[k] = Stored(stored', k)
    <2>1. \A q \in Presses : q # p => work[q].pc = "idle" /\ work'[q].pc = "idle"
      BY <1>1, <1>5, <1>8 DEF PanelInv, w
    <2>2. phase \notin {"down", "booting"}
      BY <1>1 DEF PanelInv, AtWork, w
    <2>3. Pending(w, live, stored, unsaved)
      BY <1>1, <1>8, <2>2 DEF PanelInv, w
    <2>4. ASSUME NEW k \in Copies, k \notin DOMAIN w.copies, k \notin unsaved'
          PROVE  live'[k] = Stored(stored', k)
      BY <1>1, <1>4, <1>6, <2>3, <2>4 DEF Pending, Stored, Proper
    <2>5. ASSUME NEW k \in Copies, k \in DOMAIN w.copies
          PROVE  w.copies[k] = Stored(stored', k)
      BY <1>1, <1>4, <1>6, <2>5 DEF Stored, Proper
    <2>6. v.pc # "idle" => Pending(v, live', stored', unsaved')
      BY <1>3, <2>4, <2>5 DEF Pending
    <2>7. ~ AtWork' => v.pc = "idle"
      BY <1>5 DEF AtWork
    <2> QED
      BY <1>3, <1>5, <2>1, <2>4, <2>6, <2>7
  <1>9. \A q \in Presses : Proper(work'[q])
    BY <1>3, <1>5 DEF PanelInv
  <1>10. phase' \in {"down", "booting"} => ~ AtWork'
    BY <1>1 DEF PanelInv, AtWork, w
  <1> QED
    BY <1>1, <1>4, <1>5, <1>7, <1>8, <1>9, <1>10 DEF PanelInv

\* A handler is done: nothing of it is left.
LEMMA DoneKeepsPanel ==
  ASSUME PanelInv, NEW p \in Presses, work' = [work EXCEPT ![p] = Quiet], work[p].pc # "idle",
         UNCHANGED <<phase, stored, lastLog, crossed>>,
         DOMAIN live' = Copies, \A k \in Copies : live'[k] # None, unsaved' \subseteq Shown,
         Pending(work[p], live, stored, unsaved) => \A k \in Copies \ unsaved' : live'[k] = Stored(stored, k)
  PROVE  PanelInv'
  <1>1. /\ DOMAIN work' = Presses /\ work'[p] = Quiet
        /\ \A q \in Presses : q # p => work'[q] = work[q]
    BY DEF PanelInv
  <1>2. phase \notin {"down", "booting"}
    BY DEF PanelInv, AtWork
  <1>3. ~ crossed =>
          /\ \A q \in Presses : work'[q].pc = "idle"
          /\ \A k \in Copies \ unsaved' : live'[k] = Stored(stored, k)
    BY <1>1, <1>2, EmptyWork DEF PanelInv
  <1> QED
    BY <1>1, <1>2, <1>3, EmptyWork DEF PanelInv, Setting, AtWork

LEMMA RememberKeepsPanel ==
  ASSUME PanelInv, NEW p \in Presses, Remember(p)
  PROVE  PanelInv'
  <1> DEFINE w == work[p]
  <1>1. /\ w.pc = "remember" /\ Proper(w) /\ work' = [work EXCEPT ![p] = Quiet]
        /\ UNCHANGED <<phase, stored, lastLog, crossed, unsaved>>
        /\ live' = Updated(live, w.copies)
    BY DEF Remember, lifeVars, processVars, PanelInv
  <1>2. DOMAIN live' = Copies /\ \A k \in Copies : live'[k] = IF k \in DOMAIN w.copies THEN w.copies[k] ELSE live[k]
    BY <1>1 DEF Updated, PanelInv
  <1>3. \A k \in Copies : live'[k] # None
    BY <1>1, <1>2 DEF Proper, PanelInv
  <1>4. Pending(w, live, stored, unsaved) => \A k \in Copies \ unsaved' : live'[k] = Stored(stored, k)
    BY <1>1, <1>2 DEF Pending
  <1>5. unsaved' \subseteq Shown
    BY <1>1 DEF PanelInv
  <1> QED
    BY <1>1, <1>2, <1>3, <1>4, <1>5, DoneKeepsPanel

LEMMA FailKeepsPanel ==
  ASSUME PanelInv, NEW p \in Presses, FailPress(p)
  PROVE  PanelInv'
  <1> DEFINE w == work[p]
  <1>1. /\ w.pc = "commit" /\ Proper(w) /\ work' = [work EXCEPT ![p] = Quiet]
        /\ UNCHANGED <<phase, stored, live, lastLog, crossed>>
        /\ unsaved' = unsaved \cup (DOMAIN w.writes \cap Shown)
    BY DEF FailPress, processVars, PanelInv, Shown
  <1>2. DOMAIN live' = Copies /\ (\A k \in Copies : live'[k] # None) /\ unsaved' \subseteq Shown
    BY <1>1 DEF PanelInv
  <1>3. Pending(w, live, stored, unsaved) => \A k \in Copies \ unsaved' : live'[k] = Stored(stored, k)
    BY <1>1 DEF Pending, Proper
  <1> QED
    BY <1>1, <1>2, <1>3, DoneKeepsPanel

LEMMA LoadKeepsPanel == PanelInv /\ Load => PanelInv'
  <1> SUFFICES ASSUME PanelInv, Load PROVE PanelInv'
    OBVIOUS
  <1>1. /\ phase = "booting" /\ phase' = "loaded" /\ ~ AtWork
        /\ UNCHANGED <<stored, lastLog, work, crossed>>
    BY DEF Load, PanelInv
  <1>2. \A k \in Copies : Reloaded[k] = Stored(stored, k) /\ Reloaded[k] # None
    BY DefaultIsSet DEF Reloaded, Setting, Stored
  <1>3. /\ DOMAIN live' = Copies /\ unsaved' \subseteq Shown
        /\ \A k \in Copies : live'[k] # None
        /\ \A k \in Copies \ unsaved' : live'[k] = Stored(stored, k)
    <2>1. DOMAIN Reloaded = Copies
      BY DEF Reloaded
    <2>2. CASE live' = Reloaded /\ unsaved' = {}
      BY <1>2, <2>1, <2>2
    <2>3. CASE /\ live' = [Reloaded EXCEPT !["enabled"] = Default["enabled"], !["message"] = Default["message"]]
               /\ unsaved' = {"enabled", "message"}
      <3>1. "enabled" \in Copies /\ "message" \in Copies
        BY DEF Copies
      <3> QED
        BY <1>2, <2>1, <2>3, <3>1, DefaultIsSet DEF Shown
    <2> QED
      BY <2>2, <2>3 DEF Load
  <1> QED
    BY <1>1, <1>3 DEF PanelInv, AtWork, Setting

\* The process ends, and nobody is at work.
LEMMA EndKeepsPanel ==
  ASSUME PanelInv, ForgetPanel, phase' = "down"
  PROVE  PanelInv'
  <1>1. ~ AtWork' /\ \A p \in Presses : work'[p] = Quiet
    BY EmptyWork DEF ForgetPanel, AtWork
  <1>2. DOMAIN live' = Copies /\ DOMAIN work' = Presses /\ \A k \in Copies : live'[k] # None
    BY DefaultIsSet DEF ForgetPanel
  <1>3. UNCHANGED <<stored, lastLog, unsaved, crossed>>
    BY DEF ForgetPanel
  <1> QED
    BY <1>1, <1>2, <1>3, EmptyWork DEF PanelInv, Setting, AtWork

\* The panel rests, and the process comes no nearer to being up.
LEMMA PanelRests ==
  ASSUME PanelInv, UNCHANGED <<stored, live, lastLog, work, unsaved, crossed>>,
         \/ phase' = phase
         \/ phase = "down" /\ phase' = "booting"
         \/ phase \notin {"down", "booting"} /\ phase' \notin {"down", "booting"}
  PROVE  PanelInv'
  BY DEF PanelInv, AtWork, Setting

LEMMA ProcessKeepsPanel == PanelInv /\ Process => PanelInv'
  <1> SUFFICES ASSUME PanelInv, Process PROVE PanelInv'
    OBVIOUS
  <1>1. CASE Boot /\ UNCHANGED panelVars
    BY <1>1, PanelRests DEF Boot, panelVars
  <1>2. CASE (Announce \/ Spawn(Setting("interval")) \/ Shutdown \/ StopLoops \/ CancelLoops) /\ UNCHANGED panelVars
    <2>1. phase \notin {"down", "booting"} /\ phase' \notin {"down", "booting"}
      BY <1>2 DEF Announce, AskNotice, SendNotice, Spawn, Shutdown, StopLoops, CancelLoops
    <2> QED
      BY <1>2, <2>1, PanelRests DEF panelVars
  <1>3. CASE (LoopSteps(Setting("interval")) \/ Tick) /\ UNCHANGED panelVars
    <2>1. phase' = phase
      BY <1>3 DEF LoopSteps, Beat, LoopEnds, LoopFails, LoopRestarts, Tick
    <2> QED
      BY <1>3, <2>1, PanelRests DEF panelVars
  <1>4. CASE (Close \/ Kill) /\ ForgetPanel
    BY <1>4, EndKeepsPanel DEF Close, Kill
  <1> QED
    BY <1>1, <1>2, <1>3, <1>4 DEF Process, Ends

LEMMA CastLeavesPanel == CastNext => UNCHANGED <<phase, stored, live, lastLog, work, unsaved, crossed>>
  <1> SUFFICES ASSUME CastNext PROVE UNCHANGED <<phase, stored, live, lastLog, work, unsaved, crossed>>
    OBVIOUS
  <1> USE DEF lifeVars, processVars, panelVars, AdminIdle
  <1>1. ASSUME NEW a \in Admins,
               \/ AdminBroadcast(a) \/ BroadcastText(a) \/ BroadcastEditText(a) \/ BroadcastCancel(a)
               \/ ConfirmSend(a) \/ ConfirmClear(a) \/ ConfirmCreate(a) \/ BroadcastCancelActive(a)
        PROVE  UNCHANGED <<phase, stored, live, lastLog, work, unsaved, crossed>>
    BY <1>1 DEF AdminBroadcast, BroadcastText, BroadcastEditText, BroadcastCancel, ConfirmSend,
         ConfirmClear, ConfirmCreate, BroadcastCancelActive, Compose, Speak
  <1>2. ASSUME NEW k \in Tasks,
               \/ ReadPage(k) \/ PageDone(k) \/ Pick(k) \/ Deliver(k) \/ RetryAfter(k) \/ Refused(k)
               \/ Deactivate(k) \/ Summary(k) \/ Interrupt(k)
        PROVE  UNCHANGED <<phase, stored, live, lastLog, work, unsaved, crossed>>
    BY <1>2 DEF ReadPage, PageDone, Pick, Deliver, RetryAfter, Refused, Deactivate, Summary, Interrupt
  <1>3. ASSUME NEW u \in People \cup Latecomers, Joins(u) \/ Blocks(u) \/ Returns(u) \/ Deletes(u)
        PROVE  UNCHANGED <<phase, stored, live, lastLog, work, unsaved, crossed>>
    BY <1>3 DEF Joins, Blocks, Returns, Deletes, PeopleStep
  <1> QED
    BY <1>1, <1>2, <1>3 DEF CastNext

LEMMA PanelHolds == PanelInv /\ [Next]_vars => PanelInv'
  <1> SUFFICES ASSUME PanelInv, [Next]_vars PROVE PanelInv'
    OBVIOUS
  <1>1. CASE Process
    BY <1>1, ProcessKeepsPanel
  <1>2. CASE PanelNext
    BY <1>2, PressesKeepPanel, CommitKeepsPanel, RememberKeepsPanel, FailKeepsPanel, LoadKeepsPanel DEF PanelNext
  <1>3. CASE CastNext
    BY <1>3, CastLeavesPanel, PanelRests
  <1>4. CASE (CleanNext \/ \E m \in Messages : QueueMessage(m)) /\ UNCHANGED panelVars
    BY <1>4, CleanKeeps, QueueingKeeps, PanelRests DEF panelVars, processVars
  <1>5. CASE Rest \/ UNCHANGED vars
    BY <1>5, RestKeeps, PanelRests DEF panelVars, lifeVars, processVars
  <1> QED
    BY <1>1, <1>2, <1>3, <1>4, <1>5 DEF Next

\* Whatever the administrators press and wherever the process is killed (handlers/admin,
\* maintenance.py, app.py): as long as no two handlers have overlapped, the copies in
\* memory are what a restart would read back, and the pause log ends with the state the
\* pause is in; for any administrators and handlers.
THEOREM CopiesStayStored == Spec => []CopiesAreStored
  <1>1. PanelInv => CopiesAreStored
    <2> SUFFICES ASSUME PanelInv, ~ crossed PROVE CopiesAreStored
      BY DEF CopiesAreStored
    <2>1. Up => phase \notin {"down", "booting"}
      BY DEF Up
    <2>2. \A k : Setting(k) = Stored(stored, k)
      BY DEF Setting, Stored
    <2> QED
      BY <2>1, <2>2 DEF PanelInv, CopiesAreStored
  <1> QED
    BY <1>1, PanelStarts, PanelHolds, PTL DEF Spec
=============================================================================
