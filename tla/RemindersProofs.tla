--------------------------- MODULE RemindersProofs ---------------------------
(***************************************************************************)
(* Proofs about Reminders, for any replicas, users, leads, schedules and   *)
(* budgets.  None of the properties is inductive.                          *)
(*                                                                         *)
(* TypeOK needs that a job in the middle of its work has the event, the    *)
(* lead and the user it works on; ReminderSentOnce that what was sent is   *)
(* in sent_reminders or on its way there, and that those who are still to  *)
(* be messaged have nothing there.                                         *)
(*                                                                         *)
(* ChatsInv is about what a chat shows while the loops do not overlap: the *)
(* one reminder that is tracked or about to be (OneReminder), whose event  *)
(* is that of the newest row (CleansPassedOnly), and which the cycle of    *)
(* this minute has either looked at or has still to (PassedRemindersGo).   *)
(*                                                                         *)
(* PromptInv counts: each minute of the window that has passed without the *)
(* reminder is one of the Lost (RemindedInTime).  NightInv follows the     *)
(* catch-up from its start to the row (NothingMissedByNight).              *)
(***************************************************************************)
EXTENDS Reminders, TLAPS, FiniteSetTheorems, WellFoundedInduction

Rounding == {"send", "forgetOld", "message", "save", "mark"}

LocalsOk(l) ==
  /\ l.pc \in Rounding \cup {"check"} => l.anchor \in Anchors
  /\ l.pc \in Rounding => l.lead \in Leads
  /\ l.pc \in {"forget", "forgetOld", "message", "save"} => l.user \in Users

LocalsInv == \A j \in Jobs : LocalsOk(loc[j])

FiniteInv == \A u \in Users, c \in Chats : IsFiniteSet(sent[u][c])

TypeInv == TypeOK /\ LocalsInv /\ FiniteInv
-----------------------------------------------------------------------------
(* Values                                                                  *)

\* Numbers have a least one.
LEMMA LeastNumber ==
  ASSUME NEW S \in SUBSET Nat, S # {}
  PROVE  \E t \in S : \A x \in S : t <= x
  <1> DEFINE R == OpToRel(<, Nat)
  <1>1. IsWellFoundedOn(R, Nat)
    BY NatLessThanWellFounded
  <1>2. \A x, y \in Nat : x < y => <<x, y>> \in R
    BY DEF OpToRel
  <1> HIDE DEF R
  <1>3. PICK t \in S : \A y \in S : ~ (<<y, t>> \in R)
    BY <1>1, WFMin
  <1>4. ASSUME NEW x \in S
        PROVE  t <= x
    <2>1. x \in Nat /\ t \in Nat
      OBVIOUS
    <2>2. ~ (x < t)
      BY <1>2, <1>3, <2>1
    <2> QED
      BY <2>1, <2>2
  <1> QED
    BY <1>4

\* find_next_event returns a time, or nothing.
LEMMA AnchorType ==
  ASSUME NEW o \in Schedules, NEW c \in Minutes
  PROVE  NextAnchor(o, c) \in Anchors \cup {None}
  <1>1. Horizon \in Nat /\ o \subseteq Minutes
    BY RemindersAssumption DEF RemindersAssumption
  <1>2. Minutes \subseteq Anchors /\ Anchors \subseteq Nat
    BY <1>1 DEF Minutes, Anchors
  <1>3. ASSUME NEW S \in SUBSET Anchors
        PROVE  Earliest(S) \in Anchors \cup {None}
    <2>1. CASE S = {}
      BY <2>1 DEF Earliest
    <2>2. CASE S # {}
      <3>1. \E t \in S : \A x \in S : t <= x
        BY <1>2, <1>3, <2>2, LeastNumber
      <3>2. Earliest(S) \in S
        BY <2>2, <3>1 DEF Earliest
      <3> QED
        BY <1>3, <3>2
    <2> QED
      BY <2>1, <2>2
  <1>4. {t \in Anchors : t > c /\ t \notin o} \subseteq Anchors
    OBVIOUS
  <1>5. {t \in o : t > c} \subseteq Anchors
    BY <1>1, <1>2
  <1> QED
    BY <1>3, <1>4, <1>5 DEF NextAnchor

\* A job at rest is locals.
LEMMA RestingType == Resting \in LocType /\ Resting.pc = "idle"
  BY DEF Resting, LocType, Pcs, EventKinds, MessageIds, NoMessages

\* An update of one job's locals.
LEMMA LocStep ==
  ASSUME TypeInv, NEW j \in Jobs, NEW l \in LocType, LocalsOk(l),
         loc' = [loc EXCEPT ![j] = l]
  PROVE  /\ loc' \in [Jobs -> LocType]
         /\ LocalsInv'
         /\ loc'[j] = l
         /\ \A i \in Jobs \ {j} : loc'[i] = loc[i]
  <1>1. loc \in [Jobs -> LocType]
    BY DEF TypeInv, TypeOK
  <1>2. /\ loc' \in [Jobs -> LocType]
        /\ loc'[j] = l
        /\ \A i \in Jobs \ {j} : loc'[i] = loc[i]
    BY <1>1
  <1>3. ASSUME NEW i \in Jobs
        PROVE  LocalsOk(loc'[i])
    BY <1>2 DEF TypeInv, LocalsInv
  <1> QED
    BY <1>2, <1>3 DEF LocalsInv

\* A spent budget is one less, and so is that of all events.
LEMMA Spending ==
  ASSUME TypeOK, NEW k \in Events \ {"any"}, Spend(k)
  PROVE  /\ budget' \in [Events -> Nat]
         /\ budget'[k] < budget[k]
         /\ \A i \in Events : budget'[i] <= budget[i]
  <1>1. budget \in [Events -> Nat] /\ "any" \in Events
    BY DEF TypeOK, Events
  <1>2. budget[k] \in Nat /\ budget[k] > 0 /\ budget["any"] \in Nat /\ budget["any"] > 0
    BY <1>1 DEF Spend
  <1>3. budget[k] - 1 \in Nat /\ budget["any"] - 1 \in Nat
    BY <1>2
  <1>4. budget' = [budget EXCEPT ![k] = budget[k] - 1, !["any"] = budget["any"] - 1]
    BY DEF Spend
  <1>5. /\ budget' \in [Events -> Nat]
        /\ budget'[k] = budget[k] - 1
        /\ \A i \in Events : budget'[i] = budget[i] \/ budget'[i] = budget[i] - 1
    BY <1>1, <1>3, <1>4
  <1> QED
    BY <1>1, <1>2, <1>5

\* The budget after a step that may spend.
LEMMA MaySpend ==
  ASSUME TypeOK, NEW k \in Events \ {"any"}, Spend(k) \/ UNCHANGED budget
  PROVE  budget' \in [Events -> Nat] /\ \A i \in Events : budget'[i] <= budget[i]
  <1>1. budget \in [Events -> Nat]
    BY DEF TypeOK
  <1>2. CASE UNCHANGED budget
    BY <1>1, <1>2
  <1> QED
    BY <1>2, Spending
-----------------------------------------------------------------------------
(* Types                                                                   *)

\* The clock and the source.
LEMMA EnvTypes ==
  ASSUME TypeInv, Tick \/ Publish \/ Over
  PROVE  TypeInv'
  <1>1. TypeOK
    BY DEF TypeInv
  <1>2. "slow" \in Events \ {"any"} /\ "publish" \in Events \ {"any"}
    BY DEF Events
  <1>3. CASE Tick
    <2>1. clock' \in Minutes
      BY <1>1, <1>3, RemindersAssumption DEF Tick, TypeOK, Minutes, RemindersAssumption
    <2>2. budget' \in [Events -> Nat]
      BY <1>1, <1>2, <1>3, MaySpend DEF Tick
    <2>3. UNCHANGED <<off, changed, loc, procVars, dbVars, chatVars>>
      BY <1>3 DEF Tick
    <2>4. TypeOK'
      BY <1>1, <2>1, <2>2, <2>3 DEF TypeOK, procVars, dbVars, chatVars
    <2> QED
      BY <2>3, <2>4 DEF TypeInv, LocalsInv, FiniteInv, chatVars
  <1>4. CASE Publish
    <2>1. off' \in Schedules /\ changed' \in Minutes
      BY <1>1, <1>4 DEF Publish, TypeOK
    <2>2. budget' \in [Events -> Nat]
      BY <1>1, <1>2, <1>4, MaySpend DEF Publish
    <2>3. UNCHANGED <<clock, loc, procVars, dbVars, chatVars>>
      BY <1>4 DEF Publish
    <2>4. TypeOK'
      BY <1>1, <2>1, <2>2, <2>3 DEF TypeOK, procVars, dbVars, chatVars
    <2> QED
      BY <2>3, <2>4 DEF TypeInv, LocalsInv, FiniteInv, chatVars
  <1>5. CASE Over
    <2>1. UNCHANGED vars
      BY <1>5 DEF Over
    <2> QED
      BY <2>1 DEF vars, envVars, procVars, dbVars, chatVars, TypeInv, TypeOK, LocalsInv, FiniteInv
  <1> QED
    BY <1>3, <1>4, <1>5

\* A job that comes to rest.
LEMMA FinishedTypes ==
  ASSUME TypeInv, NEW j \in Jobs, Finished(j)
  PROVE  loc' \in [Jobs -> LocType] /\ LocalsInv' /\ last' \in [Replicas -> Minutes \cup {None}]
  <1>1. LocalsOk(Resting)
    BY RestingType DEF LocalsOk, Rounding
  <1>2. loc' \in [Jobs -> LocType] /\ LocalsInv'
    BY <1>1, RestingType, LocStep DEF Finished
  <1>3. last \in [Replicas -> Minutes \cup {None}] /\ clock \in Minutes
    BY DEF TypeInv, TypeOK
  <1> QED
    BY <1>2, <1>3 DEF Finished

\* A job that starts to clean up.
LEMMA CleanStep ==
  ASSUME TypeInv, NEW j \in Jobs,
         \/ loc' = [loc EXCEPT ![j] = [Resting EXCEPT !.pc = "clean"]]
         \/ loc' = [loc EXCEPT ![j] = [Resting EXCEPT !.pc = "clean", !.todo = PassedAnchors]]
  PROVE  loc' \in [Jobs -> LocType] /\ LocalsInv'
  <1>1. ASSUME NEW l \in LocType, l.pc = "clean", loc' = [loc EXCEPT ![j] = l]
        PROVE  loc' \in [Jobs -> LocType] /\ LocalsInv'
    <2>1. LocalsOk(l)
      BY <1>1 DEF LocalsOk, Rounding
    <2> QED
      BY <1>1, <2>1, LocStep
  <1> DEFINE l1 == [Resting EXCEPT !.pc = "clean"]
             l2 == [Resting EXCEPT !.pc = "clean", !.todo = PassedAnchors]
  <1>2. PassedAnchors \subseteq Users
    BY DEF PassedAnchors
  <1>3. l1 \in LocType /\ l1.pc = "clean" /\ l2 \in LocType /\ l2.pc = "clean"
    BY <1>2, RestingType DEF LocType, Pcs
  <1>4. loc' = [loc EXCEPT ![j] = l1] \/ loc' = [loc EXCEPT ![j] = l2]
    OBVIOUS
  <1> HIDE DEF l1, l2
  <1> QED
    BY <1>1, <1>3, <1>4

\* The start of a cycle, of the catch-up, and a cycle by night.
LEMMA StartTypes ==
  ASSUME TypeInv, NEW j \in Jobs, SkipQuiet(j) \/ StartCycle(j) \/ StartCatchUp(j)
  PROVE  TypeInv'
  <1>1. TypeOK
    BY DEF TypeInv
  <1>2. "dbError" \in Events \ {"any"} /\ j[1] \in Replicas
    BY DEF Events, Jobs
  <1>3. CASE SkipQuiet(j)
    <2>1. last' \in [Replicas -> Minutes \cup {None}]
      BY <1>1, <1>3 DEF SkipQuiet, TypeOK
    <2>2. UNCHANGED <<envVars, loc, caughtUp, clashed, dbVars, chatVars, budget>>
      BY <1>3 DEF SkipQuiet
    <2>3. TypeOK'
      BY <1>1, <2>1, <2>2 DEF TypeOK, envVars, dbVars, chatVars
    <2> QED
      BY <2>2, <2>3 DEF TypeInv, LocalsInv, FiniteInv, chatVars
  <1>4. CASE StartCycle(j)
    <2>3. loc' \in [Jobs -> LocType] /\ LocalsInv'
      BY <1>4, CleanStep DEF StartCycle
    <2>4. budget' \in [Events -> Nat]
      BY <1>1, <1>2, <1>4, MaySpend DEF StartCycle
    <2>5. clashed' \in BOOLEAN
      BY <1>4 DEF StartCycle, Meets
    <2>6. UNCHANGED <<envVars, last, caughtUp, dbVars, chatVars>>
      BY <1>4 DEF StartCycle
    <2>7. TypeOK'
      BY <1>1, <2>3, <2>4, <2>5, <2>6 DEF TypeOK, envVars, dbVars, chatVars
    <2> QED
      BY <2>3, <2>6, <2>7 DEF TypeInv, FiniteInv, chatVars
  <1>5. CASE StartCatchUp(j)
    <2>2. loc' \in [Jobs -> LocType] /\ LocalsInv'
      BY <1>5, CleanStep DEF StartCatchUp
    <2>3. caughtUp' \subseteq Replicas /\ clashed' \in BOOLEAN
      BY <1>1, <1>2, <1>5 DEF StartCatchUp, Meets, TypeOK
    <2>4. UNCHANGED <<envVars, last, dbVars, chatVars, budget>>
      BY <1>5 DEF StartCatchUp
    <2>5. TypeOK'
      BY <1>1, <2>2, <2>3, <2>4 DEF TypeOK, envVars, dbVars, chatVars
    <2> QED
      BY <2>2, <2>4, <2>5 DEF TypeInv, FiniteInv, chatVars
  <1> QED
    BY <1>3, <1>4, <1>5

\* The rounds are leads.
LEMMA RoundsType ==
  ASSUME NEW j, NEW a
  PROVE  RoundsOf(j, a) \subseteq Leads /\ (RoundsOf(j, a) # {} => a # None)
  BY DEF RoundsOf, Due, Missed

\* The event and the users are read, or the cycle ends with an error.
LEMMA ReadTypes ==
  ASSUME TypeInv, NEW j \in Jobs, ReadEvent(j) \/ GiveUp(j)
  PROVE  TypeInv'
  <1>1. TypeOK
    BY DEF TypeInv
  <1>2. CASE ReadEvent(j)
    <2> DEFINE a == NextAnchor(off, clock)
               l == [Resting EXCEPT !.pc = "check", !.anchor = a, !.kind = NextKind(off, clock),
                                    !.rounds = RoundsOf(j, a), !.users = active]
    <2>1. \/ RoundsOf(j, a) = {} /\ Finished(j)
          \/ RoundsOf(j, a) # {} /\ loc' = [loc EXCEPT ![j] = l] /\ UNCHANGED last
      BY <1>2 DEF ReadEvent
    <2>2. loc' \in [Jobs -> LocType] /\ LocalsInv' /\ last' \in [Replicas -> Minutes \cup {None}]
      <3>1. CASE Finished(j)
        BY <3>1, FinishedTypes
      <3>2. CASE RoundsOf(j, a) # {} /\ loc' = [loc EXCEPT ![j] = l] /\ UNCHANGED last
        <4>1. a \in Anchors
          BY <1>1, <3>2, AnchorType, RoundsType DEF TypeOK
        <4>2. RoundsOf(j, a) \subseteq Leads /\ active \subseteq Users
          BY <1>1, RoundsType DEF TypeOK
        <4>3. NextKind(off, clock) \in EventKinds
          BY DEF NextKind, EventKinds
        <4> HIDE DEF a
        <4>4. l \in LocType /\ l.pc = "check" /\ l.anchor \in Anchors
          BY <4>1, <4>2, <4>3, RestingType DEF LocType, Pcs
        <4> HIDE DEF l
        <4>5. LocalsOk(l)
          BY <4>4 DEF LocalsOk, Rounding
        <4> QED
          BY <1>1, <3>2, <4>4, <4>5, LocStep DEF TypeOK
      <3> QED
        BY <2>1, <3>1, <3>2
    <2>3. UNCHANGED <<envVars, caughtUp, clashed, dbVars, chatVars, budget>>
      BY <1>2 DEF ReadEvent
    <2>4. TypeOK'
      BY <1>1, <2>2, <2>3 DEF TypeOK, envVars, dbVars, chatVars
    <2> QED
      BY <2>2, <2>3, <2>4 DEF TypeInv, FiniteInv, chatVars
  <1>3. CASE GiveUp(j)
    <2>1. loc' \in [Jobs -> LocType] /\ LocalsInv' /\ last' \in [Replicas -> Minutes \cup {None}]
      BY <1>3, FinishedTypes DEF GiveUp
    <2>2. "dbError" \in Events \ {"any"} /\ "fetch" \in Events \ {"any"}
      BY DEF Events
    <2>3. budget' \in [Events -> Nat]
      BY <1>1, <1>3, <2>2, MaySpend DEF GiveUp
    <2>4. UNCHANGED <<envVars, caughtUp, clashed, dbVars, chatVars>>
      BY <1>3 DEF GiveUp
    <2>5. TypeOK'
      BY <1>1, <2>1, <2>3, <2>4 DEF TypeOK, envVars, dbVars, chatVars
    <2> QED
      BY <2>1, <2>4, <2>5 DEF TypeInv, FiniteInv, chatVars
  <1> QED
    BY <1>2, <1>3

\* A round begins.
LEMMA CheckTypes ==
  ASSUME TypeInv, NEW j \in Jobs, CheckSent(j)
  PROVE  TypeInv'
  <1>1. TypeOK /\ loc[j] \in LocType /\ loc[j].pc = "check" /\ loc[j].anchor \in Anchors
    BY DEF CheckSent, At, TypeInv, TypeOK, LocalsInv, LocalsOk
  <1>2. PICK m \in loc[j].rounds :
          loc' = [loc EXCEPT ![j].pc = "send", ![j].lead = m, ![j].rounds = @ \ {m},
                    ![j].mark = {},
                    ![j].todo = {u \in {w \in loc[j].users : <<loc[j].kind, m>> \in Asked[w]} :
                                   ~ SentBefore(u, loc[j].anchor, m)}]
    BY DEF CheckSent
  <1> DEFINE l == [loc[j] EXCEPT !.pc = "send", !.lead = m, !.rounds = @ \ {m}, !.mark = {},
                    !.todo = {u \in {w \in loc[j].users : <<loc[j].kind, m>> \in Asked[w]} :
                                ~ SentBefore(u, loc[j].anchor, m)}]
  <1>3. loc' = [loc EXCEPT ![j] = l]
    BY <1>1, <1>2 DEF TypeOK
  <1>4. m \in Leads /\ loc[j].users \subseteq Users
    BY <1>1, <1>2 DEF LocType
  <1>5. l \in LocType /\ l.pc = "send" /\ l.anchor \in Anchors /\ l.lead \in Leads
    BY <1>1, <1>4 DEF LocType, Pcs
  <1> HIDE DEF l
  <1>6. LocalsOk(l)
    BY <1>5 DEF LocalsOk, Rounding
  <1>7. loc' \in [Jobs -> LocType] /\ LocalsInv'
    BY <1>3, <1>5, <1>6, LocStep
  <1>8. UNCHANGED <<envVars, procVars, dbVars, chatVars, budget>>
    BY DEF CheckSent
  <1>9. TypeOK'
    BY <1>1, <1>7, <1>8 DEF TypeOK, envVars, procVars, dbVars, chatVars
  <1> QED
    BY <1>7, <1>8, <1>9 DEF TypeInv, FiniteInv, chatVars

\* What a deletion leaves of a user's chats, and of the ids that are tracked.
LEMMA LessOfUser ==
  ASSUME TypeOK, NEW u \in Users
  PROVE  DeletedFromChats(u) \in [Users -> [Chats -> SUBSET Messages]]
  <1> DEFINE rest == [c \in Chats |-> visible[u][c] \ {tracked[u][c]}]
  <1>1. visible \in [Users -> [Chats -> SUBSET Messages]]
    BY DEF TypeOK
  <1>2. \A c \in Chats : visible[u][c] \ {tracked[u][c]} \in SUBSET Messages
    BY <1>1
  <1>3. rest \in [Chats -> SUBSET Messages]
    BY <1>2
  <1>4. DeletedFromChats(u) = [visible EXCEPT ![u] = rest]
    BY <1>1 DEF DeletedFromChats
  <1> HIDE DEF rest
  <1> QED
    BY <1>1, <1>3, <1>4

LEMMA LessTracked ==
  ASSUME TypeOK, NEW u \in Users, NEW msg
  PROVE  Forgotten(u, msg) \in [Users -> MessageIds]
  <1> DEFINE rest == [c \in Chats |-> IF msg[c] # None THEN None ELSE tracked[u][c]]
  <1>1. tracked \in [Users -> MessageIds]
    BY DEF TypeOK
  <1>2. \A c \in Chats : tracked[u][c] \in Messages \cup {None}
    BY <1>1 DEF MessageIds
  <1>3. rest \in MessageIds
    BY <1>2 DEF MessageIds
  <1>4. Forgotten(u, msg) = [tracked EXCEPT ![u] = rest]
    BY <1>1 DEF Forgotten
  <1> HIDE DEF rest
  <1> QED
    BY <1>1, <1>3, <1>4

\* The previous reminder is read and deleted.
LEMMA DeleteTypes ==
  ASSUME TypeInv, NEW j \in Jobs, NEW u \in Users, DeleteMessages(j, u)
  PROVE  TypeInv'
  <1>1. TypeOK /\ loc[j] \in LocType /\ LocalsOk(loc[j])
    BY DEF TypeInv, TypeOK, LocalsInv
  <1> DEFINE l == [loc[j] EXCEPT !.todo = @ \ {u}, !.user = u, !.msg = tracked[u],
                                 !.pc = IF @ = "clean" THEN "forget" ELSE "forgetOld"]
  <1>2. loc' = [loc EXCEPT ![j] = l]
    BY <1>1 DEF DeleteMessages, TypeOK
  <1>3. loc[j].pc \in {"clean", "send"} /\ tracked[u] \in MessageIds
    BY <1>1 DEF DeleteMessages, TypeOK
  <1>4. /\ l \in LocType /\ l.user = u /\ l.anchor = loc[j].anchor /\ l.lead = loc[j].lead
        /\ l.pc = IF loc[j].pc = "clean" THEN "forget" ELSE "forgetOld"
    BY <1>1, <1>3 DEF LocType, Pcs
  <1> HIDE DEF l
  <1>5. LocalsOk(l)
    BY <1>1, <1>3, <1>4 DEF LocalsOk, Rounding
  <1>6. loc' \in [Jobs -> LocType] /\ LocalsInv'
    BY <1>2, <1>4, <1>5, LocStep
  <1>7. visible' \in [Users -> [Chats -> SUBSET Messages]]
    BY <1>1, LessOfUser DEF DeleteMessages, TypeOK
  <1>8. "deleteError" \in Events \ {"any"}
    BY DEF Events
  <1>9. budget' \in [Events -> Nat]
    BY <1>1, <1>8, MaySpend DEF DeleteMessages
  <1>10. UNCHANGED <<envVars, procVars, dbVars, sent>>
    BY DEF DeleteMessages
  <1>11. TypeOK'
    BY <1>1, <1>6, <1>7, <1>9, <1>10 DEF TypeOK, envVars, procVars, dbVars
  <1> QED
    BY <1>6, <1>10, <1>11 DEF TypeInv, FiniteInv

\* The ids are forgotten.
LEMMA ForgetTypes ==
  ASSUME TypeInv, NEW j \in Jobs, ForgetIds(j)
  PROVE  TypeInv'
  <1>1. TypeOK /\ loc[j] \in LocType /\ LocalsOk(loc[j])
    BY DEF TypeInv, TypeOK, LocalsInv
  <1> DEFINE l == [loc[j] EXCEPT !.pc = IF @ = "forget" THEN "clean" ELSE "message",
                                 !.msg = NoMessages,
                                 !.user = IF loc[j].pc = "forget" THEN None ELSE @]
  <1>2. loc' = [loc EXCEPT ![j] = l]
    BY <1>1 DEF ForgetIds, TypeOK
  <1>3. loc[j].pc \in {"forget", "forgetOld"} /\ NoMessages \in MessageIds
    BY DEF ForgetIds, NoMessages, MessageIds
  <1>4. /\ l \in LocType /\ l.anchor = loc[j].anchor /\ l.lead = loc[j].lead
        /\ l.pc = IF loc[j].pc = "forget" THEN "clean" ELSE "message"
        /\ l.user = IF loc[j].pc = "forget" THEN None ELSE loc[j].user
    BY <1>1, <1>3 DEF LocType, Pcs
  <1> HIDE DEF l
  <1>5. LocalsOk(l)
    BY <1>1, <1>3, <1>4 DEF LocalsOk, Rounding
  <1>6. loc' \in [Jobs -> LocType] /\ LocalsInv'
    BY <1>2, <1>4, <1>5, LocStep
  <1>7. tracked' \in [Users -> MessageIds]
    <2>1. loc[j].user \in Users
      BY <1>1, <1>3 DEF LocalsOk
    <2>2. tracked' = Forgotten(loc[j].user, loc[j].msg) \/ tracked' = tracked
      BY DEF ForgetIds
    <2> QED
      BY <1>1, <2>1, <2>2, LessTracked DEF TypeOK
  <1>8. "dbError" \in Events \ {"any"}
    BY DEF Events
  <1>9. budget' \in [Events -> Nat]
    BY <1>1, <1>8, MaySpend DEF ForgetIds
  <1>10. UNCHANGED <<envVars, procVars, active, marked, latest, chatVars>>
    BY DEF ForgetIds
  <1>11. TypeOK'
    BY <1>1, <1>6, <1>7, <1>9, <1>10 DEF TypeOK, envVars, procVars, chatVars
  <1> QED
    BY <1>6, <1>10, <1>11 DEF TypeInv, FiniteInv, chatVars

\* A message about the event of a round.
LEMMA MessageType ==
  ASSUME FiniteInv, NEW u \in Users, NEW c \in Chats, NEW a \in Anchors, NEW m \in Leads
  PROVE  NewMessage(u, c, a, m) \in Messages
  <1> DEFINE S == {x \in sent[u][c] : x[1] = a /\ x[2] = m}
  <1>1. IsFiniteSet(S)
    BY FS_Subset DEF FiniteInv
  <1>2. Cardinality(S) \in Nat
    BY <1>1, FS_CardinalityType
  <1>3. 1 + Cardinality(S) \in Nat \ {0}
    BY <1>2
  <1> QED
    BY <1>3 DEF NewMessage, Messages

\* What a delivery does to a chat: one new message, or nothing.
LEMMA DeliveryToChat ==
  ASSUME TypeInv, NEW j \in Jobs, NEW ok \in SUBSET Chats, Delivered(j, ok),
         NEW u \in Users, NEW c \in Chats
  PROVE  sent'[u][c] = IF u = loc[j].user /\ c \in ok
                       THEN sent[u][c] \cup {NewMessage(u, c, loc[j].anchor, loc[j].lead)}
                       ELSE sent[u][c]
  BY DEF Delivered, TypeInv, TypeOK

\* A message arrives in the chats of ok.
LEMMA DeliveredTypes ==
  ASSUME TypeInv, NEW j \in Jobs, At(j, "message"), NEW ok \in SUBSET Chats, Delivered(j, ok)
  PROVE  /\ loc' \in [Jobs -> LocType] /\ LocalsInv' /\ FiniteInv'
         /\ visible' \in [Users -> [Chats -> SUBSET Messages]]
         /\ sent' \in [Users -> [Chats -> SUBSET Messages]]
  <1>1. TypeOK /\ loc[j] \in LocType /\ LocalsOk(loc[j]) /\ loc[j].pc = "message" /\ FiniteInv
    BY DEF TypeInv, TypeOK, LocalsInv, At
  <1>2. loc[j].anchor \in Anchors /\ loc[j].lead \in Leads /\ loc[j].user \in Users
    BY <1>1 DEF LocalsOk, Rounding
  <1> DEFINE new == [c \in Chats |->
                       IF c \in ok THEN NewMessage(loc[j].user, c, loc[j].anchor, loc[j].lead)
                       ELSE None]
             l == [loc[j] EXCEPT !.msg = new,
                     !.pc = IF ok = {} THEN "send" ELSE "save",
                     !.user = IF ok = {} THEN None ELSE @,
                     !.mark = IF ok = {} THEN @ ELSE @ \cup {loc[j].user}]
  <1>3. \A c \in Chats : NewMessage(loc[j].user, c, loc[j].anchor, loc[j].lead) \in Messages
    BY <1>1, <1>2, MessageType
  <1>4. new \in MessageIds /\ \A c \in ok : new[c] \in Messages
    BY <1>3 DEF MessageIds
  <1>5. loc' = [loc EXCEPT ![j] = l]
    BY <1>1 DEF Delivered, TypeOK
  <1>6. /\ visible' = [visible EXCEPT ![loc[j].user] =
                         [c \in Chats |-> IF c \in ok THEN @[c] \cup {new[c]} ELSE @[c]]]
        /\ sent' = [sent EXCEPT ![loc[j].user] =
                      [c \in Chats |-> IF c \in ok THEN @[c] \cup {new[c]} ELSE @[c]]]
    BY DEF Delivered
  <1> HIDE DEF new
  <1>7. visible' \in [Users -> [Chats -> SUBSET Messages]]
    BY <1>1, <1>2, <1>4, <1>6 DEF TypeOK
  <1>8. sent' \in [Users -> [Chats -> SUBSET Messages]]
    BY <1>1, <1>2, <1>4, <1>6 DEF TypeOK
  <1>9. /\ l \in LocType /\ l.anchor = loc[j].anchor /\ l.lead = loc[j].lead
        /\ l.pc = IF ok = {} THEN "send" ELSE "save"
        /\ l.user = IF ok = {} THEN None ELSE loc[j].user
    BY <1>1, <1>2, <1>4 DEF LocType, Pcs
  <1> HIDE DEF l
  <1>10. LocalsOk(l)
    BY <1>2, <1>9 DEF LocalsOk, Rounding
  <1>11. loc' \in [Jobs -> LocType] /\ LocalsInv'
    BY <1>5, <1>9, <1>10, LocStep
  <1>12. ASSUME NEW u \in Users, NEW c \in Chats
         PROVE  IsFiniteSet(sent'[u][c])
    <2>1. IsFiniteSet(sent[u][c])
      BY <1>1 DEF FiniteInv
    <2>2. IsFiniteSet(sent[u][c] \cup {NewMessage(u, c, loc[j].anchor, loc[j].lead)})
      BY <2>1, FS_AddElement
    <2> QED
      BY <2>1, <2>2, DeliveryToChat
  <1> QED
    BY <1>7, <1>8, <1>11, <1>12 DEF FiniteInv

\* The chats that get a reminder are chats.
LEMMA ReachType ==
  ASSUME TypeInv, NEW j \in Jobs, At(j, "message")
  PROVE  ReachNow(j) \subseteq Chats
  <1>1. loc[j] \in LocType /\ loc[j].user \in Users /\ loc[j].lead \in Leads
    BY DEF TypeInv, TypeOK, LocalsInv, LocalsOk, At, Rounding
  <1>2. loc[j].kind \in EventKinds
    BY <1>1 DEF LocType
  <1>3. Reach \in [Users -> [EventKinds -> [Leads -> SUBSET Chats]]]
    BY RemindersAssumption DEF RemindersAssumption
  <1>4. Reach[loc[j].user] \in [EventKinds -> [Leads -> SUBSET Chats]]
    BY <1>1, <1>3
  <1>5. Reach[loc[j].user][loc[j].kind] \in [Leads -> SUBSET Chats]
    BY <1>2, <1>4
  <1> QED
    BY <1>1, <1>5 DEF ReachNow

\* A reminder is sent, to all chats, to some or to none.
LEMMA SendTypes ==
  ASSUME TypeInv, NEW j \in Jobs, SendReminder(j) \/ SendFails(j) \/ SendForbidden(j)
  PROVE  /\ \E ok \in SUBSET Chats : At(j, "message") /\ Delivered(j, ok)
         /\ budget' \in [Events -> Nat]
         /\ \A k \in Events : budget'[k] <= budget[k]
         /\ active' \subseteq Users
         /\ UNCHANGED <<envVars, procVars, marked, latest, tracked>>
  <1>1. TypeOK /\ At(j, "message") /\ budget \in [Events -> Nat] /\ active \subseteq Users
    BY DEF TypeInv, TypeOK, SendReminder, SendFails, SendForbidden
  <1>2. ReachNow(j) \subseteq Chats
    BY <1>1, ReachType
  <1>3. "sendError" \in Events \ {"any"} /\ "blocked" \in Events \ {"any"}
    BY DEF Events
  <1>4. CASE SendReminder(j)
    BY <1>1, <1>2, <1>4 DEF SendReminder, dbVars
  <1>5. CASE SendFails(j)
    <2>1. \E c \in ReachNow(j) : Delivered(j, ReachNow(j) \ {c})
      BY <1>5 DEF SendFails
    <2>2. \E ok \in SUBSET Chats : Delivered(j, ok)
      BY <1>2, <2>1
    <2>3. Spend("sendError") /\ UNCHANGED <<envVars, procVars, dbVars>>
      BY <1>5 DEF SendFails
    <2>4. budget' \in [Events -> Nat] /\ \A k \in Events : budget'[k] <= budget[k]
      BY <1>1, <1>3, <2>3, Spending
    <2> QED
      BY <1>1, <2>2, <2>3, <2>4 DEF dbVars
  <1>6. CASE SendForbidden(j)
    <2>1. \E ok \in SUBSET Chats : Delivered(j, ok)
      BY <1>2, <1>6 DEF SendForbidden
    <2>2. Spend("blocked") /\ active' \subseteq Users
      BY <1>1, <1>6 DEF SendForbidden
    <2>3. budget' \in [Events -> Nat] /\ \A k \in Events : budget'[k] <= budget[k]
      BY <1>1, <1>3, <2>2, Spending
    <2> QED
      BY <1>1, <1>6, <2>1, <2>2, <2>3 DEF SendForbidden
  <1> QED
    BY <1>4, <1>5, <1>6

LEMMA SendPreservesTypes ==
  ASSUME TypeInv, NEW j \in Jobs, SendReminder(j) \/ SendFails(j) \/ SendForbidden(j)
  PROVE  TypeInv'
  <1>1. PICK ok \in SUBSET Chats : At(j, "message") /\ Delivered(j, ok)
    BY SendTypes
  <1>2. /\ loc' \in [Jobs -> LocType] /\ LocalsInv' /\ FiniteInv'
        /\ visible' \in [Users -> [Chats -> SUBSET Messages]]
        /\ sent' \in [Users -> [Chats -> SUBSET Messages]]
    BY <1>1, DeliveredTypes
  <1>3. TypeOK'
    BY <1>2, SendTypes DEF TypeInv, TypeOK, envVars, procVars
  <1> QED
    BY <1>2, <1>3 DEF TypeInv

\* The ids are saved, and the round of sends ends.
LEMMA SaveTypes ==
  ASSUME TypeInv, NEW j \in Jobs, SaveIds(j)
  PROVE  TypeInv'
  <1>1. TypeOK /\ loc[j] \in LocType /\ LocalsOk(loc[j]) /\ loc[j].pc = "save"
    BY DEF TypeInv, TypeOK, LocalsInv, SaveIds, At
  <1> DEFINE l == [loc[j] EXCEPT !.pc = "send", !.user = None, !.msg = NoMessages]
             saved == [c \in Chats |-> IF loc[j].msg[c] # None THEN loc[j].msg[c]
                                       ELSE tracked[loc[j].user][c]]
  <1>2. loc' = [loc EXCEPT ![j] = l]
    BY <1>1 DEF SaveIds, TypeOK
  <1>3. /\ l \in LocType /\ l.pc = "send"
        /\ l.anchor = loc[j].anchor /\ l.lead = loc[j].lead
    BY <1>1 DEF LocType, Pcs, NoMessages, MessageIds
  <1>4. loc[j].anchor \in Anchors /\ loc[j].lead \in Leads /\ loc[j].user \in Users
    BY <1>1 DEF LocalsOk, Rounding
  <1> HIDE DEF l
  <1>5. LocalsOk(l)
    BY <1>3, <1>4 DEF LocalsOk, Rounding
  <1>6. loc' \in [Jobs -> LocType] /\ LocalsInv'
    BY <1>2, <1>3, <1>5, LocStep
  <1>7. tracked' \in [Users -> MessageIds]
    <2>1. loc[j].msg \in MessageIds /\ tracked[loc[j].user] \in MessageIds
      BY <1>1, <1>4 DEF TypeOK, LocType
    <2>2. \A c \in Chats : loc[j].msg[c] \in Messages \cup {None}
                           /\ tracked[loc[j].user][c] \in Messages \cup {None}
      BY <2>1 DEF MessageIds
    <2>3. saved \in MessageIds
      BY <2>2 DEF MessageIds
    <2>4. tracked' = tracked \/ tracked' = [tracked EXCEPT ![loc[j].user] = saved]
      BY <1>1 DEF SaveIds, TypeOK
    <2> HIDE DEF saved
    <2> QED
      BY <1>1, <2>3, <2>4 DEF TypeOK
  <1>8. "dbError" \in Events \ {"any"}
    BY DEF Events
  <1>9. budget' \in [Events -> Nat]
    BY <1>1, <1>8, MaySpend DEF SaveIds
  <1>10. UNCHANGED <<envVars, procVars, active, marked, latest, chatVars>>
    BY DEF SaveIds
  <1>11. TypeOK'
    BY <1>1, <1>6, <1>7, <1>9, <1>10 DEF TypeOK, envVars, procVars, chatVars
  <1> QED
    BY <1>6, <1>10, <1>11 DEF TypeInv, FiniteInv, chatVars

LEMMA DoneTypes ==
  ASSUME TypeInv, NEW j \in Jobs, SendsDone(j)
  PROVE  TypeInv'
  <1>1. TypeOK /\ loc[j] \in LocType /\ LocalsOk(loc[j]) /\ loc[j].pc = "send"
    BY DEF TypeInv, TypeOK, LocalsInv, SendsDone, At
  <1> DEFINE l == [loc[j] EXCEPT !.pc = "mark"]
  <1>2. loc' = [loc EXCEPT ![j] = l]
    BY <1>1 DEF SendsDone, TypeOK
  <1>3. /\ l \in LocType /\ l.pc = "mark"
        /\ l.anchor = loc[j].anchor /\ l.lead = loc[j].lead
    BY <1>1 DEF LocType, Pcs
  <1> HIDE DEF l
  <1>4. LocalsOk(l)
    BY <1>1, <1>3 DEF LocalsOk, Rounding
  <1>5. loc' \in [Jobs -> LocType] /\ LocalsInv'
    BY <1>2, <1>3, <1>4, LocStep
  <1>6. UNCHANGED <<envVars, procVars, dbVars, chatVars, budget>>
    BY DEF SendsDone
  <1>7. TypeOK'
    BY <1>1, <1>5, <1>6 DEF TypeOK, envVars, procVars, dbVars, chatVars
  <1> QED
    BY <1>5, <1>6, <1>7 DEF TypeInv, FiniteInv, chatVars

\* The rows of a round are written.
LEMMA MarkTypes ==
  ASSUME TypeInv, NEW j \in Jobs, Mark(j)
  PROVE  TypeInv'
  <1>1. TypeOK /\ loc[j] \in LocType /\ LocalsOk(loc[j]) /\ loc[j].pc = "mark"
    BY DEF TypeInv, TypeOK, LocalsInv, Mark, At
  <1>2. loc[j].anchor \in Anchors /\ loc[j].lead \in Leads
    BY <1>1 DEF LocalsOk, Rounding
  <1> DEFINE l == [loc[j] EXCEPT !.pc = "check", !.mark = {}]
             new == {u \in loc[j].mark : <<loc[j].anchor, loc[j].lead>> \notin marked[u]}
  <1>3. \/ Finished(j)
        \/ loc' = [loc EXCEPT ![j] = l] /\ UNCHANGED last
    BY <1>1 DEF Mark, TypeOK
  <1>4. loc' \in [Jobs -> LocType] /\ LocalsInv' /\ last' \in [Replicas -> Minutes \cup {None}]
    <2>1. CASE Finished(j)
      BY <2>1, FinishedTypes
    <2>2. CASE loc' = [loc EXCEPT ![j] = l] /\ UNCHANGED last
      <3>1. l \in LocType /\ l.pc = "check" /\ l.anchor = loc[j].anchor
        BY <1>1 DEF LocType, Pcs
      <3> HIDE DEF l
      <3>2. LocalsOk(l)
        BY <1>2, <3>1 DEF LocalsOk, Rounding
      <3> QED
        BY <1>1, <2>2, <3>1, <3>2, LocStep DEF TypeOK
    <2> QED
      BY <1>3, <2>1, <2>2
  <1>5. /\ marked' = [u \in Users |-> IF u \in new
                        THEN marked[u] \cup {<<loc[j].anchor, loc[j].lead>>} ELSE marked[u]]
        /\ latest' = [u \in Users |-> IF u \in new THEN loc[j].anchor ELSE latest[u]]
    BY DEF Mark
  <1> HIDE DEF new
  <1>6. marked' \in [Users -> SUBSET Rows] /\ latest' \in [Users -> Anchors \cup {None}]
    BY <1>1, <1>2, <1>5 DEF TypeOK, Rows
  <1>7. UNCHANGED <<envVars, caughtUp, clashed, active, tracked, chatVars, budget>>
    BY DEF Mark
  <1>8. TypeOK'
    BY <1>1, <1>4, <1>6, <1>7 DEF TypeOK, envVars, chatVars
  <1> QED
    BY <1>4, <1>7, <1>8 DEF TypeInv, FiniteInv, chatVars

\* A process dies and is started again.
LEMMA CrashTypes ==
  ASSUME TypeInv, NEW r \in Replicas, Crash(r)
  PROVE  TypeInv'
  <1>1. TypeOK
    BY DEF TypeInv
  <1>2. LocalsOk(Resting)
    BY RestingType DEF LocalsOk, Rounding
  <1>3. loc' = [j \in Jobs |-> IF j[1] = r THEN Resting ELSE loc[j]]
    BY DEF Crash
  <1>4. loc' \in [Jobs -> LocType]
    BY <1>1, <1>3, RestingType DEF TypeOK
  <1>5. LocalsInv'
    BY <1>2, <1>3 DEF TypeInv, LocalsInv
  <1>6. last' \in [Replicas -> Minutes \cup {None}] /\ caughtUp' \subseteq Replicas
    BY <1>1 DEF Crash, TypeOK
  <1>7. "crash" \in Events \ {"any"}
    BY DEF Events
  <1>8. budget' \in [Events -> Nat]
    BY <1>1, <1>7, MaySpend DEF Crash
  <1>9. UNCHANGED <<envVars, clashed, dbVars, chatVars>>
    BY DEF Crash
  <1>10. TypeOK'
    BY <1>1, <1>4, <1>6, <1>8, <1>9 DEF TypeOK, envVars, dbVars, chatVars
  <1> QED
    BY <1>5, <1>9, <1>10 DEF TypeInv, FiniteInv, chatVars

LEMMA InitTypes == Init => TypeInv
  <1> SUFFICES ASSUME Init PROVE TypeInv
    OBVIOUS
  <1>1. /\ Horizon \in Nat /\ Budget \in [Events -> Nat]
    BY RemindersAssumption DEF RemindersAssumption
  <1>2. LocalsOk(Resting)
    BY RestingType DEF LocalsOk, Rounding
  <1>3. loc \in [Jobs -> LocType] /\ LocalsInv
    BY <1>2, RestingType DEF Init, LocalsInv
  <1>4. NoMessages \in MessageIds
    BY DEF NoMessages, MessageIds
  <1>5. TypeOK
    <2>1. clock \in Minutes /\ off \in Schedules /\ changed \in Minutes \cup {-1}
      BY <1>1 DEF Init, Minutes
    <2>2. /\ last \in [Replicas -> Minutes \cup {None}]
          /\ caughtUp \subseteq Replicas /\ active \subseteq Users /\ clashed \in BOOLEAN
      BY DEF Init
    <2>3. /\ marked \in [Users -> SUBSET Rows]
          /\ latest \in [Users -> Anchors \cup {None}]
          /\ tracked \in [Users -> MessageIds]
      BY <1>4 DEF Init
    <2>4. [c \in Chats |-> {}] \in [Chats -> SUBSET Messages]
      OBVIOUS
    <2>5. /\ visible \in [Users -> [Chats -> SUBSET Messages]]
          /\ sent \in [Users -> [Chats -> SUBSET Messages]]
      BY <2>4 DEF Init
    <2>6. budget \in [Events -> Nat]
      BY <1>1 DEF Init
    <2> QED
      BY <1>3, <2>1, <2>2, <2>3, <2>5, <2>6 DEF TypeOK
  <1>6. FiniteInv
    BY FS_EmptySet DEF Init, FiniteInv
  <1> QED
    BY <1>3, <1>5, <1>6 DEF TypeInv

LEMMA NextTypes == TypeInv /\ [Next]_vars => TypeInv'
  <1> SUFFICES ASSUME TypeInv, [Next]_vars PROVE TypeInv'
    OBVIOUS
  <1>1. CASE Tick \/ Publish \/ Over
    BY <1>1, EnvTypes
  <1>2. ASSUME NEW j \in Jobs, Work(j)
        PROVE  TypeInv'
    BY <1>2, StartTypes, ReadTypes, CheckTypes, DeleteTypes, ForgetTypes, SendPreservesTypes,
       SaveTypes, DoneTypes, MarkTypes DEF Work
  <1>3. ASSUME NEW r \in Replicas, Crash(r)
        PROVE  TypeInv'
    BY <1>3, CrashTypes
  <1>4. CASE UNCHANGED vars
    BY <1>4 DEF vars, envVars, procVars, dbVars, chatVars, TypeInv, TypeOK, LocalsInv, FiniteInv
  <1> QED
    BY <1>1, <1>2, <1>3, <1>4 DEF Next

\* The variables keep their types, whatever the constants.
THEOREM RemindersTypeCorrect == Spec => []TypeOK
  <1>1. TypeInv => TypeOK
    BY DEF TypeInv
  <1> QED
    BY <1>1, InitTypes, NextTypes, PTL DEF Spec
-----------------------------------------------------------------------------
(* A reminder is sent once                                                 *)

BudgetInv == \A k \in Events : budget[k] <= Budget[k]

\* One job works.
AloneInv == \A i, j \in Jobs : loc[i].pc # "idle" /\ loc[j].pc # "idle" => i = j

\* What was sent is in sent_reminders, or will be when the round ends.
OnItsWay(j, u, x) ==
  loc[j].pc \in Rounding /\ loc[j].anchor = x[1] /\ loc[j].lead = x[2] /\ u \in loc[j].mark

KeptInv ==
  \A u \in Users, c \in Chats : \A x \in sent[u][c] :
    x[3] = 1 /\ (<<x[1], x[2]>> \in marked[u] \/ \E j \in Jobs : OnItsWay(j, u, x))

\* Those who are still to be messaged have not been, in this round or before.
ToMessage(l, u) ==
  \/ l.pc \in Rounding /\ u \in l.todo
  \/ l.pc \in {"forgetOld", "message"} /\ u = l.user

FreshOk(l) ==
  /\ \A u \in Users : ToMessage(l, u) => <<l.anchor, l.lead>> \notin marked[u] /\ u \notin l.mark
  /\ l.pc \in {"forgetOld", "message"} => l.user \notin l.todo

FreshInv == \A j \in Jobs : FreshOk(loc[j])

OnceInv == AloneInv /\ KeptInv /\ FreshInv

IInv == TypeInv /\ BudgetInv /\ (Calm => OnceInv)

\* A calm state follows calm states only.
LEMMA CalmBefore ==
  ASSUME IInv, budget' \in [Events -> Nat], \A k \in Events : budget'[k] <= budget[k],
         clashed => clashed'
  PROVE  BudgetInv' /\ (Calm' => Calm /\ OnceInv)
  <1>1. budget \in [Events -> Nat] /\ Budget \in [Events -> Nat]
    BY RemindersAssumption DEF IInv, TypeInv, TypeOK, RemindersAssumption
  <1>2. ASSUME NEW k \in Events
        PROVE  budget'[k] <= Budget[k] /\ (Budget[k] - budget'[k] = 0 => Budget[k] - budget[k] = 0)
    <2>1. budget[k] \in Nat /\ Budget[k] \in Nat /\ budget'[k] \in Nat
      BY <1>1
    <2>2. budget'[k] <= budget[k] /\ budget[k] <= Budget[k]
      BY DEF IInv, BudgetInv
    <2> QED
      BY <2>1, <2>2
  <1>3. {"dbError", "deleteError", "crash"} \subseteq Events
    BY DEF Events
  <1>4. Calm' => Calm
    BY <1>2, <1>3 DEF Calm, Spent
  <1> QED
    BY <1>2, <1>4 DEF BudgetInv, IInv

\* A failure that matters ends the calm.
LEMMA NotCalm ==
  ASSUME IInv, NEW k \in {"dbError", "deleteError", "crash"}, Spend(k)
  PROVE  ~ Calm'
  <1>1. k \in Events \ {"any"}
    BY DEF Events
  <1>2. budget \in [Events -> Nat] /\ Budget \in [Events -> Nat]
    BY RemindersAssumption DEF IInv, TypeInv, TypeOK, RemindersAssumption
  <1>3. budget' \in [Events -> Nat] /\ budget'[k] < budget[k]
    BY <1>1, Spending DEF IInv, TypeInv
  <1>4. budget[k] <= Budget[k]
    BY <1>1 DEF IInv, BudgetInv
  <1>5. budget[k] \in Nat /\ Budget[k] \in Nat /\ budget'[k] \in Nat
    BY <1>1, <1>2, <1>3
  <1>6. Budget[k] - budget'[k] # 0
    BY <1>3, <1>4, <1>5
  <1> QED
    BY <1>6 DEF Calm, Spent

\* The only job that works keeps the others at rest.
LEMMA OthersRest ==
  ASSUME OnceInv, NEW j \in Jobs, loc[j].pc # "idle"
  PROVE  \A i \in Jobs \ {j} : loc[i].pc = "idle"
  BY DEF OnceInv, AloneInv

\* A job goes on without sending or marking.
LEMMA OnceStep ==
  ASSUME TypeInv, OnceInv, NEW j \in Jobs, NEW l, loc' = [loc EXCEPT ![j] = l],
         UNCHANGED <<sent, marked>>, FreshOk(l),
         \A i \in Jobs \ {j} : loc[i].pc = "idle",
         loc[j].pc \in Rounding =>
           /\ l.pc \in Rounding
           /\ l.anchor = loc[j].anchor /\ l.lead = loc[j].lead /\ l.mark = loc[j].mark
  PROVE  OnceInv'
  <1>1. /\ loc'[j] = l
        /\ \A i \in Jobs \ {j} : loc'[i] = loc[i]
    BY DEF TypeInv, TypeOK
  <1>2. AloneInv'
    BY <1>1 DEF AloneInv
  <1>3. KeptInv'
    <2>1. ASSUME NEW i \in Jobs, NEW u, NEW x, OnItsWay(i, u, x)
          PROVE  OnItsWay(i, u, x)'
      <3>1. i = j
        BY <2>1 DEF OnItsWay, Rounding
      <3> QED
        BY <1>1, <2>1, <3>1 DEF OnItsWay
    <2> QED
      BY <2>1 DEF OnceInv, KeptInv
  <1>4. FreshInv'
    <2>1. ASSUME NEW i \in Jobs
          PROVE  FreshOk(loc'[i])
      BY <1>1 DEF OnceInv, FreshInv
    <2> QED
      BY <2>1 DEF FreshInv, FreshOk
  <1> QED
    BY <1>2, <1>3, <1>4 DEF OnceInv

\* A job outside of a round messages nobody.
LEMMA FreshOutside ==
  ASSUME NEW l, l.pc \notin Rounding
  PROVE  FreshOk(l)
  BY DEF FreshOk, ToMessage, Rounding

\* Steps that leave the jobs and the tables alone.
LEMMA OnceStays ==
  ASSUME OnceInv, UNCHANGED <<loc, sent, marked>>
  PROVE  OnceInv'
  BY DEF OnceInv, AloneInv, KeptInv, FreshInv, OnItsWay, FreshOk, ToMessage

\* The clock, the source, and a cycle by night.
LEMMA EnvOnce ==
  ASSUME IInv, Tick \/ Publish \/ Over \/ \E j \in Jobs : SkipQuiet(j)
  PROVE  BudgetInv' /\ (Calm' => OnceInv')
  <1>1. TypeOK
    BY DEF IInv, TypeInv
  <1>2. "slow" \in Events \ {"any"} /\ "publish" \in Events \ {"any"}
    BY DEF Events
  <1>3. UNCHANGED <<loc, sent, marked, clashed>>
    BY DEF Tick, Publish, Over, SkipQuiet, vars, procVars, dbVars, chatVars
  <1>4. \/ Spend("slow") \/ Spend("publish") \/ UNCHANGED budget
    BY DEF Tick, Publish, Over, SkipQuiet, vars
  <1>5. budget' \in [Events -> Nat] /\ \A k \in Events : budget'[k] <= budget[k]
    BY <1>1, <1>2, <1>4, MaySpend
  <1> QED
    BY <1>3, <1>5, CalmBefore, OnceStays

\* A job starts.
LEMMA StartOnce ==
  ASSUME IInv, NEW j \in Jobs, StartCycle(j) \/ StartCatchUp(j)
  PROVE  BudgetInv' /\ (Calm' => OnceInv')
  <1>1. TypeInv /\ TypeOK /\ Resting \in LocType /\ loc[j].pc = "idle"
    BY RestingType DEF IInv, TypeInv, StartCycle, StartCatchUp, At
  <1> DEFINE l1 == [Resting EXCEPT !.pc = "clean"]
             l2 == [Resting EXCEPT !.pc = "clean", !.todo = PassedAnchors]
  <1>2. l1.pc = "clean" /\ l2.pc = "clean"
    BY <1>1 DEF LocType
  <1>3. loc' = [loc EXCEPT ![j] = l1] \/ loc' = [loc EXCEPT ![j] = l2]
    BY DEF StartCycle, StartCatchUp
  <1> HIDE DEF l1, l2
  <1>4. "dbError" \in Events \ {"any"}
    BY DEF Events
  <1>5. budget' \in [Events -> Nat] /\ \A k \in Events : budget'[k] <= budget[k]
    <2>1. Spend("dbError") \/ UNCHANGED budget
      BY DEF StartCycle, StartCatchUp
    <2> QED
      BY <1>1, <1>4, <2>1, MaySpend
  <1>6. (clashed' <=> clashed \/ Meets(j)) /\ UNCHANGED <<sent, marked>>
    BY DEF StartCycle, StartCatchUp, dbVars, chatVars
  <1>7. BudgetInv' /\ (Calm' => Calm /\ OnceInv)
    BY <1>5, <1>6, CalmBefore
  <1>8. ASSUME Calm'
        PROVE  OnceInv'
    <2>1. \A i \in Jobs \ {j} : loc[i].pc = "idle"
      BY <1>6, <1>8 DEF Calm, Meets, At
    <2>2. FreshOk(l1) /\ FreshOk(l2) /\ loc[j].pc \notin Rounding
      BY <1>1, <1>2, FreshOutside DEF Rounding
    <2> QED
      BY <1>1, <1>3, <1>6, <1>7, <1>8, <2>1, <2>2, OnceStep
  <1> QED
    BY <1>7, <1>8

\* A job outside of a round goes on, or to rest.
LEMMA OutsideOnce ==
  ASSUME IInv, NEW j \in Jobs, loc[j].pc \in {"clean", "check", "forget"}, NEW l,
         loc' = [loc EXCEPT ![j] = l], FreshOk(l), UNCHANGED <<sent, marked>>, OnceInv
  PROVE  OnceInv'
  <1>1. loc[j].pc # "idle" /\ loc[j].pc \notin Rounding
    BY DEF Rounding
  <1> QED
    BY <1>1, OthersRest, OnceStep DEF IInv

\* Steps that spend nothing and start nothing.
LEMMA CalmStays ==
  ASSUME IInv, UNCHANGED <<budget, clashed>>
  PROVE  BudgetInv' /\ (Calm' => Calm /\ OnceInv)
  <1>1. budget' \in [Events -> Nat] /\ \A k \in Events : budget'[k] <= budget[k]
    BY DEF IInv, TypeInv, TypeOK
  <1> QED
    BY <1>1, CalmBefore

LEMMA ReadOnce ==
  ASSUME IInv, NEW j \in Jobs, ReadEvent(j)
  PROVE  BudgetInv' /\ (Calm' => OnceInv')
  <1> DEFINE a == NextAnchor(off, clock)
             l == [Resting EXCEPT !.pc = "check", !.anchor = a, !.kind = NextKind(off, clock),
                                  !.rounds = RoundsOf(j, a), !.users = active]
  <1>1. loc' = [loc EXCEPT ![j] = Resting] \/ loc' = [loc EXCEPT ![j] = l]
    BY DEF ReadEvent, Finished
  <1>2. l.pc = "check" /\ Resting.pc = "idle"
    BY RestingType DEF LocType
  <1> HIDE DEF l
  <1>3. FreshOk(l) /\ FreshOk(Resting)
    BY <1>2, FreshOutside DEF Rounding
  <1>4. loc[j].pc = "clean" /\ UNCHANGED <<sent, marked, budget, clashed>>
    BY DEF ReadEvent, At, dbVars, chatVars
  <1>5. BudgetInv' /\ (Calm' => Calm /\ OnceInv)
    BY <1>4, CalmStays
  <1> QED
    BY <1>1, <1>3, <1>4, <1>5, OutsideOnce

LEMMA GiveUpOnce ==
  ASSUME IInv, NEW j \in Jobs, GiveUp(j)
  PROVE  BudgetInv' /\ (Calm' => OnceInv')
  <1>1. "dbError" \in Events \ {"any"} /\ "fetch" \in Events \ {"any"}
    BY DEF Events
  <1>2. budget' \in [Events -> Nat] /\ \A k \in Events : budget'[k] <= budget[k]
    <2>1. Spend("dbError") \/ Spend("fetch")
      BY DEF GiveUp
    <2> QED
      BY <1>1, <2>1, MaySpend DEF IInv, TypeInv
  <1>3. UNCHANGED <<sent, marked, clashed>>
    BY DEF GiveUp, dbVars, chatVars
  <1>4. BudgetInv' /\ (Calm' => Calm /\ OnceInv)
    BY <1>2, <1>3, CalmBefore
  <1>5. ASSUME Calm'
        PROVE  OnceInv'
    <2>1. ~ Spend("dbError")
      BY <1>5, NotCalm
    <2>2. loc[j].pc = "clean" /\ loc' = [loc EXCEPT ![j] = Resting]
      BY <2>1 DEF GiveUp, At, Finished
    <2>3. FreshOk(Resting)
      BY RestingType, FreshOutside DEF Rounding
    <2> QED
      BY <1>3, <1>4, <1>5, <2>2, <2>3, OutsideOnce
  <1> QED
    BY <1>4, <1>5

\* Who has got the reminder is not messaged.
LEMMA CheckOnce ==
  ASSUME IInv, NEW j \in Jobs, CheckSent(j)
  PROVE  BudgetInv' /\ (Calm' => OnceInv')
  <1>1. TypeOK /\ loc[j] \in LocType /\ loc[j].pc = "check"
    BY DEF IInv, TypeInv, TypeOK, CheckSent, At
  <1>2. PICK m \in loc[j].rounds :
          loc' = [loc EXCEPT ![j].pc = "send", ![j].lead = m, ![j].rounds = @ \ {m},
                    ![j].mark = {},
                    ![j].todo = {u \in {w \in loc[j].users : <<loc[j].kind, m>> \in Asked[w]} :
                                   ~ SentBefore(u, loc[j].anchor, m)}]
    BY DEF CheckSent
  <1> DEFINE l == [loc[j] EXCEPT !.pc = "send", !.lead = m, !.rounds = @ \ {m}, !.mark = {},
                    !.todo = {u \in {w \in loc[j].users : <<loc[j].kind, m>> \in Asked[w]} :
                                ~ SentBefore(u, loc[j].anchor, m)}]
  <1>3. loc' = [loc EXCEPT ![j] = l]
    BY <1>1, <1>2 DEF TypeOK
  <1>4. /\ l.pc = "send" /\ l.anchor = loc[j].anchor /\ l.lead = m /\ l.mark = {}
        /\ \A u \in l.todo : ~ SentBefore(u, loc[j].anchor, m)
    BY <1>1 DEF LocType
  <1> HIDE DEF l
  <1>5. FreshOk(l)
    BY <1>4 DEF FreshOk, ToMessage, SentBefore
  <1>6. UNCHANGED <<sent, marked, budget, clashed>>
    BY DEF CheckSent, dbVars, chatVars, procVars
  <1>7. BudgetInv' /\ (Calm' => Calm /\ OnceInv)
    BY <1>6, CalmStays
  <1> QED
    BY <1>1, <1>3, <1>5, <1>6, <1>7, OutsideOnce

\* A job that works goes on with its round, or outside of one.
LEMMA InsideOnce ==
  ASSUME IInv, NEW j \in Jobs, loc[j].pc # "idle", NEW l,
         loc' = [loc EXCEPT ![j] = l], FreshOk(l), UNCHANGED <<sent, marked>>, OnceInv,
         loc[j].pc \in Rounding => l.pc \in Rounding,
         l.anchor = loc[j].anchor /\ l.lead = loc[j].lead /\ l.mark = loc[j].mark
  PROVE  OnceInv'
  BY OthersRest, OnceStep DEF IInv

\* The user whose old reminder is deleted leaves those who wait.
LEMMA DeleteOnce ==
  ASSUME IInv, NEW j \in Jobs, NEW u \in Users, DeleteMessages(j, u)
  PROVE  BudgetInv' /\ (Calm' => OnceInv')
  <1>1. TypeOK /\ loc[j] \in LocType /\ loc[j].pc \in {"clean", "send"} /\ u \in loc[j].todo
    BY DEF IInv, TypeInv, TypeOK, DeleteMessages
  <1> DEFINE l == [loc[j] EXCEPT !.todo = @ \ {u}, !.user = u, !.msg = tracked[u],
                                 !.pc = IF @ = "clean" THEN "forget" ELSE "forgetOld"]
  <1>2. loc' = [loc EXCEPT ![j] = l]
    BY <1>1 DEF DeleteMessages, TypeOK
  <1>3. /\ l.pc = IF loc[j].pc = "clean" THEN "forget" ELSE "forgetOld"
        /\ l.user = u /\ l.todo = loc[j].todo \ {u}
        /\ l.anchor = loc[j].anchor /\ l.lead = loc[j].lead /\ l.mark = loc[j].mark
    BY <1>1 DEF LocType
  <1> HIDE DEF l
  <1>4. "deleteError" \in Events \ {"any"}
    BY DEF Events
  <1>5. budget' \in [Events -> Nat] /\ \A k \in Events : budget'[k] <= budget[k]
    <2>1. Spend("deleteError") \/ UNCHANGED budget
      BY DEF DeleteMessages
    <2> QED
      BY <1>1, <1>4, <2>1, MaySpend
  <1>6. UNCHANGED <<sent, marked, clashed>>
    BY DEF DeleteMessages, dbVars, procVars
  <1>7. BudgetInv' /\ (Calm' => Calm /\ OnceInv)
    BY <1>5, <1>6, CalmBefore
  <1>8. ASSUME Calm'
        PROVE  OnceInv'
    <2>1. FreshOk(loc[j])
      BY <1>7, <1>8 DEF OnceInv, FreshInv
    <2>2. FreshOk(l)
      <3>1. CASE loc[j].pc = "clean"
        BY <1>3, <3>1, FreshOutside DEF Rounding
      <3>2. CASE loc[j].pc = "send"
        <4>1. \A v \in Users : ToMessage(l, v) => ToMessage(loc[j], v)
          BY <1>1, <1>3, <3>2 DEF ToMessage, Rounding
        <4> QED
          BY <1>3, <2>1, <4>1 DEF FreshOk
      <3> QED
        BY <1>1, <3>1, <3>2
    <2>3. loc[j].pc # "idle" /\ (loc[j].pc \in Rounding => l.pc \in Rounding)
      BY <1>1, <1>3 DEF Rounding
    <2> QED
      BY <1>2, <1>3, <1>6, <1>7, <1>8, <2>2, <2>3, InsideOnce
  <1> QED
    BY <1>7, <1>8

LEMMA ForgetOnce ==
  ASSUME IInv, NEW j \in Jobs, ForgetIds(j)
  PROVE  BudgetInv' /\ (Calm' => OnceInv')
  <1>1. TypeOK /\ loc[j] \in LocType /\ loc[j].pc \in {"forget", "forgetOld"}
    BY DEF IInv, TypeInv, TypeOK, ForgetIds
  <1> DEFINE l == [loc[j] EXCEPT !.pc = IF @ = "forget" THEN "clean" ELSE "message",
                                 !.msg = NoMessages,
                                 !.user = IF loc[j].pc = "forget" THEN None ELSE @]
  <1>2. loc' = [loc EXCEPT ![j] = l]
    BY <1>1 DEF ForgetIds, TypeOK
  <1>3. /\ l.pc = IF loc[j].pc = "forget" THEN "clean" ELSE "message"
        /\ l.user = IF loc[j].pc = "forget" THEN None ELSE loc[j].user
        /\ l.todo = loc[j].todo
        /\ l.anchor = loc[j].anchor /\ l.lead = loc[j].lead /\ l.mark = loc[j].mark
    BY <1>1 DEF LocType
  <1> HIDE DEF l
  <1>4. "dbError" \in Events \ {"any"}
    BY DEF Events
  <1>5. budget' \in [Events -> Nat] /\ \A k \in Events : budget'[k] <= budget[k]
    <2>1. Spend("dbError") \/ UNCHANGED budget
      BY DEF ForgetIds
    <2> QED
      BY <1>1, <1>4, <2>1, MaySpend
  <1>6. UNCHANGED <<sent, marked, clashed>>
    BY DEF ForgetIds, chatVars, procVars
  <1>7. BudgetInv' /\ (Calm' => Calm /\ OnceInv)
    BY <1>5, <1>6, CalmBefore
  <1>8. ASSUME Calm'
        PROVE  OnceInv'
    <2>1. FreshOk(loc[j])
      BY <1>7, <1>8 DEF OnceInv, FreshInv
    <2>2. FreshOk(l)
      <3>1. CASE loc[j].pc = "forget"
        BY <1>3, <3>1, FreshOutside DEF Rounding
      <3>2. CASE loc[j].pc = "forgetOld"
        <4>1. \A v \in Users : ToMessage(l, v) => ToMessage(loc[j], v)
          BY <1>3, <3>2 DEF ToMessage, Rounding
        <4> QED
          BY <1>3, <2>1, <3>2, <4>1 DEF FreshOk
      <3> QED
        BY <1>1, <3>1, <3>2
    <2>3. loc[j].pc # "idle" /\ (loc[j].pc \in Rounding => l.pc \in Rounding)
      BY <1>1, <1>3 DEF Rounding
    <2> QED
      BY <1>2, <1>3, <1>6, <1>7, <1>8, <2>2, <2>3, InsideOnce
  <1> QED
    BY <1>7, <1>8

\* The ids are saved; the round of sends ends.
LEMMA SaveOnce ==
  ASSUME IInv, NEW j \in Jobs, SaveIds(j) \/ SendsDone(j)
  PROVE  BudgetInv' /\ (Calm' => OnceInv')
  <1>1. TypeOK /\ loc[j] \in LocType /\ loc[j].pc \in {"save", "send"}
    BY DEF IInv, TypeInv, TypeOK, SaveIds, SendsDone, At
  <1> DEFINE l1 == [loc[j] EXCEPT !.pc = "send", !.user = None, !.msg = NoMessages]
             l2 == [loc[j] EXCEPT !.pc = "mark"]
  <1>2. loc' = [loc EXCEPT ![j] = l1] \/ loc' = [loc EXCEPT ![j] = l2]
    BY <1>1 DEF SaveIds, SendsDone, TypeOK
  <1>3. /\ l1.pc = "send" /\ l1.todo = loc[j].todo
        /\ l1.anchor = loc[j].anchor /\ l1.lead = loc[j].lead /\ l1.mark = loc[j].mark
        /\ l2.pc = "mark" /\ l2.todo = loc[j].todo
        /\ l2.anchor = loc[j].anchor /\ l2.lead = loc[j].lead /\ l2.mark = loc[j].mark
    BY <1>1 DEF LocType
  <1> HIDE DEF l1, l2
  <1>4. "dbError" \in Events \ {"any"}
    BY DEF Events
  <1>5. budget' \in [Events -> Nat] /\ \A k \in Events : budget'[k] <= budget[k]
    <2>1. Spend("dbError") \/ UNCHANGED budget
      BY DEF SaveIds, SendsDone
    <2> QED
      BY <1>1, <1>4, <2>1, MaySpend
  <1>6. UNCHANGED <<sent, marked, clashed>>
    BY DEF SaveIds, SendsDone, chatVars, procVars, dbVars
  <1>7. BudgetInv' /\ (Calm' => Calm /\ OnceInv)
    BY <1>5, <1>6, CalmBefore
  <1>8. ASSUME Calm'
        PROVE  OnceInv'
    <2>1. FreshOk(loc[j])
      BY <1>7, <1>8 DEF OnceInv, FreshInv
    <2>2. \A v \in Users : ToMessage(l1, v) \/ ToMessage(l2, v) => ToMessage(loc[j], v)
      BY <1>1, <1>3 DEF ToMessage, Rounding
    <2>3. FreshOk(l1) /\ FreshOk(l2)
      BY <1>3, <2>1, <2>2 DEF FreshOk
    <2>4. loc[j].pc # "idle" /\ l1.pc \in Rounding /\ l2.pc \in Rounding
      BY <1>1, <1>3 DEF Rounding
    <2> QED
      BY <1>2, <1>3, <1>6, <1>7, <1>8, <2>3, <2>4, InsideOnce
  <1> QED
    BY <1>7, <1>8

\* The rows are written: all that was sent in the round has one.
LEMMA MarkOnce ==
  ASSUME IInv, NEW j \in Jobs, Mark(j)
  PROVE  BudgetInv' /\ (Calm' => OnceInv')
  <1>1. TypeOK /\ loc[j] \in LocType /\ loc[j].pc = "mark"
    BY DEF IInv, TypeInv, TypeOK, Mark, At
  <1> DEFINE l == [loc[j] EXCEPT !.pc = "check", !.mark = {}]
             row == <<loc[j].anchor, loc[j].lead>>
  <1>2. loc' = [loc EXCEPT ![j] = Resting] \/ loc' = [loc EXCEPT ![j] = l]
    BY <1>1 DEF Mark, Finished, TypeOK
  <1>3. l.pc = "check" /\ Resting.pc = "idle"
    BY <1>1, RestingType DEF LocType
  <1> HIDE DEF l
  <1>4. loc'[j].pc \in {"check", "idle"} /\ \A i \in Jobs \ {j} : loc'[i] = loc[i]
    BY <1>1, <1>2, <1>3 DEF TypeOK
  <1>5. UNCHANGED <<sent, budget, clashed>>
    BY DEF Mark, chatVars
  <1>6. BudgetInv' /\ (Calm' => Calm /\ OnceInv)
    BY <1>5, CalmStays
  <1>7. ASSUME NEW u \in Users
        PROVE  marked[u] \subseteq marked'[u] /\ (u \in loc[j].mark => row \in marked'[u])
    BY DEF Mark
  <1>8. ASSUME Calm'
        PROVE  OnceInv'
    <2>1. OnceInv /\ \A i \in Jobs \ {j} : loc[i].pc = "idle"
      BY <1>1, <1>6, <1>8, OthersRest
    <2>2. AloneInv'
      BY <1>4, <2>1 DEF AloneInv
    <2>3. KeptInv'
      <3>1. ASSUME NEW u \in Users, NEW c \in Chats, NEW x \in sent[u][c]
            PROVE  x[3] = 1 /\ <<x[1], x[2]>> \in marked'[u]
        <4>1. x[3] = 1 /\ (<<x[1], x[2]>> \in marked[u] \/ \E i \in Jobs : OnItsWay(i, u, x))
          BY <2>1 DEF OnceInv, KeptInv
        <4>2. CASE <<x[1], x[2]>> \in marked[u]
          BY <1>7, <4>1, <4>2
        <4>3. ASSUME NEW i \in Jobs, OnItsWay(i, u, x)
              PROVE  <<x[1], x[2]>> \in marked'[u]
          <5>1. i = j
            BY <2>1, <4>3 DEF OnItsWay, Rounding
          <5> QED
            BY <1>7, <4>3, <5>1 DEF OnItsWay
        <4> QED
          BY <4>1, <4>2, <4>3
      <3> QED
        BY <1>5, <3>1 DEF KeptInv
    <2>4. ASSUME NEW i \in Jobs
          PROVE  FreshOk(loc[i])'
      <3>1. loc'[i].pc \notin Rounding
        BY <1>4, <2>1 DEF Rounding
      <3> QED
        BY <3>1 DEF FreshOk, ToMessage, Rounding
    <2> QED
      BY <2>2, <2>3, <2>4 DEF OnceInv, FreshInv
  <1> QED
    BY <1>6, <1>8

LEMMA CrashOnce ==
  ASSUME IInv, NEW r \in Replicas, Crash(r)
  PROVE  BudgetInv' /\ (Calm' => OnceInv')
  <1>1. "crash" \in Events \ {"any"} /\ Spend("crash")
    BY DEF Events, Crash
  <1>2. budget' \in [Events -> Nat] /\ \A k \in Events : budget'[k] <= budget[k]
    BY <1>1, MaySpend DEF IInv, TypeInv
  <1>3. clashed' = clashed
    BY DEF Crash
  <1>4. ~ Calm'
    BY <1>1, NotCalm
  <1> QED
    BY <1>2, <1>3, <1>4, CalmBefore

\* Nothing of the row was sent: the new message is its first.
LEMMA FirstMessage ==
  ASSUME TypeInv, OnceInv, NEW j \in Jobs, loc[j].pc = "message", NEW c \in Chats
  PROVE  LET x == NewMessage(loc[j].user, c, loc[j].anchor, loc[j].lead)
         IN x[1] = loc[j].anchor /\ x[2] = loc[j].lead /\ x[3] = 1
  <1> DEFINE u == loc[j].user
             same == {x \in sent[u][c] : x[1] = loc[j].anchor /\ x[2] = loc[j].lead}
  <1>1. u \in Users
    BY DEF TypeInv, LocalsInv, LocalsOk
  <1>2. <<loc[j].anchor, loc[j].lead>> \notin marked[u] /\ u \notin loc[j].mark
    BY <1>1 DEF OnceInv, FreshInv, FreshOk, ToMessage
  <1>3. \A i \in Jobs \ {j} : loc[i].pc \notin Rounding
    BY OthersRest DEF Rounding
  <1>4. ASSUME NEW x \in same
        PROVE  FALSE
    <2>1. <<x[1], x[2]>> \in marked[u] \/ \E i \in Jobs : OnItsWay(i, u, x)
      BY <1>1 DEF OnceInv, KeptInv
    <2>2. x[1] = loc[j].anchor /\ x[2] = loc[j].lead
      OBVIOUS
    <2> QED
      BY <1>2, <1>3, <2>1, <2>2 DEF OnItsWay
  <1>5. same = {}
    BY <1>4
  <1>6. Cardinality(same) = 0
    BY <1>5, FS_EmptySet
  <1>7. NewMessage(u, c, loc[j].anchor, loc[j].lead)
        = <<loc[j].anchor, loc[j].lead, 1 + Cardinality(same)>>
    BY DEF NewMessage
  <1> QED
    BY <1>6, <1>7

\* A message is sent to one who waits, and is on its way to sent_reminders.
LEMMA SendOnce ==
  ASSUME IInv, NEW j \in Jobs, SendReminder(j) \/ SendFails(j) \/ SendForbidden(j)
  PROVE  BudgetInv' /\ (Calm' => OnceInv')
  <1>1. PICK ok \in SUBSET Chats : At(j, "message") /\ Delivered(j, ok)
    BY SendTypes DEF IInv
  <1>2. TypeInv /\ TypeOK /\ loc[j] \in LocType /\ loc[j].pc = "message" /\ LocalsOk(loc[j])
    BY <1>1 DEF IInv, TypeInv, TypeOK, LocalsInv, At
  <1>3. loc[j].user \in Users
    BY <1>2 DEF LocalsOk
  <1>4. /\ budget' \in [Events -> Nat]
        /\ \A k \in Events : budget'[k] <= budget[k]
        /\ UNCHANGED <<procVars, marked>>
    BY SendTypes DEF IInv
  <1>5. BudgetInv' /\ (Calm' => Calm /\ OnceInv)
    BY <1>4, CalmBefore DEF procVars
  <1> DEFINE new == [c \in Chats |->
                       IF c \in ok THEN NewMessage(loc[j].user, c, loc[j].anchor, loc[j].lead)
                       ELSE None]
             l == [loc[j] EXCEPT !.msg = new,
                     !.pc = IF ok = {} THEN "send" ELSE "save",
                     !.user = IF ok = {} THEN None ELSE @,
                     !.mark = IF ok = {} THEN @ ELSE @ \cup {loc[j].user}]
  <1>6. loc' = [loc EXCEPT ![j] = l]
    BY <1>1, <1>2 DEF Delivered, TypeOK
  <1> HIDE DEF new
  <1>7. /\ l.pc = IF ok = {} THEN "send" ELSE "save"
        /\ l.mark = IF ok = {} THEN loc[j].mark ELSE loc[j].mark \cup {loc[j].user}
        /\ l.todo = loc[j].todo /\ l.anchor = loc[j].anchor /\ l.lead = loc[j].lead
    BY <1>2 DEF LocType
  <1> HIDE DEF l
  <1>8. loc'[j] = l /\ \A i \in Jobs \ {j} : loc'[i] = loc[i]
    BY <1>2, <1>6 DEF TypeOK
  <1>9. ASSUME Calm'
        PROVE  OnceInv'
    <2>1. OnceInv /\ \A i \in Jobs \ {j} : loc[i].pc = "idle"
      BY <1>2, <1>5, <1>9, OthersRest
    <2>2. AloneInv'
      BY <1>8, <2>1 DEF AloneInv
    <2>3. KeptInv'
      <3>1. ASSUME NEW u \in Users, NEW x, \E i \in Jobs : OnItsWay(i, u, x)
            PROVE  OnItsWay(j, u, x)'
        <4>1. OnItsWay(j, u, x)
          BY <2>1, <3>1 DEF OnItsWay, Rounding
        <4> QED
          BY <1>7, <1>8, <4>1 DEF OnItsWay, Rounding
      <3>2. ASSUME NEW u \in Users, NEW c \in Chats, NEW x \in sent'[u][c]
            PROVE  x[3] = 1 /\ (<<x[1], x[2]>> \in marked'[u] \/ \E i \in Jobs : OnItsWay(i, u, x)')
        <4>1. CASE x \in sent[u][c]
          BY <1>4, <2>1, <3>1, <4>1 DEF OnceInv, KeptInv
        <4>2. CASE x \notin sent[u][c]
          <5>1. /\ u = loc[j].user /\ c \in ok
                /\ x = NewMessage(u, c, loc[j].anchor, loc[j].lead)
            <6>1. sent'[u][c] = IF u = loc[j].user /\ c \in ok
                    THEN sent[u][c] \cup {NewMessage(u, c, loc[j].anchor, loc[j].lead)}
                    ELSE sent[u][c]
              BY <1>1, <1>2, <3>2, DeliveryToChat
            <6> QED
              BY <3>2, <4>2, <6>1
          <5>2. x[1] = loc[j].anchor /\ x[2] = loc[j].lead /\ x[3] = 1
            BY <1>2, <2>1, <5>1, FirstMessage
          <5>3. OnItsWay(j, u, x)'
            BY <1>7, <1>8, <5>1, <5>2 DEF OnItsWay, Rounding
          <5> QED
            BY <5>2, <5>3
        <4> QED
          BY <4>1, <4>2
      <3> QED
        BY <3>2 DEF KeptInv
    <2>4. FreshOk(l)
      <3>1. FreshOk(loc[j])
        BY <2>1 DEF OnceInv, FreshInv
      <3>2. l.pc \in {"send", "save"}
        BY <1>7
      <3>3. ASSUME NEW v \in Users, ToMessage(l, v)
            PROVE  ToMessage(loc[j], v) /\ v # loc[j].user
        BY <1>2, <1>7, <3>1, <3>2, <3>3 DEF ToMessage, FreshOk, Rounding
      <3> QED
        BY <1>7, <3>1, <3>2, <3>3 DEF FreshOk
    <2>5. ASSUME NEW i \in Jobs
          PROVE  FreshOk(loc[i])'
      BY <1>4, <1>8, <2>1, <2>4 DEF OnceInv, FreshInv, FreshOk
    <2> QED
      BY <2>2, <2>3, <2>5 DEF OnceInv, FreshInv
  <1> QED
    BY <1>5, <1>9

LEMMA InitInductive == Init => IInv
  <1> SUFFICES ASSUME Init PROVE IInv
    OBVIOUS
  <1>1. Budget \in [Events -> Nat]
    BY RemindersAssumption DEF RemindersAssumption
  <1>2. BudgetInv
    BY <1>1 DEF Init, BudgetInv
  <1>3. \A j \in Jobs : loc[j] = Resting
    BY DEF Init
  <1>4. AloneInv
    BY <1>3, RestingType DEF AloneInv
  <1>5. KeptInv
    BY DEF Init, KeptInv
  <1>6. FreshInv
    BY <1>3, RestingType, FreshOutside DEF FreshInv, Rounding
  <1> QED
    BY <1>2, <1>4, <1>5, <1>6, InitTypes DEF IInv, OnceInv

LEMMA NextInductive == IInv /\ [Next]_vars => IInv'
  <1> SUFFICES ASSUME IInv, [Next]_vars PROVE IInv'
    OBVIOUS
  <1>1. TypeInv'
    BY NextTypes DEF IInv
  <1>2. ASSUME NEW j \in Jobs, Work(j)
        PROVE  BudgetInv' /\ (Calm' => OnceInv')
    BY <1>2, EnvOnce, StartOnce, ReadOnce, GiveUpOnce, CheckOnce, DeleteOnce, ForgetOnce,
       SendOnce, SaveOnce, MarkOnce DEF Work
  <1>3. CASE UNCHANGED vars
    <2>1. UNCHANGED <<loc, sent, marked, budget, clashed>>
      BY <1>3 DEF vars, procVars, dbVars, chatVars
    <2> QED
      BY <1>1, <2>1, CalmStays, OnceStays DEF IInv
  <1>4. CASE Tick \/ Publish \/ Over
    BY <1>1, <1>4, EnvOnce DEF IInv
  <1>5. ASSUME NEW r \in Replicas, Crash(r)
        PROVE  IInv'
    BY <1>1, <1>5, CrashOnce DEF IInv
  <1> QED
    BY <1>1, <1>2, <1>3, <1>4, <1>5 DEF Next, IInv

\* "Deduplication via the SentReminder table prevents double-sends": for any users,
\* leads and schedules, as long as the loops do not overlap and no step is lost.
THEOREM RemindersAreSentOnce == Spec => []ReminderSentOnce
  <1>1. IInv => ReminderSentOnce
    BY DEF IInv, OnceInv, KeptInv, ReminderSentOnce
  <1> QED
    BY <1>1, InitInductive, NextInductive, PTL DEF Spec
-----------------------------------------------------------------------------
(* What a step does to the job that takes it                               *)

OthersStay(j) == \A i \in Jobs \ {j} : loc'[i] = loc[i]

LEMMA StartEffect ==
  ASSUME TypeInv, NEW j \in Jobs, StartCycle(j)
  PROVE  /\ loc[j].pc = "idle" /\ j[2] = "checker" /\ clock \notin Quiet
         /\ loc'[j].pc = "clean" /\ OthersStay(j)
         /\ \/ loc'[j].todo = PassedAnchors /\ UNCHANGED budget
            \/ Spend("dbError")
         /\ clashed' = (clashed \/ Meets(j))
         /\ UNCHANGED <<clock, off, changed, last, caughtUp, active, marked, latest,
                        tracked, visible, sent>>
  <1> DEFINE l1 == [Resting EXCEPT !.pc = "clean"]
             l2 == [Resting EXCEPT !.pc = "clean", !.todo = PassedAnchors]
  <1>1. /\ l1.pc = "clean" /\ l2.pc = "clean" /\ l2.todo = PassedAnchors
    BY RestingType DEF LocType
  <1>2. \/ loc' = [loc EXCEPT ![j] = l2] /\ UNCHANGED budget
        \/ loc' = [loc EXCEPT ![j] = l1] /\ Spend("dbError")
    BY DEF StartCycle
  <1> HIDE DEF l1, l2
  <1>3. loc \in [Jobs -> LocType]
    BY DEF TypeInv, TypeOK
  <1>4. /\ loc'[j].pc = "clean" /\ OthersStay(j)
        /\ \/ loc'[j].todo = PassedAnchors /\ UNCHANGED budget
           \/ Spend("dbError")
    BY <1>1, <1>2, <1>3 DEF OthersStay
  <1>5. /\ loc[j].pc = "idle" /\ j[2] = "checker" /\ clock \notin Quiet
        /\ clashed' = (clashed \/ Meets(j))
        /\ UNCHANGED <<envVars, last, caughtUp, dbVars, chatVars>>
    BY DEF StartCycle, At
  <1> QED
    BY <1>4, <1>5 DEF envVars, dbVars, chatVars

LEMMA CatchUpEffect ==
  ASSUME TypeInv, NEW j \in Jobs, StartCatchUp(j)
  PROVE  /\ loc[j].pc = "idle" /\ j[2] = "catchup"
         /\ clock \notin Quiet /\ (clock - 1 \in Quiet \/ clock - 2 \in Quiet)
         /\ loc'[j].pc = "clean" /\ loc'[j].todo = {} /\ OthersStay(j)
         /\ caughtUp' = caughtUp \cup {j[1]} /\ clashed' = (clashed \/ Meets(j))
         /\ UNCHANGED <<clock, off, changed, last, active, marked, latest,
                        tracked, visible, sent, budget>>
  <1> DEFINE l == [Resting EXCEPT !.pc = "clean"]
  <1>1. l.pc = "clean" /\ l.todo = {}
    BY RestingType DEF LocType, Resting
  <1>2. loc' = [loc EXCEPT ![j] = l]
    BY DEF StartCatchUp
  <1> HIDE DEF l
  <1>3. loc'[j].pc = "clean" /\ loc'[j].todo = {} /\ OthersStay(j)
    BY <1>1, <1>2 DEF TypeInv, TypeOK, OthersStay
  <1> QED
    BY <1>3 DEF StartCatchUp, At, envVars, dbVars, chatVars

\* A job at rest again.
LEMMA FinishedEffect ==
  ASSUME TypeInv, NEW j \in Jobs, Finished(j)
  PROVE  /\ loc'[j] = Resting /\ OthersStay(j)
         /\ \A r \in Replicas :
              last'[r] = IF j = <<r, "checker">> THEN clock ELSE last[r]
  <1>1. loc'[j] = Resting /\ OthersStay(j)
    BY DEF Finished, TypeInv, TypeOK, OthersStay
  <1>2. last \in [Replicas -> Minutes \cup {None}] /\ j = <<j[1], j[2]>>
    BY DEF TypeInv, TypeOK, Jobs
  <1>3. last' = IF j[2] = "checker" THEN [last EXCEPT ![j[1]] = clock] ELSE last
    BY DEF Finished
  <1> QED
    BY <1>1, <1>2, <1>3

LEMMA ReadEffect ==
  ASSUME TypeInv, NEW j \in Jobs, ReadEvent(j), NEW a, a = NextAnchor(off, clock)
  PROVE  /\ loc[j].pc = "clean" /\ loc[j].todo = {} /\ OthersStay(j)
         /\ \/ RoundsOf(j, a) = {} /\ Finished(j)
            \/ /\ RoundsOf(j, a) # {}
               /\ loc'[j].pc = "check" /\ loc'[j].anchor = a
               /\ loc'[j].kind = NextKind(off, clock)
               /\ loc'[j].rounds = RoundsOf(j, a) /\ loc'[j].users = active
               /\ UNCHANGED last
         /\ UNCHANGED <<clock, off, changed, caughtUp, clashed, active, marked, latest,
                        tracked, visible, sent, budget>>
  <1> DEFINE l == [Resting EXCEPT !.pc = "check", !.anchor = a, !.kind = NextKind(off, clock),
                                  !.rounds = RoundsOf(j, a), !.users = active]
  <1>1. /\ l.pc = "check" /\ l.anchor = a /\ l.kind = NextKind(off, clock)
        /\ l.rounds = RoundsOf(j, a) /\ l.users = active
    BY RestingType DEF LocType
  <1>2. \/ RoundsOf(j, a) = {} /\ Finished(j)
        \/ RoundsOf(j, a) # {} /\ loc' = [loc EXCEPT ![j] = l] /\ UNCHANGED last
    BY DEF ReadEvent
  <1> HIDE DEF l
  <1>3. loc \in [Jobs -> LocType]
    BY DEF TypeInv, TypeOK
  <1>4. loc' = [loc EXCEPT ![j] = l] => loc'[j] = l /\ OthersStay(j)
    BY <1>3 DEF OthersStay
  <1>5. /\ loc[j].pc = "clean" /\ loc[j].todo = {}
        /\ UNCHANGED <<envVars, caughtUp, clashed, dbVars, chatVars, budget>>
    BY DEF ReadEvent, At
  <1>6. Finished(j) => OthersStay(j)
    BY FinishedEffect
  <1> QED
    BY <1>1, <1>2, <1>4, <1>5, <1>6 DEF envVars, dbVars, chatVars

LEMMA GiveUpEffect ==
  ASSUME TypeInv, NEW j \in Jobs, GiveUp(j)
  PROVE  /\ loc[j].pc \in {"clean", "check", "mark"} /\ Finished(j) /\ OthersStay(j)
         /\ \/ Spend("dbError")
            \/ loc[j].pc = "clean" /\ loc[j].todo = {} /\ Spend("fetch")
         /\ UNCHANGED <<clock, off, changed, caughtUp, clashed, active, marked, latest,
                        tracked, visible, sent>>
  BY FinishedEffect DEF GiveUp, At, envVars, dbVars, chatVars

LEMMA CheckEffect ==
  ASSUME TypeInv, NEW j \in Jobs, CheckSent(j)
  PROVE  \E m \in loc[j].rounds :
         /\ loc[j].pc = "check" /\ loc'[j].pc = "send" /\ OthersStay(j)
         /\ loc'[j].lead = m /\ loc'[j].rounds = loc[j].rounds \ {m} /\ loc'[j].mark = {}
         /\ loc'[j].todo = {u \in loc[j].users :
              <<loc[j].kind, m>> \in Asked[u] /\ <<loc[j].anchor, m>> \notin marked[u]}
         /\ loc'[j].anchor = loc[j].anchor /\ loc'[j].kind = loc[j].kind
         /\ loc'[j].users = loc[j].users
         /\ UNCHANGED <<clock, off, changed, last, caughtUp, clashed, active, marked, latest,
                        tracked, visible, sent, budget>>
  <1>1. TypeOK /\ loc[j] \in LocType /\ loc[j].pc = "check"
    BY DEF TypeInv, TypeOK, CheckSent, At
  <1>2. PICK m \in loc[j].rounds :
          loc' = [loc EXCEPT ![j].pc = "send", ![j].lead = m, ![j].rounds = @ \ {m},
                    ![j].mark = {},
                    ![j].todo = {u \in {w \in loc[j].users : <<loc[j].kind, m>> \in Asked[w]} :
                                   ~ SentBefore(u, loc[j].anchor, m)}]
    BY DEF CheckSent
  <1> DEFINE l == [loc[j] EXCEPT !.pc = "send", !.lead = m, !.rounds = @ \ {m}, !.mark = {},
                    !.todo = {u \in {w \in loc[j].users : <<loc[j].kind, m>> \in Asked[w]} :
                                ~ SentBefore(u, loc[j].anchor, m)}]
  <1>3. loc' = [loc EXCEPT ![j] = l]
    BY <1>1, <1>2 DEF TypeOK
  <1>4. /\ l.pc = "send" /\ l.lead = m /\ l.rounds = loc[j].rounds \ {m} /\ l.mark = {}
        /\ l.todo = {u \in {w \in loc[j].users : <<loc[j].kind, m>> \in Asked[w]} :
                       ~ SentBefore(u, loc[j].anchor, m)}
        /\ l.anchor = loc[j].anchor /\ l.kind = loc[j].kind /\ l.users = loc[j].users
    BY <1>1 DEF LocType
  <1> HIDE DEF l
  <1>5. loc'[j] = l /\ OthersStay(j)
    BY <1>1, <1>3 DEF TypeOK, OthersStay
  <1>6. l.todo = {u \in loc[j].users :
                    <<loc[j].kind, m>> \in Asked[u] /\ <<loc[j].anchor, m>> \notin marked[u]}
    BY <1>4 DEF SentBefore
  <1>7. UNCHANGED <<envVars, procVars, dbVars, chatVars, budget>>
    BY DEF CheckSent
  <1> QED
    BY <1>1, <1>4, <1>5, <1>6, <1>7 DEF envVars, procVars, dbVars, chatVars

\* What a job keeps through a round.
RoundStays(j) ==
  /\ loc'[j].anchor = loc[j].anchor /\ loc'[j].kind = loc[j].kind
  /\ loc'[j].lead = loc[j].lead /\ loc'[j].rounds = loc[j].rounds
  /\ loc'[j].users = loc[j].users

LEMMA DeleteEffect ==
  ASSUME TypeInv, NEW j \in Jobs, NEW u \in Users, DeleteMessages(j, u)
  PROVE  /\ loc[j].pc \in {"clean", "send"} /\ u \in loc[j].todo
         /\ loc'[j].pc = IF loc[j].pc = "clean" THEN "forget" ELSE "forgetOld"
         /\ loc'[j].user = u /\ loc'[j].todo = loc[j].todo \ {u}
         /\ loc'[j].msg = tracked[u] /\ loc'[j].mark = loc[j].mark
         /\ RoundStays(j) /\ OthersStay(j)
         /\ \/ visible' = DeletedFromChats(u) /\ UNCHANGED budget
            \/ UNCHANGED visible /\ Spend("deleteError")
         /\ UNCHANGED <<clock, off, changed, last, caughtUp, clashed, active, marked, latest,
                        tracked, sent>>
  <1>1. TypeOK /\ loc[j] \in LocType /\ loc[j].pc \in {"clean", "send"} /\ u \in loc[j].todo
    BY DEF TypeInv, TypeOK, DeleteMessages
  <1> DEFINE l == [loc[j] EXCEPT !.todo = @ \ {u}, !.user = u, !.msg = tracked[u],
                                 !.pc = IF @ = "clean" THEN "forget" ELSE "forgetOld"]
  <1>2. loc' = [loc EXCEPT ![j] = l]
    BY <1>1 DEF DeleteMessages, TypeOK
  <1>3. /\ l.pc = IF loc[j].pc = "clean" THEN "forget" ELSE "forgetOld"
        /\ l.user = u /\ l.todo = loc[j].todo \ {u} /\ l.msg = tracked[u]
        /\ l.mark = loc[j].mark /\ l.anchor = loc[j].anchor /\ l.kind = loc[j].kind
        /\ l.lead = loc[j].lead /\ l.rounds = loc[j].rounds /\ l.users = loc[j].users
    BY <1>1 DEF LocType
  <1> HIDE DEF l
  <1>4. loc'[j] = l /\ OthersStay(j)
    BY <1>1, <1>2 DEF TypeOK, OthersStay
  <1>5. /\ \/ visible' = DeletedFromChats(u) /\ UNCHANGED budget
           \/ UNCHANGED visible /\ Spend("deleteError")
        /\ UNCHANGED <<envVars, procVars, dbVars, sent>>
    BY DEF DeleteMessages
  <1> QED
    BY <1>1, <1>3, <1>4, <1>5 DEF envVars, procVars, dbVars, RoundStays

LEMMA ForgetEffect ==
  ASSUME TypeInv, NEW j \in Jobs, ForgetIds(j)
  PROVE  /\ loc[j].pc \in {"forget", "forgetOld"}
         /\ loc'[j].pc = IF loc[j].pc = "forget" THEN "clean" ELSE "message"
         /\ loc'[j].user = IF loc[j].pc = "forget" THEN None ELSE loc[j].user
         /\ loc'[j].todo = loc[j].todo /\ loc'[j].mark = loc[j].mark
         /\ RoundStays(j) /\ OthersStay(j)
         /\ \/ tracked' = Forgotten(loc[j].user, loc[j].msg) /\ UNCHANGED budget
            \/ UNCHANGED tracked /\ Spend("dbError")
         /\ UNCHANGED <<clock, off, changed, last, caughtUp, clashed, active, marked, latest,
                        visible, sent>>
  <1>1. TypeOK /\ loc[j] \in LocType /\ loc[j].pc \in {"forget", "forgetOld"}
    BY DEF TypeInv, TypeOK, ForgetIds
  <1> DEFINE l == [loc[j] EXCEPT !.pc = IF @ = "forget" THEN "clean" ELSE "message",
                                 !.msg = NoMessages,
                                 !.user = IF loc[j].pc = "forget" THEN None ELSE @]
  <1>2. loc' = [loc EXCEPT ![j] = l]
    BY <1>1 DEF ForgetIds, TypeOK
  <1>3. /\ l.pc = IF loc[j].pc = "forget" THEN "clean" ELSE "message"
        /\ l.user = IF loc[j].pc = "forget" THEN None ELSE loc[j].user
        /\ l.todo = loc[j].todo
        /\ l.mark = loc[j].mark /\ l.anchor = loc[j].anchor /\ l.kind = loc[j].kind
        /\ l.lead = loc[j].lead /\ l.rounds = loc[j].rounds /\ l.users = loc[j].users
    BY <1>1 DEF LocType
  <1> HIDE DEF l
  <1>4. loc'[j] = l /\ OthersStay(j)
    BY <1>1, <1>2 DEF TypeOK, OthersStay
  <1>5. /\ \/ tracked' = Forgotten(loc[j].user, loc[j].msg) /\ UNCHANGED budget
           \/ UNCHANGED tracked /\ Spend("dbError")
        /\ UNCHANGED <<envVars, procVars, active, marked, latest, chatVars>>
    BY DEF ForgetIds
  <1> QED
    BY <1>1, <1>3, <1>4, <1>5 DEF envVars, procVars, chatVars, RoundStays

LEMMA SendEffect ==
  ASSUME TypeInv, NEW j \in Jobs, SendReminder(j) \/ SendFails(j) \/ SendForbidden(j)
  PROVE  \E ok \in SUBSET Chats :
         /\ loc[j].pc = "message" /\ loc[j].user \in Users
         /\ loc'[j].pc = IF ok = {} THEN "send" ELSE "save"
         /\ loc'[j].user = IF ok = {} THEN None ELSE loc[j].user
         /\ loc'[j].mark = IF ok = {} THEN loc[j].mark ELSE loc[j].mark \cup {loc[j].user}
         /\ loc'[j].todo = loc[j].todo
         /\ RoundStays(j) /\ OthersStay(j)
         /\ \A c \in Chats : loc'[j].msg[c] =
              IF c \in ok THEN NewMessage(loc[j].user, c, loc[j].anchor, loc[j].lead) ELSE None
         /\ \A u \in Users, c \in Chats : visible'[u][c] =
              IF u = loc[j].user /\ c \in ok
              THEN visible[u][c] \cup {NewMessage(u, c, loc[j].anchor, loc[j].lead)}
              ELSE visible[u][c]
         /\ \/ ok = ReachNow(j) /\ UNCHANGED <<active, budget>>
            \/ Spend("sendError") /\ UNCHANGED active
            \/ active' = active \ {loc[j].user} /\ Spend("blocked")
         /\ UNCHANGED <<clock, off, changed, last, caughtUp, clashed, marked, latest, tracked>>
  <1>1. TypeOK /\ loc[j] \in LocType /\ loc[j].pc = "message" /\ loc[j].user \in Users
    BY DEF TypeInv, TypeOK, LocalsInv, LocalsOk, SendReminder, SendFails, SendForbidden, At
  <1>2. ReachNow(j) \subseteq Chats
    BY <1>1, ReachType DEF At
  <1>3. PICK ok \in SUBSET Chats :
          /\ Delivered(j, ok)
          /\ \/ ok = ReachNow(j) /\ UNCHANGED <<active, budget>>
             \/ Spend("sendError") /\ UNCHANGED active
             \/ active' = active \ {loc[j].user} /\ Spend("blocked")
    <2>1. CASE SendReminder(j)
      BY <1>2, <2>1 DEF SendReminder, dbVars
    <2>2. CASE SendFails(j)
      <3>1. PICK c \in ReachNow(j) : Delivered(j, ReachNow(j) \ {c})
        BY <2>2 DEF SendFails
      <3>2. Spend("sendError") /\ UNCHANGED active
        BY <2>2 DEF SendFails, dbVars
      <3> QED
        BY <1>2, <3>1, <3>2
    <2>3. CASE SendForbidden(j)
      <3>1. Delivered(j, ReachNow(j) \ {"bot"})
        BY <2>3 DEF SendForbidden
      <3>2. active' = active \ {loc[j].user} /\ Spend("blocked")
        BY <2>3 DEF SendForbidden
      <3> QED
        BY <1>2, <3>1, <3>2
    <2> QED
      BY <2>1, <2>2, <2>3
  <1> DEFINE new == [c \in Chats |->
                       IF c \in ok THEN NewMessage(loc[j].user, c, loc[j].anchor, loc[j].lead)
                       ELSE None]
             l == [loc[j] EXCEPT !.msg = new,
                     !.pc = IF ok = {} THEN "send" ELSE "save",
                     !.user = IF ok = {} THEN None ELSE @,
                     !.mark = IF ok = {} THEN @ ELSE @ \cup {loc[j].user}]
  <1>4. loc' = [loc EXCEPT ![j] = l]
    BY <1>1, <1>3 DEF Delivered, TypeOK
  <1>5. visible' = [visible EXCEPT ![loc[j].user] =
                      [c \in Chats |-> IF c \in ok THEN @[c] \cup {new[c]} ELSE @[c]]]
    BY <1>3 DEF Delivered
  <1>6. \A c \in Chats : new[c] =
          IF c \in ok THEN NewMessage(loc[j].user, c, loc[j].anchor, loc[j].lead) ELSE None
    OBVIOUS
  <1> HIDE DEF new
  <1>7. /\ l.pc = IF ok = {} THEN "send" ELSE "save"
        /\ l.user = IF ok = {} THEN None ELSE loc[j].user
        /\ l.mark = IF ok = {} THEN loc[j].mark ELSE loc[j].mark \cup {loc[j].user}
        /\ l.msg = new /\ l.todo = loc[j].todo /\ l.anchor = loc[j].anchor
        /\ l.kind = loc[j].kind /\ l.lead = loc[j].lead /\ l.rounds = loc[j].rounds
        /\ l.users = loc[j].users
    BY <1>1 DEF LocType
  <1> HIDE DEF l
  <1>8. loc'[j] = l /\ OthersStay(j)
    BY <1>1, <1>4 DEF TypeOK, OthersStay
  <1>9. \A u \in Users, c \in Chats : visible'[u][c] =
          IF u = loc[j].user /\ c \in ok
          THEN visible[u][c] \cup {NewMessage(u, c, loc[j].anchor, loc[j].lead)}
          ELSE visible[u][c]
    BY <1>1, <1>5, <1>6 DEF TypeOK
  <1>10. UNCHANGED <<envVars, procVars, marked, latest, tracked>>
    BY SendTypes
  <1> QED
    BY <1>1, <1>3, <1>6, <1>7, <1>8, <1>9, <1>10 DEF envVars, procVars, RoundStays

LEMMA SaveEffect ==
  ASSUME TypeInv, NEW j \in Jobs, SaveIds(j)
  PROVE  /\ loc[j].pc = "save" /\ loc[j].user \in Users
         /\ loc'[j].pc = "send" /\ loc'[j].user = None
         /\ loc'[j].todo = loc[j].todo /\ loc'[j].mark = loc[j].mark
         /\ RoundStays(j) /\ OthersStay(j)
         /\ \/ /\ \A u \in Users, c \in Chats : tracked'[u][c] =
                    IF u = loc[j].user /\ loc[j].msg[c] # None THEN loc[j].msg[c]
                    ELSE tracked[u][c]
               /\ UNCHANGED budget
            \/ UNCHANGED tracked /\ Spend("dbError")
         /\ UNCHANGED <<clock, off, changed, last, caughtUp, clashed, active, marked, latest,
                        visible, sent>>
  <1>1. TypeOK /\ loc[j] \in LocType /\ loc[j].pc = "save" /\ loc[j].user \in Users
    BY DEF TypeInv, TypeOK, LocalsInv, LocalsOk, SaveIds, At
  <1> DEFINE l == [loc[j] EXCEPT !.pc = "send", !.user = None, !.msg = NoMessages]
  <1>2. loc' = [loc EXCEPT ![j] = l]
    BY <1>1 DEF SaveIds, TypeOK
  <1>3. /\ l.pc = "send" /\ l.user = None /\ l.todo = loc[j].todo
        /\ l.mark = loc[j].mark /\ l.anchor = loc[j].anchor /\ l.kind = loc[j].kind
        /\ l.lead = loc[j].lead /\ l.rounds = loc[j].rounds /\ l.users = loc[j].users
    BY <1>1 DEF LocType
  <1> HIDE DEF l
  <1>4. loc'[j] = l /\ OthersStay(j)
    BY <1>1, <1>2 DEF TypeOK, OthersStay
  <1>5. /\ \/ /\ tracked' = [tracked EXCEPT ![loc[j].user] =
                     [c \in Chats |-> IF loc[j].msg[c] # None THEN loc[j].msg[c] ELSE @[c]]]
              /\ UNCHANGED budget
           \/ UNCHANGED tracked /\ Spend("dbError")
        /\ UNCHANGED <<envVars, procVars, active, marked, latest, chatVars>>
    BY DEF SaveIds
  <1>6. \/ /\ \A u \in Users, c \in Chats : tracked'[u][c] =
                IF u = loc[j].user /\ loc[j].msg[c] # None THEN loc[j].msg[c]
                ELSE tracked[u][c]
           /\ UNCHANGED budget
        \/ UNCHANGED tracked /\ Spend("dbError")
    BY <1>1, <1>5 DEF TypeOK
  <1> QED
    BY <1>1, <1>3, <1>4, <1>5, <1>6 DEF envVars, procVars, chatVars, RoundStays

LEMMA DoneEffect ==
  ASSUME TypeInv, NEW j \in Jobs, SendsDone(j)
  PROVE  /\ loc[j].pc = "send" /\ loc[j].todo = {} /\ loc'[j].pc = "mark"
         /\ loc'[j].user = loc[j].user
         /\ loc'[j].todo = loc[j].todo /\ loc'[j].mark = loc[j].mark
         /\ RoundStays(j) /\ OthersStay(j)
         /\ UNCHANGED <<clock, off, changed, last, caughtUp, clashed, active, marked, latest,
                        tracked, visible, sent, budget>>
  <1>1. TypeOK /\ loc[j] \in LocType /\ loc[j].pc = "send" /\ loc[j].todo = {}
    BY DEF TypeInv, TypeOK, SendsDone, At
  <1> DEFINE l == [loc[j] EXCEPT !.pc = "mark"]
  <1>2. loc' = [loc EXCEPT ![j] = l]
    BY <1>1 DEF SendsDone, TypeOK
  <1>3. /\ l.pc = "mark" /\ l.user = loc[j].user /\ l.todo = loc[j].todo
        /\ l.mark = loc[j].mark /\ l.anchor = loc[j].anchor /\ l.kind = loc[j].kind
        /\ l.lead = loc[j].lead /\ l.rounds = loc[j].rounds /\ l.users = loc[j].users
    BY <1>1 DEF LocType
  <1> HIDE DEF l
  <1>4. loc'[j] = l /\ OthersStay(j)
    BY <1>1, <1>2 DEF TypeOK, OthersStay
  <1>5. UNCHANGED <<envVars, procVars, dbVars, chatVars, budget>>
    BY DEF SendsDone
  <1> QED
    BY <1>1, <1>3, <1>4, <1>5 DEF envVars, procVars, dbVars, chatVars, RoundStays

LEMMA MarkEffect ==
  ASSUME TypeInv, NEW j \in Jobs, Mark(j), NEW row, row = <<loc[j].anchor, loc[j].lead>>
  PROVE  /\ loc[j].pc = "mark" /\ OthersStay(j)
         /\ \A u \in Users :
              IF u \in loc[j].mark /\ row \notin marked[u]
              THEN marked'[u] = marked[u] \cup {row} /\ latest'[u] = loc[j].anchor
              ELSE marked'[u] = marked[u] /\ latest'[u] = latest[u]
         /\ \/ loc[j].rounds = {} /\ Finished(j)
            \/ /\ loc[j].rounds # {} /\ loc'[j].pc = "check"
               /\ RoundStays(j) /\ UNCHANGED last
         /\ UNCHANGED <<clock, off, changed, caughtUp, clashed, active,
                        tracked, visible, sent, budget>>
  <1>1. TypeOK /\ loc[j] \in LocType /\ loc[j].pc = "mark"
    BY DEF TypeInv, TypeOK, Mark, At
  <1> DEFINE l == [loc[j] EXCEPT !.pc = "check", !.mark = {}]
             new == {u \in loc[j].mark : row \notin marked[u]}
  <1>2. \/ loc[j].rounds = {} /\ Finished(j)
        \/ loc[j].rounds # {} /\ loc' = [loc EXCEPT ![j] = l] /\ UNCHANGED last
    BY <1>1 DEF Mark, TypeOK
  <1>3. /\ l.pc = "check" /\ l.anchor = loc[j].anchor /\ l.kind = loc[j].kind
        /\ l.lead = loc[j].lead /\ l.rounds = loc[j].rounds /\ l.users = loc[j].users
    BY <1>1 DEF LocType
  <1> HIDE DEF l
  <1>4. loc' = [loc EXCEPT ![j] = l] => loc'[j] = l /\ OthersStay(j)
    BY <1>1 DEF TypeOK, OthersStay
  <1>5. Finished(j) => OthersStay(j)
    BY FinishedEffect
  <1>6. /\ marked' = [u \in Users |-> IF u \in new THEN marked[u] \cup {row} ELSE marked[u]]
        /\ latest' = [u \in Users |-> IF u \in new THEN loc[j].anchor ELSE latest[u]]
        /\ UNCHANGED <<envVars, caughtUp, clashed, active, tracked, chatVars, budget>>
    BY DEF Mark
  <1>7. \A u \in Users :
          IF u \in loc[j].mark /\ row \notin marked[u]
          THEN marked'[u] = marked[u] \cup {row} /\ latest'[u] = loc[j].anchor
          ELSE marked'[u] = marked[u] /\ latest'[u] = latest[u]
    BY <1>6
  <1> QED
    BY <1>1, <1>2, <1>3, <1>4, <1>5, <1>6, <1>7 DEF envVars, chatVars, RoundStays
-----------------------------------------------------------------------------
(* What the chats show                                                     *)

Cleaning == {"clean", "forget"}

Deleted(l, u) == l.pc \in {"forget", "forgetOld", "message"} /\ l.user = u
Saving(l, u) == l.pc = "save" /\ l.user = u

\* What a chat shows is what the database knows, but for the user whose reminder has
\* just been deleted, who has none, or been sent, who has that one.
ShownInv ==
  \A u \in Users, c \in Chats :
    /\ (\A j \in Jobs : ~ Saving(loc[j], u)) => visible[u][c] \subseteq {tracked[u][c]}
    /\ \A j \in Jobs : Deleted(loc[j], u) => visible[u][c] = {}
    /\ \A j \in Jobs : Saving(loc[j], u) => visible[u][c] \subseteq {loc[j].msg[c]}

Waiting(l, u) == l.pc \in Rounding /\ u \in l.mark

\* The newest row of a user is that of the message shown, or will be when the round
\* ends; and those who are to be cleaned up have a passed one.
RowsInv ==
  /\ \A j \in Jobs, u \in Users :
       Waiting(loc[j], u) => <<loc[j].anchor, loc[j].lead>> \notin marked[u]
  /\ \A u \in Users, c \in Chats : \A x \in visible[u][c] :
       /\ \A j \in Jobs : Waiting(loc[j], u) => x[1] = loc[j].anchor
       /\ (\A j \in Jobs : ~ Waiting(loc[j], u)) => x[1] = latest[u]
  /\ \A j \in Jobs : loc[j].pc \in Cleaning =>
       \A u \in loc[j].todo : latest[u] # None /\ latest[u] <= clock

Bound == clock - Spent("slow")

\* The events of the messages are ahead of the clock, less the slow minutes: when a
\* cycle of the checker has cleaned up, and in the minute in which it has ended.
AheadInv ==
  /\ \A j \in Jobs : loc[j].pc \in Rounding \cup {"check"} => loc[j].anchor > Bound
  /\ \A u \in Users, c \in Chats : \A x \in visible[u][c] :
       /\ \A j \in Jobs : j[2] = "checker" /\ loc[j].pc # "idle" =>
            (loc[j].pc \in Cleaning /\ u \in loc[j].todo) \/ x[1] > Bound
       /\ (\E r \in Replicas : last[r] = clock) /\ clock \notin Quiet => x[1] > Bound

LastInv == \A r \in Replicas : last[r] \in Minutes => last[r] <= clock

ChatsInv == ShownInv /\ RowsInv /\ AheadInv

\* A calm state, and a step after which the state is calm.
CalmState == TypeInv /\ BudgetInv /\ OnceInv /\ ChatsInv /\ LastInv
CalmStep == TypeInv' /\ ~ clashed' /\ \A k \in {"dbError", "deleteError", "crash"} : ~ Spend(k)

\* Numbers.
LEMMA NumbersAre ==
  ASSUME TypeInv
  PROVE  /\ clock \in Nat /\ Spent("slow") \in Int /\ Bound \in Int
         /\ Anchors \subseteq Nat /\ Minutes \subseteq Anchors
         /\ \A u \in Users, c \in Chats : \A x \in visible[u][c] : x \in Messages /\ x[1] \in Anchors
         /\ \A u \in Users : latest[u] \in Anchors \cup {None}
         /\ None \notin Anchors
  <1>1. Horizon \in Nat /\ Budget \in [Events -> Nat] /\ None \notin Nat
    BY RemindersAssumption DEF RemindersAssumption
  <1>2. Anchors \subseteq Nat /\ Minutes \subseteq Anchors /\ None \notin Anchors
    BY <1>1 DEF Minutes, Anchors
  <1>3. clock \in Minutes /\ budget \in [Events -> Nat] /\ "slow" \in Events
    BY DEF TypeInv, TypeOK, Events
  <1>4. clock \in Nat
    BY <1>2, <1>3
  <1>5. Budget["slow"] \in Nat /\ budget["slow"] \in Nat
    BY <1>1, <1>3
  <1>6. Spent("slow") \in Int
    BY <1>5 DEF Spent
  <1>7. Bound \in Int
    BY <1>4, <1>6 DEF Bound
  <1>8. /\ \A u \in Users, c \in Chats : \A x \in visible[u][c] : x \in Messages
        /\ \A u \in Users : latest[u] \in Anchors \cup {None}
    BY DEF TypeInv, TypeOK
  <1>9. \A x \in Messages : x[1] \in Anchors
    BY DEF Messages
  <1> QED
    BY <1>2, <1>4, <1>6, <1>7, <1>8, <1>9

LEMMA SpentType ==
  ASSUME TypeInv, BudgetInv, NEW k \in Events
  PROVE  Spent(k) \in Nat
  <1>1. budget[k] \in Nat /\ Budget[k] \in Nat /\ budget[k] <= Budget[k]
    BY RemindersAssumption DEF TypeInv, TypeOK, BudgetInv, RemindersAssumption
  <1> QED
    BY <1>1 DEF Spent

\* Where a job neither comes from nor goes to a message.
LEMMA ShownStep ==
  ASSUME ShownInv, NEW j \in Jobs, OthersStay(j), UNCHANGED <<visible, tracked>>,
         loc[j].pc # "save", loc'[j].pc \notin {"forget", "forgetOld", "message", "save"}
  PROVE  ShownInv'
  <1>1. \A i \in Jobs, u \in Users :
          /\ Saving(loc'[i], u) <=> Saving(loc[i], u)
          /\ Deleted(loc'[i], u) => Deleted(loc[i], u)
          /\ Saving(loc'[i], u) => loc'[i] = loc[i]
    BY DEF OthersStay, Saving, Deleted
  <1>2. ASSUME NEW u \in Users, NEW c \in Chats
        PROVE  /\ (\A i \in Jobs : ~ Saving(loc'[i], u)) =>
                    visible[u][c] \subseteq {tracked[u][c]}
               /\ \A i \in Jobs : Deleted(loc'[i], u) => visible[u][c] = {}
               /\ \A i \in Jobs : Saving(loc'[i], u) => visible[u][c] \subseteq {loc'[i].msg[c]}
    BY <1>1 DEF ShownInv
  <1> QED
    BY <1>2 DEF ShownInv, Saving, Deleted

\* Where a job keeps its marks and writes no rows.
LEMMA RowsStep ==
  ASSUME RowsInv, NEW j \in Jobs, OthersStay(j), UNCHANGED <<clock, marked, latest>>,
         \A u \in Users, c \in Chats : visible'[u][c] \subseteq visible[u][c],
         \A u \in Users : Waiting(loc'[j], u) <=> Waiting(loc[j], u),
         \A u \in Users : Waiting(loc[j], u) =>
           loc'[j].anchor = loc[j].anchor /\ loc'[j].lead = loc[j].lead,
         loc'[j].pc \in Cleaning =>
           \A u \in loc'[j].todo : latest[u] # None /\ latest[u] <= clock
  PROVE  RowsInv'
  <1>1. \A i \in Jobs, u \in Users :
          /\ Waiting(loc'[i], u) <=> Waiting(loc[i], u)
          /\ Waiting(loc[i], u) => loc'[i].anchor = loc[i].anchor /\ loc'[i].lead = loc[i].lead
    BY DEF OthersStay
  <1>2. \A i \in Jobs, u \in Users :
          Waiting(loc'[i], u) => <<loc'[i].anchor, loc'[i].lead>> \notin marked'[u]
    BY <1>1 DEF RowsInv
  <1>3. \A u \in Users, c \in Chats : \A x \in visible'[u][c] :
          /\ \A i \in Jobs : Waiting(loc'[i], u) => x[1] = loc'[i].anchor
          /\ (\A i \in Jobs : ~ Waiting(loc'[i], u)) => x[1] = latest'[u]
    BY <1>1 DEF RowsInv
  <1>4. \A i \in Jobs : loc'[i].pc \in Cleaning =>
          \A u \in loc'[i].todo : latest'[u] # None /\ latest'[u] <= clock'
    BY DEF RowsInv, OthersStay
  <1> QED
    BY <1>2, <1>3, <1>4 DEF RowsInv, Waiting

\* Where no cycle ends.
LEMMA AheadStep ==
  ASSUME AheadInv, NEW j \in Jobs, OthersStay(j), UNCHANGED <<clock, last>>,
         Bound' = Bound,
         \A u \in Users, c \in Chats : visible'[u][c] \subseteq visible[u][c],
         loc'[j].pc \in Rounding \cup {"check"} => loc'[j].anchor > Bound,
         \A u \in Users, c \in Chats : \A x \in visible'[u][c] :
           j[2] = "checker" /\ loc'[j].pc # "idle" =>
             (loc'[j].pc \in Cleaning /\ u \in loc'[j].todo) \/ x[1] > Bound
  PROVE  AheadInv'
  <1>1. \A i \in Jobs : loc'[i].pc \in Rounding \cup {"check"} => loc'[i].anchor > Bound'
    BY DEF AheadInv, OthersStay
  <1>2. \A u \in Users, c \in Chats : \A x \in visible'[u][c] :
          \A i \in Jobs : i[2] = "checker" /\ loc'[i].pc # "idle" =>
            (loc'[i].pc \in Cleaning /\ u \in loc'[i].todo) \/ x[1] > Bound'
    BY DEF AheadInv, OthersStay
  <1>3. \A u \in Users, c \in Chats : \A x \in visible'[u][c] :
          (\E r \in Replicas : last'[r] = clock') /\ clock' \notin Quiet => x[1] > Bound'
    BY DEF AheadInv
  <1> QED
    BY <1>1, <1>2, <1>3 DEF AheadInv

\* The slow minutes are those of the clock.
LEMMA BoundStays ==
  ASSUME TypeInv, clock' = clock,
         UNCHANGED budget \/ \E k \in Events \ {"any", "slow"} : Spend(k)
  PROVE  Bound' = Bound
  <1>1. budget \in [Events -> Nat] /\ "slow" \in Events
    BY DEF TypeInv, TypeOK, Events
  <1>2. budget'["slow"] = budget["slow"]
    BY <1>1 DEF Spend
  <1> QED
    BY <1>2 DEF Bound, Spent

\* A cycle ends: it has cleaned up.
LEMMA FinishedChats ==
  ASSUME TypeInv, ChatsInv, NEW j \in Jobs, Finished(j), loc[j].pc \in {"clean", "mark"},
         loc[j].pc = "clean" => loc[j].todo = {}, Bound' = Bound,
         UNCHANGED <<clock, visible, tracked>>
  PROVE  ShownInv' /\ AheadInv'
  <1>1. /\ loc'[j].pc = "idle" /\ OthersStay(j)
        /\ \A r \in Replicas : last'[r] = IF j = <<r, "checker">> THEN clock ELSE last[r]
    BY FinishedEffect, RestingType
  <1>2. ShownInv'
    BY <1>1, ShownStep DEF ChatsInv
  <1>3. \A i \in Jobs : loc'[i].pc \in Rounding \cup {"check"} => loc'[i].anchor > Bound'
    BY <1>1 DEF ChatsInv, AheadInv, OthersStay, Rounding
  <1>4. ASSUME NEW u \in Users, NEW c \in Chats, NEW x \in visible'[u][c]
        PROVE  /\ \A i \in Jobs : i[2] = "checker" /\ loc'[i].pc # "idle" =>
                    (loc'[i].pc \in Cleaning /\ u \in loc'[i].todo) \/ x[1] > Bound'
               /\ (\E r \in Replicas : last'[r] = clock') /\ clock' \notin Quiet => x[1] > Bound'
    <2>1. /\ \A i \in Jobs : i[2] = "checker" /\ loc[i].pc # "idle" =>
               (loc[i].pc \in Cleaning /\ u \in loc[i].todo) \/ x[1] > Bound
          /\ (\E r \in Replicas : last[r] = clock) /\ clock \notin Quiet => x[1] > Bound
      BY <1>4 DEF ChatsInv, AheadInv
    <2>2. \A i \in Jobs : i[2] = "checker" /\ loc'[i].pc # "idle" =>
            (loc'[i].pc \in Cleaning /\ u \in loc'[i].todo) \/ x[1] > Bound'
      BY <1>1, <2>1 DEF OthersStay
    <2>3. ASSUME NEW r \in Replicas, last'[r] = clock', clock' \notin Quiet
          PROVE  x[1] > Bound'
      <3>1. CASE j = <<r, "checker">>
        <4>1. j[2] = "checker" /\ ~ (loc[j].pc \in Cleaning /\ u \in loc[j].todo)
          BY <3>1 DEF Cleaning
        <4> QED
          BY <2>1, <4>1
      <3>2. CASE j # <<r, "checker">>
        BY <1>1, <2>1, <2>3, <3>2
      <3> QED
        BY <3>1, <3>2
    <2> QED
      BY <2>2, <2>3
  <1>5. AheadInv'
    BY <1>3, <1>4 DEF AheadInv
  <1> QED
    BY <1>2, <1>5

\* A cycle or a catch-up starts: those it leaves out have no message of a passed event.
LEMMA StartChats ==
  ASSUME CalmState, CalmStep, NEW j \in Jobs, StartCycle(j) \/ StartCatchUp(j)
  PROVE  ChatsInv'
  <1>1. TypeInv /\ ShownInv /\ RowsInv /\ AheadInv
    BY DEF CalmState, ChatsInv
  <1>2. /\ loc[j].pc = "idle" /\ loc'[j].pc = "clean" /\ OthersStay(j)
        /\ clashed' = (clashed \/ Meets(j))
        /\ \/ j[2] = "checker" /\ loc'[j].todo = PassedAnchors
           \/ j[2] = "catchup" /\ loc'[j].todo = {}
        /\ UNCHANGED <<clock, last, marked, latest, tracked, visible, budget>>
    BY <1>1, StartEffect, CatchUpEffect DEF CalmStep
  <1>3. \A i \in Jobs : loc[i].pc = "idle"
    BY <1>2 DEF CalmStep, Meets, At
  <1>4. ShownInv'
    BY <1>1, <1>2, ShownStep
  <1>5. RowsInv'
    <2>1. loc'[j].pc \in Cleaning =>
            \A u \in loc'[j].todo : latest[u] # None /\ latest[u] <= clock
      BY <1>2 DEF PassedAnchors
    <2>2. \A u \in Users : ~ Waiting(loc'[j], u) /\ ~ Waiting(loc[j], u)
      BY <1>2 DEF Waiting, Rounding
    <2> QED
      BY <1>1, <1>2, <2>1, <2>2, RowsStep
  <1>6. AheadInv'
    <2>1. Bound' = Bound /\ Bound \in Int /\ clock \in Nat /\ Bound <= clock
      <3>1. Bound' = Bound
        BY <1>1, <1>2, BoundStays
      <3>2. Spent("slow") \in Nat
        BY <1>1, SpentType DEF CalmState, Events
      <3> QED
        BY <1>1, <3>1, <3>2, NumbersAre DEF Bound
    <2>2. ASSUME NEW u \in Users, NEW c \in Chats, NEW x \in visible'[u][c], j[2] = "checker"
          PROVE  u \in loc'[j].todo \/ x[1] > Bound
      <3>1. x \in visible[u][c] /\ loc'[j].todo = PassedAnchors
        BY <1>2, <2>2
      <3>2. \A i \in Jobs : ~ Waiting(loc[i], u)
        BY <1>3 DEF Waiting, Rounding
      <3>3. x[1] = latest[u] /\ x[1] \in Nat /\ latest[u] # None
        BY <1>1, <3>1, <3>2, NumbersAre DEF RowsInv
      <3>4. u \notin PassedAnchors => ~ (latest[u] <= clock)
        BY <3>3 DEF PassedAnchors
      <3> QED
        BY <2>1, <3>1, <3>3, <3>4
    <2>3. loc'[j].pc \in Cleaning /\ loc'[j].pc \notin Rounding \cup {"check"}
      BY <1>2 DEF Cleaning, Rounding
    <2>4. \A u \in Users, c \in Chats : visible'[u][c] \subseteq visible[u][c]
      BY <1>2
    <2> QED
      BY <1>1, <1>2, <2>1, <2>2, <2>3, <2>4, AheadStep
  <1> QED
    BY <1>4, <1>5, <1>6 DEF ChatsInv

\* The event is read: it is ahead of the clock.
LEMMA AnchorAhead ==
  ASSUME NEW o \in Schedules, NEW c \in Minutes, NextAnchor(o, c) # None
  PROVE  /\ NextAnchor(o, c) > c
         /\ \A t \in Anchors : c < t /\ t < NextAnchor(o, c) => (t \in o <=> c \in o)
         /\ NextAnchor(o, c) \in o <=> c \notin o
  <1>1. Horizon \in Nat /\ o \subseteq Minutes
    BY RemindersAssumption DEF RemindersAssumption
  <1>2. Minutes \subseteq Anchors /\ Anchors \subseteq Nat
    BY <1>1 DEF Minutes, Anchors
  <1> DEFINE S == IF c \in o THEN {t \in Anchors : t > c /\ t \notin o} ELSE {t \in o : t > c}
             a == NextAnchor(o, c)
  <1>3. a = Earliest(S) /\ S \subseteq Anchors
    BY <1>1, <1>2 DEF NextAnchor
  <1>4. S # {}
    BY <1>3 DEF Earliest
  <1>5. \E t \in S : \A x \in S : t <= x
    BY <1>2, <1>3, <1>4, LeastNumber
  <1>6. a \in S /\ \A x \in S : a <= x
    BY <1>3, <1>4, <1>5 DEF Earliest
  <1>7. a > c /\ (a \in o <=> c \notin o)
    BY <1>6
  <1>8. ASSUME NEW t \in Anchors, c < t, t < a
        PROVE  t \in o <=> c \in o
    <2>1. t \notin S
      <3>1. t \in Nat /\ a \in Nat
        BY <1>2, <1>3, <1>6
      <3> QED
        BY <1>6, <1>8, <3>1
    <2> QED
      BY <1>2, <1>8, <2>1
  <1> QED
    BY <1>7, <1>8

LEMMA ReadChats ==
  ASSUME CalmState, CalmStep, NEW j \in Jobs, ReadEvent(j)
  PROVE  ChatsInv'
  <1>1. TypeInv /\ ShownInv /\ RowsInv /\ AheadInv /\ BudgetInv /\ ChatsInv
    BY DEF CalmState, ChatsInv
  <1> DEFINE a == NextAnchor(off, clock)
  <1>2. /\ loc[j].pc = "clean" /\ loc[j].todo = {} /\ OthersStay(j)
        /\ \/ RoundsOf(j, a) = {} /\ Finished(j)
           \/ /\ RoundsOf(j, a) # {}
              /\ loc'[j].pc = "check" /\ loc'[j].anchor = a
              /\ UNCHANGED last
        /\ UNCHANGED <<clock, marked, latest, tracked, visible, budget>>
    BY <1>1, ReadEffect
  <1>3. Bound' = Bound
    BY <1>1, <1>2, BoundStays
  <1>4. \A u \in Users, c \in Chats : visible'[u][c] \subseteq visible[u][c]
    BY <1>2
  <1>5. loc'[j].pc \in {"idle", "check"}
    BY <1>1, <1>2, FinishedEffect, RestingType
  <1>6. RowsInv'
    <2>1. loc'[j].pc \notin Cleaning
      BY <1>5 DEF Cleaning
    <2>2. \A u \in Users : ~ Waiting(loc'[j], u) /\ ~ Waiting(loc[j], u)
      BY <1>2, <1>5 DEF Waiting, Rounding
    <2> QED
      BY <1>1, <1>2, <1>4, <2>1, <2>2, RowsStep
  <1>7. CASE Finished(j)
    BY <1>1, <1>2, <1>3, <1>6, <1>7, FinishedChats DEF ChatsInv
  <1>8. CASE loc'[j].pc = "check" /\ loc'[j].anchor = a /\ RoundsOf(j, a) # {} /\ UNCHANGED last
    <2>1. ShownInv'
      BY <1>1, <1>2, <1>8, ShownStep
    <2>2. a > Bound
      <3>1. a # None /\ off \in Schedules /\ clock \in Minutes
        BY <1>1, <1>8, RoundsType DEF TypeInv, TypeOK
      <3>2. a > clock /\ a \in Anchors
        BY <3>1, AnchorAhead, AnchorType
      <3>3. Spent("slow") \in Nat /\ clock \in Nat /\ a \in Nat
        BY <1>1, <3>2, SpentType, NumbersAre DEF Events
      <3> HIDE DEF a
      <3> QED
        BY <3>2, <3>3 DEF Bound
    <2>3. ASSUME NEW u \in Users, NEW c \in Chats, NEW x \in visible'[u][c], j[2] = "checker"
          PROVE  x[1] > Bound
      BY <1>1, <1>2, <2>3 DEF AheadInv
    <2>4. AheadInv'
      BY <1>1, <1>2, <1>3, <1>4, <1>8, <2>2, <2>3, AheadStep
    <2> QED
      BY <1>6, <2>1, <2>4 DEF ChatsInv
  <1> QED
    BY <1>2, <1>7, <1>8

\* Nothing is fetched.
LEMMA GiveUpChats ==
  ASSUME CalmState, CalmStep, NEW j \in Jobs, GiveUp(j)
  PROVE  ChatsInv'
  <1>1. TypeInv /\ RowsInv /\ ChatsInv
    BY DEF CalmState, ChatsInv
  <1>2. /\ Finished(j) /\ OthersStay(j)
        /\ loc[j].pc = "clean" /\ loc[j].todo = {} /\ Spend("fetch")
        /\ UNCHANGED <<clock, marked, latest, tracked, visible>>
    BY <1>1, GiveUpEffect DEF CalmStep
  <1>3. "fetch" \in Events \ {"any", "slow"}
    BY DEF Events
  <1>4. Bound' = Bound
    BY <1>1, <1>2, <1>3, BoundStays
  <1>5. loc'[j].pc = "idle"
    BY <1>1, <1>2, FinishedEffect, RestingType
  <1>6. RowsInv'
    <2>1. loc'[j].pc \notin Cleaning
      BY <1>5 DEF Cleaning
    <2>2. \A u \in Users : ~ Waiting(loc'[j], u) /\ ~ Waiting(loc[j], u)
      BY <1>2, <1>5 DEF Waiting, Rounding
    <2>3. \A u \in Users, c \in Chats : visible'[u][c] \subseteq visible[u][c]
      BY <1>2
    <2> QED
      BY <1>1, <1>2, <2>1, <2>2, <2>3, RowsStep
  <1> QED
    BY <1>1, <1>2, <1>4, <1>6, FinishedChats DEF ChatsInv

\* A round starts, or its sends are done.
LEMMA RoundChats ==
  ASSUME CalmState, CalmStep, NEW j \in Jobs, CheckSent(j) \/ SendsDone(j)
  PROVE  ChatsInv'
  <1>1. TypeInv /\ ShownInv /\ RowsInv /\ AheadInv
    BY DEF CalmState, ChatsInv
  <1>2. /\ loc[j].pc \in {"check", "send"} /\ loc'[j].pc \in {"send", "mark"} /\ OthersStay(j)
        /\ \/ loc[j].pc = "check" /\ loc'[j].mark = {}
           \/ loc[j].pc = "send" /\ loc'[j].mark = loc[j].mark /\ loc'[j].lead = loc[j].lead
        /\ loc'[j].anchor = loc[j].anchor
        /\ UNCHANGED <<clock, last, marked, latest, tracked, visible, budget>>
    <2>1. CASE CheckSent(j)
      BY <1>1, <2>1, CheckEffect
    <2>2. CASE SendsDone(j)
      BY <1>1, <2>2, DoneEffect DEF RoundStays
    <2> QED
      BY <2>1, <2>2
  <1>3. Bound' = Bound
    BY <1>1, <1>2, BoundStays
  <1>4. \A u \in Users, c \in Chats : visible'[u][c] \subseteq visible[u][c]
    BY <1>2
  <1>5. ShownInv'
    BY <1>1, <1>2, ShownStep
  <1>6. RowsInv'
    <2>1. loc'[j].pc \notin Cleaning
      BY <1>2 DEF Cleaning
    <2>2. \A u \in Users : /\ Waiting(loc'[j], u) <=> Waiting(loc[j], u)
                           /\ Waiting(loc[j], u) => loc'[j].lead = loc[j].lead
      BY <1>2 DEF Waiting, Rounding
    <2> QED
      BY <1>1, <1>2, <1>4, <2>1, <2>2, RowsStep
  <1>7. AheadInv'
    <2>1. loc'[j].anchor > Bound
      BY <1>1, <1>2 DEF AheadInv, Rounding
    <2>2. \A u \in Users, c \in Chats : \A x \in visible'[u][c] :
            j[2] = "checker" /\ loc'[j].pc # "idle" =>
              (loc'[j].pc \in Cleaning /\ u \in loc'[j].todo) \/ x[1] > Bound
      BY <1>1, <1>2 DEF AheadInv, Cleaning
    <2> QED
      BY <1>1, <1>2, <1>3, <1>4, <2>1, <2>2, AheadStep
  <1> QED
    BY <1>5, <1>6, <1>7 DEF ChatsInv

\* The old reminder is deleted: it is the one that the database knows.
LEMMA DeleteChats ==
  ASSUME CalmState, CalmStep, NEW j \in Jobs, NEW w \in Users, DeleteMessages(j, w)
  PROVE  ChatsInv'
  <1>1. TypeInv /\ TypeOK /\ OnceInv /\ ShownInv /\ RowsInv /\ AheadInv
    BY DEF CalmState, ChatsInv, TypeInv
  <1>2. /\ loc[j].pc \in {"clean", "send"} /\ w \in loc[j].todo
        /\ loc'[j].pc = IF loc[j].pc = "clean" THEN "forget" ELSE "forgetOld"
        /\ loc'[j].user = w /\ loc'[j].todo = loc[j].todo \ {w} /\ loc'[j].mark = loc[j].mark
        /\ loc'[j].anchor = loc[j].anchor /\ loc'[j].lead = loc[j].lead
        /\ OthersStay(j) /\ visible' = DeletedFromChats(w)
        /\ UNCHANGED <<clock, last, marked, latest, tracked, budget>>
    BY <1>1, DeleteEffect DEF CalmStep, RoundStays
  <1>3. \A i \in Jobs : loc[i].pc \notin {"save", "forget", "forgetOld", "message"}
    BY <1>1, <1>2, OthersRest
  <1>4. \A u \in Users, c \in Chats :
          visible'[u][c] = IF u = w THEN visible[u][c] \ {tracked[u][c]} ELSE visible[u][c]
    BY <1>1, <1>2 DEF DeletedFromChats, TypeOK
  <1>5. \A c \in Chats : visible'[w][c] = {}
    <2>1. \A i \in Jobs : ~ Saving(loc[i], w)
      BY <1>3 DEF Saving
    <2>2. \A c \in Chats : visible[w][c] \subseteq {tracked[w][c]}
      BY <1>1, <2>1 DEF ShownInv
    <2> QED
      BY <1>4, <2>2
  <1>6. ShownInv'
    <2>1. ASSUME NEW u \in Users, NEW c \in Chats
          PROVE  /\ visible'[u][c] \subseteq {tracked'[u][c]}
                 /\ \A i \in Jobs : Deleted(loc'[i], u) => visible'[u][c] = {}
                 /\ \A i \in Jobs : ~ Saving(loc'[i], u)
      <3>1. visible[u][c] \subseteq {tracked[u][c]}
        BY <1>1, <1>3 DEF ShownInv, Saving
      <3>2. \A i \in Jobs : Deleted(loc'[i], u) => i = j /\ u = w
        BY <1>2, <1>3 DEF OthersStay, Deleted
      <3>3. \A i \in Jobs : loc'[i].pc # "save"
        BY <1>2, <1>3 DEF OthersStay
      <3> QED
        BY <1>2, <1>4, <1>5, <3>1, <3>2, <3>3 DEF Saving
    <2> QED
      BY <2>1 DEF ShownInv, Saving, Deleted
  <1>7. \A u \in Users, c \in Chats : visible'[u][c] \subseteq visible[u][c]
    BY <1>4
  <1>8. RowsInv'
    <2>1. loc'[j].pc \in Cleaning =>
            \A u \in loc'[j].todo : latest[u] # None /\ latest[u] <= clock
      BY <1>1, <1>2 DEF RowsInv, Cleaning
    <2>2. \A u \in Users : Waiting(loc'[j], u) <=> Waiting(loc[j], u)
      BY <1>2 DEF Waiting, Rounding
    <2> QED
      BY <1>1, <1>2, <1>7, <2>1, <2>2, RowsStep
  <1>9. AheadInv'
    <2>1. Bound' = Bound
      BY <1>1, <1>2, BoundStays
    <2>2. loc'[j].pc \in Rounding \cup {"check"} => loc'[j].anchor > Bound
      BY <1>1, <1>2 DEF AheadInv, Rounding
    <2>3. ASSUME NEW u \in Users, NEW c \in Chats, NEW x \in visible'[u][c], j[2] = "checker"
          PROVE  (loc'[j].pc \in Cleaning /\ u \in loc'[j].todo) \/ x[1] > Bound
      <3>1. u # w /\ x \in visible[u][c]
        BY <1>5, <1>7, <2>3
      <3>2. (loc[j].pc \in Cleaning /\ u \in loc[j].todo) \/ x[1] > Bound
        BY <1>1, <1>2, <2>3, <3>1 DEF AheadInv
      <3> QED
        BY <1>2, <3>1, <3>2 DEF Cleaning
    <2> QED
      BY <1>1, <1>2, <1>7, <2>1, <2>2, <2>3, AheadStep
  <1> QED
    BY <1>6, <1>8, <1>9 DEF ChatsInv

\* Its id is forgotten.
LEMMA ForgetChats ==
  ASSUME CalmState, CalmStep, NEW j \in Jobs, ForgetIds(j)
  PROVE  ChatsInv'
  <1>1. TypeInv /\ TypeOK /\ OnceInv /\ ShownInv /\ RowsInv /\ AheadInv
    BY DEF CalmState, ChatsInv, TypeInv
  <1>2. /\ loc[j].pc \in {"forget", "forgetOld"}
        /\ loc'[j].pc = IF loc[j].pc = "forget" THEN "clean" ELSE "message"
        /\ loc'[j].user = IF loc[j].pc = "forget" THEN None ELSE loc[j].user
        /\ loc'[j].todo = loc[j].todo /\ loc'[j].mark = loc[j].mark
        /\ loc'[j].anchor = loc[j].anchor /\ loc'[j].lead = loc[j].lead
        /\ OthersStay(j) /\ tracked' = Forgotten(loc[j].user, loc[j].msg)
        /\ UNCHANGED <<clock, last, marked, latest, visible, budget>>
    BY <1>1, ForgetEffect DEF CalmStep, RoundStays
  <1>3. \A i \in Jobs : i # j => loc[i].pc = "idle"
    BY <1>1, <1>2, OthersRest
  <1>4. loc[j].user \in Users /\ \A c \in Chats : visible[loc[j].user][c] = {}
    BY <1>1, <1>2 DEF TypeInv, LocalsInv, LocalsOk, ShownInv, Deleted
  <1>5. \A u \in Users : u # loc[j].user => tracked'[u] = tracked[u]
    BY <1>1, <1>2 DEF Forgotten, TypeOK
  <1>6. ShownInv'
    <2>1. ASSUME NEW u \in Users, NEW c \in Chats
          PROVE  /\ visible'[u][c] \subseteq {tracked'[u][c]}
                 /\ \A i \in Jobs : Deleted(loc'[i], u) => visible'[u][c] = {}
                 /\ \A i \in Jobs : ~ Saving(loc'[i], u)
      <3>1. \A i \in Jobs : loc'[i].pc # "save" /\ loc[i].pc # "save"
        BY <1>2, <1>3 DEF OthersStay
      <3>2. visible[u][c] \subseteq {tracked[u][c]}
        BY <1>1, <3>1 DEF ShownInv, Saving
      <3>3. \A i \in Jobs : Deleted(loc'[i], u) => u = loc[j].user
        BY <1>2, <1>3 DEF OthersStay, Deleted
      <3> QED
        BY <1>2, <1>4, <1>5, <3>1, <3>2, <3>3 DEF Saving
    <2> QED
      BY <2>1 DEF ShownInv, Saving, Deleted
  <1>7. \A u \in Users, c \in Chats : visible'[u][c] \subseteq visible[u][c]
    BY <1>2
  <1>8. RowsInv'
    <2>1. loc'[j].pc \in Cleaning =>
            \A u \in loc'[j].todo : latest[u] # None /\ latest[u] <= clock
      BY <1>1, <1>2 DEF RowsInv, Cleaning
    <2>2. \A u \in Users : Waiting(loc'[j], u) <=> Waiting(loc[j], u)
      BY <1>2 DEF Waiting, Rounding
    <2> QED
      BY <1>1, <1>2, <1>7, <2>1, <2>2, RowsStep
  <1>9. AheadInv'
    <2>1. Bound' = Bound
      BY <1>1, <1>2, BoundStays
    <2>2. loc'[j].pc \in Rounding \cup {"check"} => loc'[j].anchor > Bound
      BY <1>1, <1>2 DEF AheadInv, Rounding
    <2>3. \A u \in Users, c \in Chats : \A x \in visible'[u][c] :
            j[2] = "checker" /\ loc'[j].pc # "idle" =>
              (loc'[j].pc \in Cleaning /\ u \in loc'[j].todo) \/ x[1] > Bound
      BY <1>1, <1>2 DEF AheadInv, Cleaning
    <2> QED
      BY <1>1, <1>2, <1>7, <2>1, <2>2, <2>3, AheadStep
  <1> QED
    BY <1>6, <1>8, <1>9 DEF ChatsInv

\* The new reminder is sent to a user who has none.
LEMMA SendChats ==
  ASSUME CalmState, CalmStep, NEW j \in Jobs,
         SendReminder(j) \/ SendFails(j) \/ SendForbidden(j)
  PROVE  ChatsInv'
  <1>1. TypeInv /\ TypeOK /\ OnceInv /\ ShownInv /\ RowsInv /\ AheadInv
    BY DEF CalmState, ChatsInv, TypeInv
  <1>2. PICK ok \in SUBSET Chats :
          /\ loc[j].pc = "message" /\ loc[j].user \in Users
          /\ loc'[j].pc = IF ok = {} THEN "send" ELSE "save"
          /\ loc'[j].user = IF ok = {} THEN None ELSE loc[j].user
          /\ loc'[j].mark = IF ok = {} THEN loc[j].mark ELSE loc[j].mark \cup {loc[j].user}
          /\ loc'[j].todo = loc[j].todo
          /\ RoundStays(j) /\ OthersStay(j)
          /\ \A c \in Chats : loc'[j].msg[c] =
               IF c \in ok THEN NewMessage(loc[j].user, c, loc[j].anchor, loc[j].lead) ELSE None
          /\ \A u \in Users, c \in Chats : visible'[u][c] =
               IF u = loc[j].user /\ c \in ok
               THEN visible[u][c] \cup {NewMessage(u, c, loc[j].anchor, loc[j].lead)}
               ELSE visible[u][c]
          /\ \/ ok = ReachNow(j) /\ UNCHANGED <<active, budget>>
             \/ Spend("sendError") /\ UNCHANGED active
             \/ active' = active \ {loc[j].user} /\ Spend("blocked")
          /\ UNCHANGED <<clock, off, changed, last, caughtUp, clashed, marked, latest, tracked>>
    BY <1>1, SendEffect
  <1> DEFINE w == loc[j].user
             New(c) == NewMessage(loc[j].user, c, loc[j].anchor, loc[j].lead)
  <1>3. \A i \in Jobs : i # j => loc[i].pc = "idle"
    BY <1>1, <1>2, OthersRest
  <1>4. \A c \in Chats : visible[w][c] = {}
    BY <1>1, <1>2 DEF ShownInv, Deleted
  <1>5. \A c \in Chats : New(c)[1] = loc[j].anchor
    BY <1>1, <1>2 DEF NewMessage
  <1>6. \A u \in Users : u # w => \A c \in Chats : visible'[u][c] = visible[u][c]
    BY <1>2
  <1>7. \A c \in Chats : /\ visible'[w][c] = IF c \in ok THEN {New(c)} ELSE {}
                         /\ loc'[j].msg[c] = IF c \in ok THEN New(c) ELSE None
    BY <1>2, <1>4
  <1>8. loc'[j].anchor = loc[j].anchor /\ loc'[j].lead = loc[j].lead
    BY <1>2 DEF RoundStays
  <1> HIDE DEF New, w
  <1>9. ASSUME NEW c \in Chats, NEW x \in visible'[w][c]
        PROVE  x = New(c) /\ ok # {}
    <2>1. visible'[w][c] = IF c \in ok THEN {New(c)} ELSE {}
      BY <1>7
    <2>2. c \in ok
      BY <1>9, <2>1
    <2> QED
      BY <1>9, <2>1, <2>2
  <1> USE DEF w
  <1>10. ShownInv'
    <2>1. ASSUME NEW u \in Users, NEW c \in Chats
          PROVE  /\ (\A i \in Jobs : ~ Saving(loc'[i], u)) => visible'[u][c] \subseteq {tracked'[u][c]}
                 /\ \A i \in Jobs : ~ Deleted(loc'[i], u)
                 /\ \A i \in Jobs : Saving(loc'[i], u) => visible'[u][c] \subseteq {loc'[i].msg[c]}
      <3>1. \A i \in Jobs : ~ Deleted(loc'[i], u)
        BY <1>2, <1>3 DEF OthersStay, Deleted
      <3>2. ASSUME NEW i \in Jobs, Saving(loc'[i], u)
            PROVE  visible'[u][c] \subseteq {loc'[i].msg[c]}
        <4>1. i = j /\ ok # {}
          BY <1>2, <1>3, <3>2 DEF OthersStay, Saving
        <4>2. u = w
          BY <1>2, <3>2, <4>1 DEF Saving
        <4> HIDE DEF w
        <4> QED
          BY <1>7, <4>1, <4>2
      <3>3. ASSUME \A i \in Jobs : ~ Saving(loc'[i], u)
            PROVE  visible'[u][c] \subseteq {tracked'[u][c]}
        <4>1. CASE u = w
          <5>1. ok = {}
            BY <1>2, <3>3, <4>1 DEF Saving
          <5> HIDE DEF w
          <5> QED
            BY <1>7, <4>1, <5>1
        <4>2. CASE u # w
          <5>1. \A i \in Jobs : ~ Saving(loc[i], u)
            BY <1>2, <1>3 DEF Saving
          <5>2. visible[u][c] \subseteq {tracked[u][c]}
            BY <1>1, <5>1 DEF ShownInv
          <5> QED
            BY <1>2, <1>6, <4>2, <5>2
        <4> QED
          BY <4>1, <4>2
      <3> QED
        BY <3>1, <3>2, <3>3
    <2> QED
      BY <2>1 DEF ShownInv, Saving, Deleted
  <1>11. RowsInv'
    <2>1. ASSUME NEW i \in Jobs, NEW u \in Users, Waiting(loc'[i], u)
          PROVE  <<loc'[i].anchor, loc'[i].lead>> \notin marked'[u]
      <3>1. i = j
        BY <1>2, <1>3, <2>1 DEF OthersStay, Waiting, Rounding
      <3>2. CASE u = w
        <4>1. FreshOk(loc[j])
          BY <1>1 DEF OnceInv, FreshInv
        <4> QED
          BY <1>2, <1>8, <3>1, <3>2, <4>1 DEF FreshOk, ToMessage
      <3>3. CASE u # w
        <4>1. Waiting(loc[j], u)
          BY <1>2, <2>1, <3>1, <3>3 DEF Waiting, Rounding
        <4> QED
          BY <1>1, <1>2, <1>8, <3>1, <4>1 DEF RowsInv
      <3> QED
        BY <3>2, <3>3
    <2>2. ASSUME NEW u \in Users, NEW c \in Chats, NEW x \in visible'[u][c]
          PROVE  /\ \A i \in Jobs : Waiting(loc'[i], u) => x[1] = loc'[i].anchor
                 /\ (\A i \in Jobs : ~ Waiting(loc'[i], u)) => x[1] = latest'[u]
      <3>1. CASE u = w
        <4> HIDE DEF w
        <4>1. x = New(c) /\ ok # {}
          BY <1>9, <2>2, <3>1
        <4>2. x[1] = loc'[j].anchor
          BY <1>5, <1>8, <4>1
        <4> USE DEF w
        <4>3. Waiting(loc'[j], u)
          BY <1>2, <3>1, <4>1 DEF Waiting, Rounding
        <4>4. \A i \in Jobs : Waiting(loc'[i], u) => i = j
          BY <1>2, <1>3 DEF OthersStay, Waiting, Rounding
        <4> QED
          BY <4>2, <4>3, <4>4
      <3>2. CASE u # w
        <4>1. x \in visible[u][c]
          BY <1>6, <2>2, <3>2
        <4>2. Waiting(loc'[j], u) <=> Waiting(loc[j], u)
          BY <1>2, <3>2 DEF Waiting, Rounding
        <4>3. \A i \in Jobs : Waiting(loc'[i], u) <=> Waiting(loc[i], u)
          BY <1>2, <4>2 DEF OthersStay
        <4>4. \A i \in Jobs : Waiting(loc'[i], u) => i = j
          BY <1>2, <1>3 DEF OthersStay, Waiting, Rounding
        <4> QED
          BY <1>1, <1>2, <1>8, <4>1, <4>3, <4>4 DEF RowsInv
      <3> QED
        BY <3>1, <3>2
    <2>3. \A i \in Jobs : loc'[i].pc \notin Cleaning
      BY <1>2, <1>3 DEF OthersStay, Cleaning
    <2> QED
      BY <2>1, <2>2, <2>3 DEF RowsInv, Waiting
  <1>12. AheadInv'
    <2>1. "sendError" \in Events \ {"any", "slow"} /\ "blocked" \in Events \ {"any", "slow"}
      BY DEF Events
    <2>2. Bound' = Bound
      BY <1>1, <1>2, <2>1, BoundStays
    <2>3. loc[j].anchor > Bound
      BY <1>1, <1>2 DEF AheadInv, Rounding
    <2>4. \A i \in Jobs : loc'[i].pc \in Rounding \cup {"check"} => loc'[i].anchor > Bound'
      BY <1>2, <1>3, <1>8, <2>2, <2>3 DEF OthersStay, Rounding
    <2>5. ASSUME NEW u \in Users, NEW c \in Chats, NEW x \in visible'[u][c]
          PROVE  /\ \A i \in Jobs : i[2] = "checker" /\ loc'[i].pc # "idle" =>
                      (loc'[i].pc \in Cleaning /\ u \in loc'[i].todo) \/ x[1] > Bound'
                 /\ (\E r \in Replicas : last'[r] = clock') /\ clock' \notin Quiet => x[1] > Bound'
      <3>1. CASE u = w
        <4> HIDE DEF w
        <4>1. x = New(c)
          BY <1>9, <2>5, <3>1
        <4> QED
          BY <1>5, <2>2, <2>3, <4>1
      <3>2. CASE u # w
        <4>1. x \in visible[u][c]
          BY <1>6, <2>5, <3>2
        <4>2. j[2] = "checker" => x[1] > Bound
          BY <1>1, <1>2, <4>1 DEF AheadInv, Cleaning
        <4> QED
          BY <1>1, <1>2, <1>3, <2>2, <4>1, <4>2 DEF AheadInv, OthersStay
      <3> QED
        BY <3>1, <3>2
    <2> QED
      BY <2>4, <2>5 DEF AheadInv
  <1> QED
    BY <1>10, <1>11, <1>12 DEF ChatsInv

\* Its ids are saved.
LEMMA SaveChats ==
  ASSUME CalmState, CalmStep, NEW j \in Jobs, SaveIds(j)
  PROVE  ChatsInv'
  <1>1. TypeInv /\ TypeOK /\ OnceInv /\ ShownInv /\ RowsInv /\ AheadInv
    BY DEF CalmState, ChatsInv, TypeInv
  <1>2. /\ loc[j].pc = "save" /\ loc[j].user \in Users
        /\ loc'[j].pc = "send" /\ loc'[j].mark = loc[j].mark
        /\ loc'[j].anchor = loc[j].anchor /\ loc'[j].lead = loc[j].lead
        /\ OthersStay(j)
        /\ \A u \in Users, c \in Chats : tracked'[u][c] =
             IF u = loc[j].user /\ loc[j].msg[c] # None THEN loc[j].msg[c] ELSE tracked[u][c]
        /\ UNCHANGED <<clock, last, marked, latest, visible, budget>>
    BY <1>1, SaveEffect DEF CalmStep, RoundStays
  <1>3. \A i \in Jobs : i # j => loc[i].pc = "idle"
    BY <1>1, <1>2, OthersRest
  <1>4. ShownInv'
    <2>1. ASSUME NEW u \in Users, NEW c \in Chats
          PROVE  visible[u][c] \subseteq {tracked'[u][c]}
      <3>1. CASE u = loc[j].user
        <4>1. visible[u][c] \subseteq {loc[j].msg[c]}
          BY <1>1, <1>2, <3>1 DEF ShownInv, Saving
        <4>2. CASE loc[j].msg[c] # None
          BY <1>2, <3>1, <4>1, <4>2
        <4>3. CASE loc[j].msg[c] = None
          <5>1. visible[u][c] \subseteq Messages
            BY <1>1 DEF TypeOK
          <5>2. None \notin Messages
            BY RemindersAssumption DEF RemindersAssumption, Messages
          <5> QED
            BY <4>1, <4>3, <5>1, <5>2
        <4> QED
          BY <4>2, <4>3
      <3>2. CASE u # loc[j].user
        <4>1. \A i \in Jobs : ~ Saving(loc[i], u)
          BY <1>3, <3>2 DEF Saving
        <4> QED
          BY <1>1, <1>2, <3>2, <4>1 DEF ShownInv
      <3> QED
        BY <3>1, <3>2
    <2>2. \A i \in Jobs : loc'[i].pc \notin {"forget", "forgetOld", "message", "save"}
      BY <1>2, <1>3 DEF OthersStay
    <2> QED
      BY <1>2, <2>1, <2>2 DEF ShownInv, Saving, Deleted
  <1>5. \A u \in Users, c \in Chats : visible'[u][c] \subseteq visible[u][c]
    BY <1>2
  <1>6. RowsInv'
    <2>1. loc'[j].pc \notin Cleaning
      BY <1>2 DEF Cleaning
    <2>2. \A u \in Users : Waiting(loc'[j], u) <=> Waiting(loc[j], u)
      BY <1>2 DEF Waiting, Rounding
    <2> QED
      BY <1>1, <1>2, <1>5, <2>1, <2>2, RowsStep
  <1>7. AheadInv'
    <2>1. Bound' = Bound
      BY <1>1, <1>2, BoundStays
    <2>2. loc'[j].anchor > Bound
      BY <1>1, <1>2 DEF AheadInv, Rounding
    <2>3. \A u \in Users, c \in Chats : \A x \in visible'[u][c] :
            j[2] = "checker" /\ loc'[j].pc # "idle" =>
              (loc'[j].pc \in Cleaning /\ u \in loc'[j].todo) \/ x[1] > Bound
      BY <1>1, <1>2 DEF AheadInv, Cleaning
    <2> QED
      BY <1>1, <1>2, <1>5, <2>1, <2>2, <2>3, AheadStep
  <1> QED
    BY <1>4, <1>6, <1>7 DEF ChatsInv

\* The rows of the messages of a round become the newest of their users.
LEMMA MarkChats ==
  ASSUME CalmState, CalmStep, NEW j \in Jobs, Mark(j)
  PROVE  ChatsInv'
  <1>1. TypeInv /\ OnceInv /\ ChatsInv /\ ShownInv /\ RowsInv /\ AheadInv
    BY DEF CalmState, ChatsInv
  <1> DEFINE row == <<loc[j].anchor, loc[j].lead>>
  <1>2. /\ loc[j].pc = "mark" /\ OthersStay(j)
        /\ \A u \in Users :
             IF u \in loc[j].mark /\ row \notin marked[u]
             THEN marked'[u] = marked[u] \cup {row} /\ latest'[u] = loc[j].anchor
             ELSE marked'[u] = marked[u] /\ latest'[u] = latest[u]
        /\ \/ Finished(j)
           \/ loc'[j].pc = "check" /\ loc'[j].anchor = loc[j].anchor /\ UNCHANGED last
        /\ UNCHANGED <<clock, tracked, visible, budget>>
    BY <1>1, MarkEffect DEF RoundStays
  <1>3. \A i \in Jobs : i # j => loc[i].pc = "idle"
    BY <1>1, <1>2, OthersRest
  <1>4. loc'[j].pc \in {"idle", "check"}
    BY <1>1, <1>2, FinishedEffect, RestingType
  <1>5. Bound' = Bound
    BY <1>1, <1>2, BoundStays
  <1>6. \A u \in Users : Waiting(loc[j], u) <=> u \in loc[j].mark
    BY <1>2 DEF Waiting, Rounding
  <1>7. \A u \in Users : u \in loc[j].mark => row \notin marked[u]
    BY <1>1, <1>6 DEF RowsInv
  <1> HIDE DEF row
  <1>8. RowsInv'
    <2>1. \A i \in Jobs : loc'[i].pc \notin Cleaning /\ \A u \in Users : ~ Waiting(loc'[i], u)
      BY <1>2, <1>3, <1>4 DEF OthersStay, Cleaning, Waiting, Rounding
    <2>2. ASSUME NEW u \in Users, NEW c \in Chats, NEW x \in visible[u][c]
          PROVE  x[1] = latest'[u]
      <3>1. CASE u \in loc[j].mark
        BY <1>1, <1>2, <1>6, <1>7, <3>1 DEF RowsInv
      <3>2. CASE u \notin loc[j].mark
        <4>1. \A i \in Jobs : ~ Waiting(loc[i], u)
          BY <1>3, <1>6, <3>2 DEF Waiting, Rounding
        <4> QED
          BY <1>1, <1>2, <3>2, <4>1 DEF RowsInv
      <3> QED
        BY <3>1, <3>2
    <2> QED
      BY <1>2, <2>1, <2>2 DEF RowsInv, Waiting
  <1>9. CASE Finished(j)
    BY <1>1, <1>2, <1>5, <1>8, <1>9, FinishedChats DEF ChatsInv
  <1>10. CASE loc'[j].pc = "check" /\ loc'[j].anchor = loc[j].anchor /\ UNCHANGED last
    <2>1. ShownInv'
      BY <1>1, <1>2, <1>10, ShownStep
    <2>2. loc'[j].anchor > Bound
      BY <1>1, <1>2, <1>10 DEF AheadInv, Rounding
    <2>3. \A u \in Users, c \in Chats : \A x \in visible'[u][c] :
            j[2] = "checker" /\ loc'[j].pc # "idle" =>
              (loc'[j].pc \in Cleaning /\ u \in loc'[j].todo) \/ x[1] > Bound
      BY <1>1, <1>2 DEF AheadInv, Cleaning
    <2>4. \A u \in Users, c \in Chats : visible'[u][c] \subseteq visible[u][c]
      BY <1>2
    <2>5. AheadInv'
      BY <1>1, <1>2, <1>5, <1>10, <2>2, <2>3, <2>4, AheadStep
    <2> QED
      BY <1>8, <2>1, <2>5 DEF ChatsInv
  <1> QED
    BY <1>2, <1>9, <1>10

\* The clock, the source, and a cycle by night.
LEMMA EnvChats ==
  ASSUME CalmState, CalmStep, Tick \/ Publish \/ Over \/ (\E j \in Jobs : SkipQuiet(j))
  PROVE  ChatsInv'
  <1>1. TypeInv /\ TypeOK /\ ShownInv /\ RowsInv /\ AheadInv /\ LastInv
    BY DEF CalmState, ChatsInv, TypeInv
  <1>2. /\ UNCHANGED <<loc, marked, latest, tracked, visible>>
        /\ clock \in Nat /\ clock' \in Nat /\ clock <= clock'
    <2>1. UNCHANGED <<loc, marked, latest, tracked, visible>>
      BY DEF Tick, Publish, Over, SkipQuiet, vars, dbVars, chatVars
    <2>2. clock \in Nat /\ (clock' = clock \/ clock' = clock + 1)
      BY <1>1, NumbersAre DEF Tick, Publish, Over, SkipQuiet, vars, envVars
    <2> QED
      BY <2>1, <2>2
  <1>3. ShownInv'
    BY <1>1, <1>2 DEF ShownInv, Saving, Deleted
  <1>4. RowsInv'
    <2>1. \A i \in Jobs : loc[i].pc \in Cleaning =>
            \A u \in loc[i].todo : latest[u] # None /\ latest[u] <= clock'
      <3>1. ASSUME NEW i \in Jobs, loc[i].pc \in Cleaning, NEW u \in loc[i].todo
            PROVE  latest[u] # None /\ latest[u] <= clock'
        <4>1. latest[u] # None /\ latest[u] <= clock /\ u \in Users
          BY <1>1, <3>1 DEF RowsInv, TypeOK, LocType
        <4>2. latest[u] \in Nat
          BY <1>1, <4>1, NumbersAre
        <4> QED
          BY <1>2, <4>1, <4>2
      <3> QED
        BY <3>1
    <2> QED
      BY <1>1, <1>2, <2>1 DEF RowsInv, Waiting
  <1>5. AheadInv'
    <2>1. CASE Tick
      <3>1. clock' = clock + 1 /\ UNCHANGED last
        BY <2>1 DEF Tick, procVars
      <3>2. \A r \in Replicas : last'[r] # clock'
        <4>1. \A r \in Replicas : last[r] \in Minutes \cup {None}
          BY <1>1 DEF TypeOK
        <4>2. clock' \in Minutes
          BY DEF CalmStep, TypeInv, TypeOK
        <4>3. clock' # None
          BY <1>1, <4>2, NumbersAre
        <4>4. \A r \in Replicas : last[r] \in Minutes => last[r] <= clock
          BY <1>1 DEF LastInv
        <4>5. ~ (clock + 1 <= clock)
          BY <1>2
        <4> QED
          BY <3>1, <4>1, <4>2, <4>3, <4>4, <4>5
      <3>3. CASE \A i \in Jobs : At(i, "idle")
        <4>1. \A i \in Jobs : loc'[i].pc = "idle"
          BY <1>2, <3>3 DEF At
        <4> QED
          BY <3>2, <4>1 DEF AheadInv, Rounding
      <3>4. CASE ~ \A i \in Jobs : At(i, "idle")
        <4>1. Spend("slow")
          BY <2>1, <3>4 DEF Tick
        <4>2. Bound' = Bound
          <5>1. budget \in [Events -> Nat] /\ Budget \in [Events -> Nat] /\ "slow" \in Events
            BY <1>1, RemindersAssumption DEF TypeOK, Events, RemindersAssumption
          <5>2. budget'["slow"] = budget["slow"] - 1
            BY <4>1, <5>1 DEF Spend
          <5>3. Budget["slow"] \in Nat /\ budget["slow"] \in Nat
            BY <5>1
          <5>4. clock + 1 - (Budget["slow"] - (budget["slow"] - 1))
                = clock - (Budget["slow"] - budget["slow"])
            BY <1>2, <5>3
          <5> QED
            BY <1>2, <3>1, <5>2, <5>3, <5>4 DEF Bound, Spent
        <4> QED
          BY <1>1, <1>2, <3>2, <4>2 DEF AheadInv
      <3> QED
        BY <3>3, <3>4
    <2>2. CASE Publish \/ Over \/ \E j \in Jobs : SkipQuiet(j)
      <3>1. clock' = clock /\ (UNCHANGED budget \/ Spend("publish"))
        BY <2>2 DEF Publish, Over, SkipQuiet, vars, envVars
      <3>2. "publish" \in Events \ {"any", "slow"}
        BY DEF Events
      <3>3. Bound' = Bound
        BY <1>1, <3>1, <3>2, BoundStays
      <3>4. UNCHANGED last \/ clock \in Quiet
        BY <2>2 DEF Publish, Over, SkipQuiet, vars, procVars
      <3> QED
        BY <1>1, <1>2, <3>1, <3>3, <3>4 DEF AheadInv
    <2> QED
      BY <2>1, <2>2
  <1> QED
    BY <1>3, <1>4, <1>5 DEF ChatsInv

\* What a step may spend; loops that have overlapped have.
LEMMA StepBudget ==
  ASSUME TypeInv, [Next]_vars
  PROVE  /\ UNCHANGED budget \/ \E k \in Events \ {"any"} : Spend(k)
         /\ clashed => clashed'
  <1>1. \A k \in {"slow", "publish", "fetch", "sendError", "deleteError", "blocked",
                  "dbError", "crash"} : k \in Events \ {"any"}
    BY DEF Events
  <1>2. CASE Tick \/ Publish \/ Over \/ UNCHANGED vars
    BY <1>1, <1>2 DEF Tick, Publish, Over, vars, procVars
  <1>3. ASSUME NEW j \in Jobs, Work(j)
        PROVE  /\ UNCHANGED budget \/ \E k \in Events \ {"any"} : Spend(k)
               /\ clashed => clashed'
    <2>1. CASE SkipQuiet(j)
      BY <2>1 DEF SkipQuiet
    <2>2. CASE StartCycle(j) \/ StartCatchUp(j)
      BY <1>1, <2>2, StartEffect, CatchUpEffect
    <2>3. CASE ReadEvent(j)
      BY <2>3 DEF ReadEvent
    <2>4. CASE GiveUp(j)
      BY <1>1, <2>4 DEF GiveUp
    <2>5. CASE CheckSent(j) \/ SendsDone(j) \/ Mark(j)
      <3>1. UNCHANGED <<budget, clashed>>
        BY <2>5, CheckEffect, DoneEffect, MarkEffect
      <3> QED
        BY <3>1
    <2>6. CASE \E u \in Users : DeleteMessages(j, u)
      BY <1>1, <2>6 DEF DeleteMessages, procVars
    <2>7. CASE ForgetIds(j) \/ SaveIds(j)
      BY <1>1, <2>7 DEF ForgetIds, SaveIds, procVars
    <2>8. CASE SendReminder(j) \/ SendFails(j) \/ SendForbidden(j)
      BY <1>1, <2>8 DEF SendReminder, SendFails, SendForbidden, procVars
    <2> QED
      BY <1>3, <2>1, <2>2, <2>3, <2>4, <2>5, <2>6, <2>7, <2>8 DEF Work
  <1>4. ASSUME NEW r \in Replicas, Crash(r)
        PROVE  /\ UNCHANGED budget \/ \E k \in Events \ {"any"} : Spend(k)
               /\ clashed => clashed'
    BY <1>1, <1>4 DEF Crash
  <1> QED
    BY <1>2, <1>3, <1>4 DEF Next

\* A calm state comes from a calm one.
LEMMA CalmSteps ==
  ASSUME IInv, [Next]_vars, Calm'
  PROVE  Calm /\ OnceInv /\ CalmStep
  <1>1. TypeInv /\ TypeOK
    BY DEF IInv, TypeInv
  <1>2. budget' \in [Events -> Nat] /\ \A k \in Events : budget'[k] <= budget[k]
    <2>1. CASE UNCHANGED budget
      BY <1>1, <2>1 DEF TypeOK
    <2>2. ASSUME NEW k \in Events \ {"any"}, Spend(k)
          PROVE  budget' \in [Events -> Nat] /\ \A i \in Events : budget'[i] <= budget[i]
      BY <1>1, <2>2, MaySpend
    <2> QED
      BY <1>1, <2>1, <2>2, StepBudget
  <1>3. Calm /\ OnceInv
    BY <1>1, <1>2, StepBudget, CalmBefore
  <1>4. \A k \in {"dbError", "deleteError", "crash"} : ~ Spend(k)
    BY NotCalm
  <1> QED
    BY <1>1, <1>3, <1>4, NextTypes DEF Calm, CalmStep

\* Only the clock takes minutes.
LEMMA StepClock ==
  ASSUME TypeInv, [Next]_vars
  PROVE  clock' = clock \/ clock' = clock + 1
  <1>1. CASE Tick \/ Publish \/ Over \/ UNCHANGED vars
    BY <1>1 DEF Tick, Publish, Over, vars, envVars
  <1>2. ASSUME NEW j \in Jobs, Work(j)
        PROVE  clock' = clock
    <2>1. CASE SkipQuiet(j) \/ StartCycle(j) \/ StartCatchUp(j) \/ ReadEvent(j) \/ GiveUp(j)
      BY <2>1 DEF SkipQuiet, StartCycle, StartCatchUp, ReadEvent, GiveUp, envVars
    <2>2. CASE CheckSent(j) \/ ForgetIds(j) \/ SaveIds(j) \/ SendsDone(j) \/ Mark(j)
      BY <2>2, CheckEffect, ForgetEffect, SaveEffect, DoneEffect, MarkEffect
    <2>3. CASE SendReminder(j) \/ SendFails(j) \/ SendForbidden(j)
      BY <2>3, SendEffect
    <2>4. CASE \E u \in Users : DeleteMessages(j, u)
      BY <2>4, DeleteEffect
    <2> QED
      BY <1>2, <2>1, <2>2, <2>3, <2>4 DEF Work
  <1>3. ASSUME NEW r \in Replicas, Crash(r)
        PROVE  clock' = clock
    BY <1>3 DEF Crash, envVars
  <1> QED
    BY <1>1, <1>2, <1>3 DEF Next

\* The last cycle of a replica has ended before now.
LEMMA NextLast ==
  ASSUME TypeInv, LastInv, [Next]_vars
  PROVE  LastInv'
  <1>1. clock \in Nat /\ (clock' = clock \/ clock' = clock + 1)
    BY NumbersAre, StepClock
  <1>2. ASSUME NEW r \in Replicas
        PROVE  last'[r] = last[r] \/ last'[r] = clock \/ last'[r] = None
    <2>1. last \in [Replicas -> Minutes \cup {None}]
      BY DEF TypeInv, TypeOK
    <2>2. UNCHANGED last \/ (\E i \in Replicas : last' = [last EXCEPT ![i] = clock])
          \/ \E i \in Replicas : last' = [last EXCEPT ![i] = None]
      <3>1. CASE Tick \/ Publish \/ Over \/ UNCHANGED vars
        BY <3>1 DEF Tick, Publish, Over, vars, procVars
      <3>2. ASSUME NEW j \in Jobs, Work(j)
            PROVE  UNCHANGED last \/ \E i \in Replicas : last' = [last EXCEPT ![i] = clock]
        <4>1. j[1] \in Replicas
          BY DEF Jobs
        <4> QED
          BY <3>2, <4>1 DEF Work, SkipQuiet, StartCycle, StartCatchUp, ReadEvent, GiveUp,
             CheckSent, DeleteMessages, ForgetIds, SendReminder, SendFails, SendForbidden,
             SaveIds, SendsDone, Mark, Finished, procVars
      <3>3. ASSUME NEW i \in Replicas, Crash(i)
            PROVE  last' = [last EXCEPT ![i] = None]
        BY <3>3 DEF Crash
      <3> QED
        BY <3>1, <3>2, <3>3 DEF Next
    <2> QED
      BY <2>1, <2>2
  <1>3. ASSUME NEW r \in Replicas, last'[r] \in Minutes
        PROVE  last'[r] <= clock'
    <2>1. last'[r] \in Nat /\ None \notin Minutes
      BY <1>3, NumbersAre
    <2>2. last'[r] <= clock
      BY <1>1, <1>2, <1>3, <2>1 DEF LastInv
    <2> QED
      BY <1>1, <2>1, <2>2
  <1> QED
    BY <1>3 DEF LastInv

ChatsIInv == IInv /\ LastInv /\ (Calm => ChatsInv)

LEMMA InitChats == Init => ChatsIInv
  <1> SUFFICES ASSUME Init PROVE ChatsIInv
    OBVIOUS
  <1>1. IInv
    BY InitInductive
  <1>2. \A j \in Jobs : loc[j].pc = "idle"
    BY RestingType DEF Init
  <1>3. \A u \in Users, c \in Chats : visible[u][c] = {}
    BY DEF Init
  <1>4. LastInv
    <2>1. None \notin Minutes
      BY <1>1, NumbersAre DEF IInv
    <2> QED
      BY <2>1 DEF Init, LastInv
  <1>5. ShownInv /\ RowsInv /\ AheadInv
    BY <1>2, <1>3 DEF ShownInv, Saving, Deleted, RowsInv, Waiting, Rounding, AheadInv, Cleaning
  <1> QED
    BY <1>1, <1>4, <1>5 DEF ChatsIInv, ChatsInv

LEMMA NextChats == ChatsIInv /\ [Next]_vars => ChatsIInv'
  <1> SUFFICES ASSUME ChatsIInv, [Next]_vars PROVE ChatsIInv'
    OBVIOUS
  <1>1. IInv' /\ LastInv'
    BY NextInductive, NextLast DEF ChatsIInv, IInv
  <1>2. ASSUME Calm'
        PROVE  ChatsInv'
    <2>1. Calm /\ OnceInv /\ CalmStep
      BY <1>2, CalmSteps DEF ChatsIInv
    <2>2. CalmState
      BY <2>1 DEF ChatsIInv, IInv, CalmState
    <2>3. CASE Tick \/ Publish \/ Over
      BY <2>1, <2>2, <2>3, EnvChats
    <2>4. ASSUME NEW j \in Jobs, Work(j)
          PROVE  ChatsInv'
      BY <2>1, <2>2, <2>4, EnvChats, StartChats, ReadChats, GiveUpChats, RoundChats,
         DeleteChats, ForgetChats, SendChats, SaveChats, MarkChats DEF Work
    <2>5. ASSUME NEW r \in Replicas
          PROVE  ~ Crash(r)
      BY <2>1 DEF Crash, CalmStep
    <2>6. CASE UNCHANGED vars
      <3>1. UNCHANGED <<clock, loc, last, marked, latest, tracked, visible, budget>>
        BY <2>6 DEF vars, envVars, procVars, dbVars, chatVars
      <3>2. Bound' = Bound
        BY <3>1 DEF Bound, Spent
      <3> QED
        BY <2>2, <3>1, <3>2 DEF CalmState, ChatsInv, ShownInv, Saving, Deleted, RowsInv, Waiting,
           AheadInv
    <2> QED
      BY <2>3, <2>4, <2>5, <2>6 DEF Next
  <1> QED
    BY <1>1, <1>2 DEF ChatsIInv

\* "Delete previous reminder before sending the new one": for any users, chats and
\* schedules, a chat shows at most one reminder, and it is the one the database knows.
THEOREM OneReminderShown == Spec => []OneReminder
  <1>1. ASSUME ChatsIInv, Calm, NEW u \in Users, NEW c \in Chats
        PROVE  /\ Cardinality(visible[u][c]) <= 1
               /\ (\A j \in Jobs : loc[j].pc = "save" => loc[j].user # u) =>
                    visible[u][c] \subseteq {tracked[u][c]}
    <2>1. ShownInv
      BY <1>1 DEF ChatsIInv, ChatsInv
    <2>2. \E x : visible[u][c] \subseteq {x}
      BY <2>1 DEF ShownInv
    <2>3. PICK x : visible[u][c] \subseteq {x}
      BY <2>2
    <2>4. visible[u][c] = {} \/ visible[u][c] = {x}
      BY <2>3
    <2>5. Cardinality(visible[u][c]) \in {0, 1}
      BY <2>4, FS_EmptySet, FS_Singleton
    <2> QED
      BY <2>1, <2>5 DEF ShownInv, Saving
  <1>2. ChatsIInv => OneReminder
    BY <1>1 DEF OneReminder
  <1> QED
    BY <1>2, InitChats, NextChats, PTL DEF Spec

\* The clean-up goes by the newest row of sent_reminders and deletes the message that
\* is tracked: it is the message of that row, and its event has passed.
THEOREM OnlyPassedAreCleaned == Spec => CleansPassedOnly
  <1>1. ASSUME ChatsIInv, Calm, NEW j \in Jobs, NEW u \in Users,
               At(j, "clean"), DeleteMessages(j, u),
               NEW c \in Chats, NEW x \in visible[u][c]
        PROVE  x[1] <= clock
    <2>1. OnceInv /\ RowsInv
      BY <1>1 DEF ChatsIInv, IInv, ChatsInv
    <2>2. loc[j].pc = "clean" /\ u \in loc[j].todo
      BY <1>1 DEF At, DeleteMessages
    <2>3. \A i \in Jobs : ~ Waiting(loc[i], u)
      BY <2>1, <2>2, OthersRest DEF Waiting, Rounding
    <2> QED
      BY <2>1, <2>2, <2>3 DEF RowsInv, Cleaning
  <1>2. ChatsIInv /\ [Next]_vars =>
          [Calm => \A j \in Jobs, u \in Users :
             At(j, "clean") /\ DeleteMessages(j, u) =>
               \A c \in Chats : \A x \in visible[u][c] \ visible'[u][c] : x[1] <= clock]_vars
    BY <1>1
  <1> QED
    BY <1>2, InitChats, NextChats, PTL DEF Spec, CleansPassedOnly

\* Once a cycle of this minute is over, the reminders of events that have passed are
\* gone, but for those that passed in the minutes that slow cycles took: for any
\* quiet hours and schedules.
THEOREM PassedRemindersAreGone == Spec => []PassedRemindersGo
  <1>1. ChatsIInv => PassedRemindersGo
    BY DEF ChatsIInv, ChatsInv, AheadInv, Bound, PassedRemindersGo
  <1> QED
    BY <1>1, InitChats, NextChats, PTL DEF Spec
-----------------------------------------------------------------------------
(* Reminders come in time                                                  *)

\* The kind of the event at a.
KindOf(o, a) == IF a \in o THEN "power_off" ELSE "power_on"

LEMMA KindOfNext ==
  ASSUME NEW o \in Schedules, NEW c \in Minutes, NextAnchor(o, c) # None
  PROVE  NextKind(o, c) = KindOf(o, NextAnchor(o, c))
  BY AnchorAhead DEF NextKind, KindOf

\* Until the event it stays the next one.
LEMMA SameAnchor ==
  ASSUME NEW o \in Schedules, NEW c \in Minutes, NEW d \in Minutes, c <= d,
         NEW a \in Anchors, a = NextAnchor(o, c), d < a
  PROVE  NextAnchor(o, d) = a
  <1>1. Horizon \in Nat /\ o \subseteq Minutes /\ None \notin Nat
    BY RemindersAssumption DEF RemindersAssumption
  <1>2. Minutes \subseteq Anchors /\ Anchors \subseteq Nat /\ a # None
    BY <1>1 DEF Minutes, Anchors
  <1>3. CASE c = d
    BY <1>3
  <1>4. CASE c # d
    <2>1. c < d
      BY <1>2, <1>4
    <2>2. /\ a > c /\ (a \in o <=> c \notin o)
          /\ \A t \in Anchors : c < t /\ t < a => (t \in o <=> c \in o)
      BY <1>2, AnchorAhead
    <2>3. d \in o <=> c \in o
      BY <1>2, <2>1, <2>2
    <2> DEFINE S == IF d \in o THEN {t \in Anchors : t > d /\ t \notin o} ELSE {t \in o : t > d}
    <2>4. NextAnchor(o, d) = Earliest(S) /\ S \subseteq Anchors
      BY <1>1, <1>2 DEF NextAnchor
    <2>5. a \in S
      BY <2>2, <2>3
    <2>6. \A x \in S : a <= x
      <3>1. ASSUME NEW x \in S, x < a
            PROVE  FALSE
        <4>1. x \in Anchors /\ c < x
          BY <1>1, <1>2, <2>1, <2>4
        <4>2. x \in o <=> c \in o
          BY <2>2, <3>1, <4>1
        <4> QED
          BY <2>3, <4>2
      <3>2. \A x \in S : x \in Nat /\ a \in Nat
        BY <1>2, <2>4
      <3> QED
        BY <3>1, <3>2
    <2>7. S # {} /\ \A t \in S : (\A x \in S : t <= x) => t = a
      <3>1. \A t \in S : t \in Nat /\ a \in Nat
        BY <1>2, <2>4
      <3> QED
        BY <2>5, <2>6, <3>1
    <2> HIDE DEF S
    <2> QED
      BY <2>4, <2>5, <2>6, <2>7 DEF Earliest
  <1> QED
    BY <1>3, <1>4

LostKinds == {"slow", "fetch", "sendError", "dbError", "crash"}
LostStep == \E k \in LostKinds : Spend(k)

\* What is lost is counted.
LEMMA LostGrows ==
  ASSUME TypeInv, BudgetInv, [Next]_vars
  PROVE  /\ Lost \in Nat /\ Lost' \in Int /\ Lost' >= Lost
         /\ LostStep => Lost' >= Lost + 1
  <1>1. \A k \in LostKinds : k \in Events \ {"any"}
    BY DEF LostKinds, Events
  <1>2. TypeOK
    BY DEF TypeInv
  <1>3. budget' \in [Events -> Nat] /\ \A k \in Events : budget'[k] <= budget[k]
    <2>1. CASE UNCHANGED budget
      BY <1>2, <2>1 DEF TypeOK
    <2>2. ASSUME NEW k \in Events \ {"any"}, Spend(k)
          PROVE  budget' \in [Events -> Nat] /\ \A i \in Events : budget'[i] <= budget[i]
      BY <1>2, <2>2, MaySpend
    <2> QED
      BY <2>1, <2>2, StepBudget
  <1>4. ASSUME NEW k \in LostKinds
        PROVE  /\ Spent(k) \in Nat /\ Spent(k)' \in Int /\ Spent(k)' >= Spent(k)
               /\ Spend(k) => Spent(k)' >= Spent(k) + 1
    <2>1. Budget[k] \in Nat /\ budget[k] \in Nat /\ budget'[k] \in Nat
      BY <1>1, <1>2, <1>3, RemindersAssumption DEF TypeOK, RemindersAssumption
    <2>2. budget'[k] <= budget[k] /\ (Spend(k) => budget'[k] < budget[k])
      BY <1>1, <1>2, <1>3, Spending
    <2> QED
      BY <1>1, <2>1, <2>2, SpentType DEF Spent
  <1> DEFINE s(k) == Spent(k)
             t(k) == Spent(k)'
  <1>5. /\ Lost = s("slow") + s("fetch") + s("sendError") + s("dbError") + s("crash")
        /\ Lost' = t("slow") + t("fetch") + t("sendError") + t("dbError") + t("crash")
    BY DEF Lost
  <1>6. \A k \in LostKinds : /\ s(k) \in Nat /\ t(k) \in Int /\ t(k) >= s(k)
                             /\ Spend(k) => t(k) >= s(k) + 1
    BY <1>4
  <1> HIDE DEF s, t
  <1>7. Lost \in Nat /\ Lost' \in Int /\ Lost' >= Lost
    BY <1>5, <1>6 DEF LostKinds
  <1>8. ASSUME NEW k \in LostKinds, Spend(k)
        PROVE  Lost' >= Lost + 1
    <2>1. t(k) >= s(k) + 1
      BY <1>6, <1>8
    <2> QED
      BY <1>5, <1>6, <1>8, <2>1 DEF LostKinds
  <1> QED
    BY <1>7, <1>8 DEF LostStep

Reaching(l, u) ==
  \/ u \in l.mark
  \/ l.pc # "mark" /\ u \in l.todo
  \/ l.pc \in {"forgetOld", "message"} /\ l.user = u

\* A job that works is going to send the reminder, or to find that it was sent.
Promised(l, u, a, m, k) ==
  \/ l.pc \in Cleaning
  \/ /\ l.pc \in Rounding \cup {"check"} /\ l.anchor = a /\ l.kind = k
     /\ \/ m \in l.rounds /\ u \in l.users
        \/ l.pc \in Rounding /\ l.lead = m /\ Reaching(l, u)

\* What a step of a job does to the rest.
LEMMA WorkEffect ==
  ASSUME TypeInv, NEW j \in Jobs, Work(j)
  PROVE  /\ OthersStay(j) /\ UNCHANGED <<clock, off, changed>>
         /\ active' \subseteq active
         /\ \A u \in Users : marked[u] \subseteq marked'[u]
         /\ \A r \in Replicas : j # <<r, "checker">> => last'[r] = last[r]
         /\ UNCHANGED caughtUp \/ StartCatchUp(j)
  <1>1. j = <<j[1], j[2]>> /\ j[1] \in Replicas /\ last \in [Replicas -> Minutes \cup {None}]
    BY DEF Jobs, TypeInv, TypeOK
  <1>2. CASE SkipQuiet(j)
    <2>1. /\ j[2] = "checker" /\ last' = [last EXCEPT ![j[1]] = clock]
          /\ UNCHANGED <<envVars, loc, caughtUp, dbVars>>
      BY <1>2 DEF SkipQuiet
    <2> QED
      BY <1>1, <2>1 DEF envVars, dbVars, OthersStay
  <1>3. CASE StartCycle(j) \/ StartCatchUp(j)
    BY <1>3, StartEffect, CatchUpEffect
  <1>4. CASE ReadEvent(j)
    BY <1>4, ReadEffect, FinishedEffect
  <1>5. CASE GiveUp(j)
    BY <1>5, GiveUpEffect, FinishedEffect
  <1>6. CASE CheckSent(j)
    BY <1>6, CheckEffect
  <1>7. CASE \E u \in Users : DeleteMessages(j, u)
    BY <1>7, DeleteEffect
  <1>8. CASE ForgetIds(j) \/ SaveIds(j) \/ SendsDone(j)
    BY <1>8, ForgetEffect, SaveEffect, DoneEffect
  <1>9. CASE SendReminder(j) \/ SendFails(j) \/ SendForbidden(j)
    BY <1>9, SendEffect
  <1>10. CASE Mark(j)
    BY <1>10, MarkEffect, FinishedEffect
  <1> QED
    BY <1>2, <1>3, <1>4, <1>5, <1>6, <1>7, <1>8, <1>9, <1>10 DEF Work

\* A job at rest starts a cycle, or a catch-up, or lets the minute pass.
LEMMA AtRestStarts ==
  ASSUME TypeInv, NEW j \in Jobs, Work(j), loc[j].pc = "idle"
  PROVE  SkipQuiet(j) \/ StartCycle(j) \/ StartCatchUp(j)
  <1>1. ~ ReadEvent(j) /\ ~ GiveUp(j) /\ ~ CheckSent(j)
    BY DEF ReadEvent, GiveUp, CheckSent, At
  <1>2. ~ \E u \in Users : DeleteMessages(j, u)
    BY DEF DeleteMessages
  <1>3. ~ ForgetIds(j) /\ ~ SaveIds(j) /\ ~ SendsDone(j) /\ ~ Mark(j)
    BY DEF ForgetIds, SaveIds, SendsDone, Mark, At
  <1>4. ~ SendReminder(j) /\ ~ SendFails(j) /\ ~ SendForbidden(j)
    BY DEF SendReminder, SendFails, SendForbidden, At
  <1> QED
    BY <1>1, <1>2, <1>3, <1>4 DEF Work

\* A job keeps its promise to a user who is reachable, unless a step fails.
LEMMA PromiseKept ==
  ASSUME TypeInv, NEW j \in Jobs, Work(j), ~ ReadEvent(j), ~ LostStep,
         NEW u \in Users, NEW a \in Anchors, NEW m \in Leads, NEW k \in EventKinds,
         Promised(loc[j], u, a, m, k), u \in active', <<a, m>> \notin marked'[u], Wants(u, k, m)
  PROVE  Promised(loc'[j], u, a, m, k)
  <1>1. <<a, m>> \notin marked[u]
    BY WorkEffect
  <1>2. loc[j].pc # "idle"
    BY DEF Promised, Cleaning, Rounding
  <1>3. ~ Spend("fetch") /\ ~ Spend("dbError") /\ ~ Spend("sendError")
    BY DEF LostStep, LostKinds
  <1>4. ASSUME SkipQuiet(j) \/ StartCycle(j) \/ StartCatchUp(j) \/ GiveUp(j)
        PROVE  FALSE
    BY <1>2, <1>3, <1>4, StartEffect, CatchUpEffect, GiveUpEffect DEF SkipQuiet, At
  <1>5. CASE CheckSent(j)
    <2>1. PICK n \in loc[j].rounds :
         /\ loc[j].pc = "check" /\ loc'[j].pc = "send" /\ OthersStay(j)
         /\ loc'[j].lead = n /\ loc'[j].rounds = loc[j].rounds \ {n} /\ loc'[j].mark = {}
         /\ loc'[j].todo = {v \in loc[j].users :
              <<loc[j].kind, n>> \in Asked[v] /\ <<loc[j].anchor, n>> \notin marked[v]}
         /\ loc'[j].anchor = loc[j].anchor /\ loc'[j].kind = loc[j].kind
         /\ loc'[j].users = loc[j].users
      BY <1>5, CheckEffect
    <2>2. loc[j].anchor = a /\ loc[j].kind = k /\ m \in loc[j].rounds /\ u \in loc[j].users
      BY <2>1 DEF Promised, Cleaning, Rounding
    <2>3. CASE n = m
      <3>1. u \in loc'[j].todo
        BY <1>1, <2>1, <2>2, <2>3 DEF Wants
      <3> QED
        BY <2>1, <2>2, <2>3, <3>1 DEF Promised, Reaching, Rounding
    <2>4. CASE n # m
      BY <2>1, <2>2, <2>4 DEF Promised, Rounding
    <2> QED
      BY <2>3, <2>4
  <1>6. ASSUME NEW w \in Users, DeleteMessages(j, w)
        PROVE  Promised(loc'[j], u, a, m, k)
    <2>1. /\ loc[j].pc \in {"clean", "send"}
          /\ loc'[j].pc = IF loc[j].pc = "clean" THEN "forget" ELSE "forgetOld"
          /\ loc'[j].user = w /\ loc'[j].todo = loc[j].todo \ {w}
          /\ loc'[j].mark = loc[j].mark /\ RoundStays(j)
      BY <1>6, DeleteEffect
    <2>2. CASE loc[j].pc = "clean"
      BY <2>1, <2>2 DEF Promised, Cleaning
    <2>3. CASE loc[j].pc = "send"
      <3>1. Reaching(loc[j], u) => Reaching(loc'[j], u)
        BY <2>1, <2>3 DEF Reaching
      <3> QED
        BY <2>1, <2>3, <3>1 DEF Promised, RoundStays, Cleaning, Rounding
    <2> QED
      BY <2>1, <2>2, <2>3
  <1>7. CASE ForgetIds(j)
    <2>1. /\ loc[j].pc \in {"forget", "forgetOld"}
          /\ loc'[j].pc = IF loc[j].pc = "forget" THEN "clean" ELSE "message"
          /\ loc'[j].user = IF loc[j].pc = "forget" THEN None ELSE loc[j].user
          /\ loc'[j].todo = loc[j].todo /\ loc'[j].mark = loc[j].mark /\ RoundStays(j)
      BY <1>7, ForgetEffect
    <2>2. CASE loc[j].pc = "forget"
      BY <2>1, <2>2 DEF Promised, Cleaning
    <2>3. CASE loc[j].pc = "forgetOld"
      <3>1. Reaching(loc[j], u) => Reaching(loc'[j], u)
        BY <2>1, <2>3 DEF Reaching
      <3> QED
        BY <2>1, <2>3, <3>1 DEF Promised, RoundStays, Cleaning, Rounding
    <2> QED
      BY <2>1, <2>2, <2>3
  <1>8. CASE SaveIds(j) \/ SendsDone(j)
    <2>1. /\ loc[j].pc \in {"save", "send"} /\ loc'[j].pc \in {"send", "mark"}
          /\ loc'[j].pc = "mark" => loc[j].todo = {}
          /\ loc'[j].todo = loc[j].todo /\ loc'[j].mark = loc[j].mark /\ RoundStays(j)
      BY <1>8, SaveEffect, DoneEffect
    <2>2. Reaching(loc[j], u) => Reaching(loc'[j], u)
      BY <2>1 DEF Reaching
    <2> QED
      BY <2>1, <2>2 DEF Promised, RoundStays, Cleaning, Rounding
  <1>9. CASE SendReminder(j) \/ SendFails(j) \/ SendForbidden(j)
    <2>1. PICK ok \in SUBSET Chats :
         /\ loc[j].pc = "message"
         /\ loc'[j].pc = IF ok = {} THEN "send" ELSE "save"
         /\ loc'[j].mark = IF ok = {} THEN loc[j].mark ELSE loc[j].mark \cup {loc[j].user}
         /\ loc'[j].todo = loc[j].todo /\ RoundStays(j)
         /\ \/ ok = ReachNow(j)
            \/ Spend("sendError")
            \/ active' = active \ {loc[j].user}
      BY <1>9, SendEffect
    <2>2. ASSUME Reaching(loc[j], u), loc[j].lead = m, loc[j].kind = k
          PROVE  Reaching(loc'[j], u)
      <3>1. CASE loc[j].user = u
        <4>1. ok = Reach[u][k][m]
          BY <1>3, <2>1, <2>2, <3>1 DEF ReachNow
        <4>2. ok # {}
          BY <4>1 DEF Wants
        <4> QED
          BY <2>1, <3>1, <4>2 DEF Reaching
      <3>2. CASE loc[j].user # u
        BY <2>1, <2>2, <3>2 DEF Reaching
      <3> QED
        BY <3>1, <3>2
    <2> QED
      BY <2>1, <2>2 DEF Promised, RoundStays, Cleaning, Rounding
  <1>10. CASE Mark(j)
    <2> DEFINE row == <<loc[j].anchor, loc[j].lead>>
    <2>1. /\ loc[j].pc = "mark"
          /\ \A v \in Users : v \in loc[j].mark => row \in marked'[v]
          /\ \/ loc[j].rounds = {}
             \/ loc'[j].pc = "check" /\ RoundStays(j)
      <3>1. \A v \in Users : IF v \in loc[j].mark /\ row \notin marked[v]
                             THEN marked'[v] = marked[v] \cup {row}
                             ELSE marked'[v] = marked[v]
        BY <1>10, MarkEffect
      <3>2. \A v \in Users : v \in loc[j].mark => row \in marked'[v]
        BY <3>1
      <3> QED
        BY <1>10, <3>2, MarkEffect
    <2>2. ~ (loc[j].lead = m /\ loc[j].anchor = a /\ Reaching(loc[j], u))
      BY <2>1 DEF Reaching
    <2>3. loc[j].anchor = a /\ loc[j].kind = k /\ m \in loc[j].rounds /\ u \in loc[j].users
      BY <2>1, <2>2 DEF Promised, Cleaning
    <2> QED
      BY <2>1, <2>3 DEF Promised, RoundStays
  <1> QED
    BY <1>4, <1>5, <1>6, <1>7, <1>8, <1>9, <1>10 DEF Work

\* At time clock, u is to be reminded of the event at a, which has been known, by day,
\* since the window of the lead m has opened at w.
Expects(u, a, m, w, k) ==
  /\ w = a - m - 2 /\ k = KindOf(off, a)
  /\ w <= clock /\ clock <= w + 2 /\ changed < w
  /\ \A c \in w..clock : c \notin Quiet /\ NextAnchor(off, c) = a
  /\ u \in active /\ Wants(u, k, m) /\ <<a, m>> \notin marked[u]

\* The cycle of this minute is over, or will not help u.
Tried(r, u, a, m, k) ==
  LET l == loc[<<r, "checker">>]
  IN \/ l.pc = "idle" /\ last[r] = clock
     \/ l.pc # "idle" /\ ~ Promised(l, u, a, m, k)

\* Each minute of the window that has not helped has been lost to something.
PromptInv ==
  \A r \in Replicas, u \in Users, a \in Anchors, m \in Leads, w \in Nat, k \in EventKinds :
    Expects(u, a, m, w, k) =>
      /\ Lost >= clock - w
      /\ Tried(r, u, a, m, k) => Lost >= clock - w + 1

\* A job that works gives no user up without a loss.
LEMMA TriedStep ==
  ASSUME TypeInv, NEW r \in Replicas, Work(<<r, "checker">>), ~ LostStep,
         NEW u \in Users, NEW a \in Anchors, NEW m \in Leads, NEW w \in Nat, NEW k \in EventKinds,
         Expects(u, a, m, w, k), Expects(u, a, m, w, k)', Tried(r, u, a, m, k)'
  PROVE  Tried(r, u, a, m, k)
  <1> DEFINE j == <<r, "checker">>
  <1>1. j \in Jobs /\ j[2] = "checker" /\ TypeOK
    BY DEF Jobs, TypeInv
  <1>2. clock \in Nat /\ clock \notin Quiet /\ NextAnchor(off, clock) = a /\ w <= clock /\ clock <= w + 2
        /\ w = a - m - 2 /\ k = KindOf(off, a) /\ u \in active
    <2>1. clock \in Nat /\ clock \in w..clock
      BY NumbersAre DEF Expects
    <2> QED
      BY <2>1 DEF Expects
  <1>3. ~ Promised(loc'[j], u, a, m, k)
    BY DEF Tried, Promised, Cleaning, Rounding
  <1>4. u \in active' /\ <<a, m>> \notin marked'[u] /\ Wants(u, k, m)
    BY DEF Expects, Wants
  <1> HIDE DEF j
  <1>5. ~ SkipQuiet(j) /\ ~ StartCatchUp(j) /\ ~ StartCycle(j)
    <2>1. ASSUME StartCycle(j)
          PROVE  FALSE
      <3>1. loc'[j].pc = "clean"
        BY <1>1, <2>1, StartEffect
      <3> QED
        BY <1>3, <3>1 DEF Promised, Cleaning
    <2> QED
      BY <1>1, <1>2, <2>1 DEF SkipQuiet, StartCatchUp
  <1>6. ASSUME ReadEvent(j)
        PROVE  FALSE
    <2>1. /\ \/ RoundsOf(j, a) = {}
             \/ /\ loc'[j].pc = "check" /\ loc'[j].anchor = a
                /\ loc'[j].kind = NextKind(off, clock)
                /\ loc'[j].rounds = RoundsOf(j, a) /\ loc'[j].users = active
      BY <1>1, <1>2, <1>6, ReadEffect
    <2>2. a # None /\ a \in Nat /\ m \in Nat
      BY NumbersAre, RemindersAssumption DEF RemindersAssumption
    <2>3. m \in Due(a, clock)
      BY <1>2, <2>2 DEF Due, MinutesUntil
    <2>4. m \in RoundsOf(j, a)
      BY <1>1, <2>2, <2>3 DEF RoundsOf
    <2>5. NextKind(off, clock) = k
      BY <1>1, <1>2, <2>2, KindOfNext DEF TypeOK
    <2> QED
      BY <1>2, <1>3, <2>1, <2>4, <2>5 DEF Promised
  <1>7. Work(j)
    BY DEF j
  <1>8. loc[j].pc # "idle"
    BY <1>1, <1>5, <1>7, AtRestStarts
  <1>9. ~ Promised(loc[j], u, a, m, k)
    BY <1>1, <1>3, <1>4, <1>6, <1>7, PromiseKept
  <1> QED
    BY <1>8, <1>9 DEF Tried, j

\* A step of a job.
LEMMA WorkPrompt ==
  ASSUME TypeInv, BudgetInv, PromptInv, [Next]_vars, NEW j \in Jobs, Work(j)
  PROVE  PromptInv'
  <1>1. /\ OthersStay(j) /\ UNCHANGED <<clock, off, changed>>
        /\ active' \subseteq active
        /\ \A u \in Users : marked[u] \subseteq marked'[u]
        /\ \A r \in Replicas : j # <<r, "checker">> => last'[r] = last[r]
    BY WorkEffect
  <1>2. /\ Lost \in Nat /\ Lost' \in Int /\ Lost' >= Lost
        /\ LostStep => Lost' >= Lost + 1
    BY LostGrows
  <1>3. clock \in Nat
    BY NumbersAre
  <1>4. ASSUME NEW r \in Replicas, NEW u \in Users, NEW a \in Anchors, NEW m \in Leads,
               NEW w \in Nat, NEW k \in EventKinds, Expects(u, a, m, w, k)'
        PROVE  /\ Lost' >= clock' - w
               /\ Tried(r, u, a, m, k)' => Lost' >= clock' - w + 1
    <2>1. Expects(u, a, m, w, k)
      BY <1>1, <1>4 DEF Expects, KindOf, Wants
    <2>2. Lost >= clock - w /\ (Tried(r, u, a, m, k) => Lost >= clock - w + 1)
      BY <2>1 DEF PromptInv
    <2>3. Lost' >= clock' - w
      BY <1>1, <1>2, <1>3, <2>2
    <2>4. ASSUME Tried(r, u, a, m, k)', ~ LostStep
          PROVE  Tried(r, u, a, m, k)
      <3>1. CASE j = <<r, "checker">>
        BY <1>4, <2>1, <2>4, <3>1, TriedStep
      <3>2. CASE j # <<r, "checker">>
        <4>1. <<r, "checker">> \in Jobs \ {j}
          BY <3>2 DEF Jobs
        <4>2. loc'[<<r, "checker">>] = loc[<<r, "checker">>] /\ last'[r] = last[r]
          BY <1>1, <3>2, <4>1 DEF OthersStay
        <4> QED
          BY <1>1, <2>4, <4>2 DEF Tried, Promised, Reaching
      <3> QED
        BY <3>1, <3>2
    <2>5. ASSUME Tried(r, u, a, m, k)'
          PROVE  Lost' >= clock' - w + 1
      <3>1. CASE LostStep
        BY <1>1, <1>2, <1>3, <2>2, <3>1
      <3>2. CASE ~ LostStep
        BY <1>1, <1>2, <1>3, <2>2, <2>4, <2>5, <3>2
      <3> QED
        BY <3>1, <3>2
    <2> QED
      BY <2>3, <2>5
  <1> QED
    BY <1>4 DEF PromptInv

\* A minute passes: after a cycle, or it is lost.
LEMMA TickPrompt ==
  ASSUME TypeInv, TypeInv', BudgetInv, LastInv, PromptInv, [Next]_vars, Tick
  PROVE  PromptInv'
  <1>1. /\ Lost \in Nat /\ Lost' \in Int /\ Lost' >= Lost
        /\ LostStep => Lost' >= Lost + 1
    BY LostGrows
  <1>2. /\ clock \in Nat /\ clock' = clock + 1
        /\ UNCHANGED <<off, changed, loc, last, active, marked>>
        /\ \/ (\A j \in Jobs : loc[j].pc = "idle") /\ (\A r \in Replicas : last[r] = clock)
           \/ LostStep
    BY NumbersAre DEF Tick, At, procVars, dbVars, LostStep, LostKinds
  <1>3. ASSUME NEW r \in Replicas, NEW u \in Users, NEW a \in Anchors, NEW m \in Leads,
               NEW w \in Nat, NEW k \in EventKinds, Expects(u, a, m, w, k)'
        PROVE  /\ Lost' >= clock' - w
               /\ Tried(r, u, a, m, k)' => Lost' >= clock' - w + 1
    <2>1. last[r] # clock'
      <3>1. last[r] \in Minutes \cup {None} /\ clock' \in Minutes /\ None \notin Minutes
        BY NumbersAre DEF TypeInv, TypeOK
      <3>2. last[r] \in Minutes => last[r] <= clock
        BY DEF LastInv
      <3> QED
        BY <1>2, <3>1, <3>2
    <2>2. <<r, "checker">> \in Jobs
      BY DEF Jobs
    <2>3. ASSUME Tried(r, u, a, m, k)'
          PROVE  Tried(r, u, a, m, k) /\ LostStep
      <3>1. loc[<<r, "checker">>].pc # "idle" /\ ~ Promised(loc[<<r, "checker">>], u, a, m, k)
        BY <1>2, <2>1, <2>3 DEF Tried, Promised, Reaching
      <3> QED
        BY <1>2, <2>2, <3>1 DEF Tried
    <2>4. CASE w <= clock
      <3>1. Expects(u, a, m, w, k)
        <4>1. \A c \in w..clock : c \in w..clock'
          BY <1>2
        <4>2. clock <= w + 2
          BY <1>2, <1>3 DEF Expects
        <4> QED
          BY <1>2, <1>3, <2>4, <4>1, <4>2 DEF Expects, KindOf, Wants
      <3>2. Lost >= clock - w /\ (Tried(r, u, a, m, k) => Lost >= clock - w + 1)
        BY <3>1 DEF PromptInv
      <3>3. CASE LostStep
        BY <1>1, <1>2, <2>3, <3>2, <3>3
      <3>4. CASE ~ LostStep
        <4>1. Tried(r, u, a, m, k)
          BY <1>2, <2>2, <3>4 DEF Tried
        <4> QED
          BY <1>1, <1>2, <2>3, <3>2, <3>4, <4>1
      <3> QED
        BY <3>3, <3>4
    <2>5. CASE ~ (w <= clock)
      <3>1. w = clock'
        <4>1. w <= clock'
          BY <1>3 DEF Expects
        <4> QED
          BY <1>2, <2>5, <4>1
      <3> QED
        BY <1>1, <1>2, <2>3, <3>1
    <2> QED
      BY <2>4, <2>5
  <1> QED
    BY <1>3 DEF PromptInv

\* The schedule changes, or a process dies, or nothing happens.
LEMMA OtherPrompt ==
  ASSUME TypeInv, BudgetInv, PromptInv, [Next]_vars,
         Publish \/ Over \/ UNCHANGED vars \/ \E r \in Replicas : Crash(r)
  PROVE  PromptInv'
  <1>1. /\ Lost \in Nat /\ Lost' \in Int /\ Lost' >= Lost
        /\ LostStep => Lost' >= Lost + 1
    BY LostGrows
  <1>2. clock \in Nat
    BY NumbersAre
  <1>3. CASE Publish
    <2>1. clock' = clock /\ changed' = clock
      BY <1>3 DEF Publish
    <2>2. ASSUME NEW u, NEW a, NEW m, NEW w \in Nat, NEW k
          PROVE  ~ Expects(u, a, m, w, k)'
      BY <1>2, <2>1 DEF Expects
    <2> QED
      BY <2>2 DEF PromptInv
  <1>4. CASE Over \/ UNCHANGED vars
    <2>1. UNCHANGED <<clock, off, changed, loc, last, active, marked, budget>>
      BY <1>4 DEF Over, vars, envVars, procVars, dbVars
    <2>2. Lost' = Lost
      BY <2>1 DEF Lost, Spent
    <2>3. \A r \in Replicas, u \in Users, a \in Anchors, m \in Leads, k \in EventKinds :
            Tried(r, u, a, m, k)' <=> Tried(r, u, a, m, k)
      BY <2>1 DEF Tried, Promised, Reaching
    <2>4. \A u \in Users, a \in Anchors, m \in Leads, w \in Nat, k \in EventKinds :
            Expects(u, a, m, w, k)' <=> Expects(u, a, m, w, k)
      BY <2>1 DEF Expects, KindOf, Wants
    <2> QED
      BY <2>1, <2>2, <2>3, <2>4 DEF PromptInv
  <1>5. ASSUME NEW i \in Replicas, Crash(i)
        PROVE  PromptInv'
    <2>1. UNCHANGED <<clock, off, changed, active, marked>> /\ LostStep
      BY <1>5 DEF Crash, envVars, dbVars, LostStep, LostKinds
    <2>2. ASSUME NEW r \in Replicas, NEW u \in Users, NEW a \in Anchors, NEW m \in Leads,
                 NEW w \in Nat, NEW k \in EventKinds, Expects(u, a, m, w, k)'
          PROVE  Lost' >= clock' - w + 1
      <3>1. Expects(u, a, m, w, k)
        BY <2>1, <2>2 DEF Expects, KindOf, Wants
      <3>2. Lost >= clock - w
        BY <3>1 DEF PromptInv
      <3> QED
        BY <1>1, <1>2, <2>1, <3>2
    <2>3. \A w \in Nat : Lost' >= clock' - w + 1 => Lost' >= clock' - w
      BY <1>1, <1>2, <2>1
    <2> QED
      BY <2>2, <2>3 DEF PromptInv
  <1> QED
    BY <1>3, <1>4, <1>5

PromptIInv == IInv /\ LastInv /\ PromptInv

LEMMA InitPrompt == Init => PromptIInv
  <1> SUFFICES ASSUME Init PROVE PromptIInv
    OBVIOUS
  <1>1. IInv /\ LastInv
    BY InitChats DEF ChatsIInv
  <1>2. Lost \in Nat
    BY <1>1, SpentType DEF IInv, Lost, Events
  <1>3. clock = 0 /\ None # 0 /\ \A r \in Replicas : last[r] = None /\ loc[<<r, "checker">>].pc = "idle"
    BY RestingType, RemindersAssumption DEF Init, Jobs, RemindersAssumption
  <1>4. PromptInv
    BY <1>2, <1>3 DEF PromptInv, Tried
  <1> QED
    BY <1>1, <1>4 DEF PromptIInv

LEMMA NextPrompt == PromptIInv /\ [Next]_vars => PromptIInv'
  <1> SUFFICES ASSUME PromptIInv, [Next]_vars PROVE PromptIInv'
    OBVIOUS
  <1>1. TypeInv /\ BudgetInv /\ LastInv /\ PromptInv /\ IInv
    BY DEF PromptIInv, IInv
  <1>2. IInv' /\ LastInv' /\ TypeInv'
    BY <1>1, NextInductive, NextLast DEF IInv
  <1>3. PromptInv'
    BY <1>1, <1>2, WorkPrompt, TickPrompt, OtherPrompt DEF Next
  <1> QED
    BY <1>2, <1>3 DEF PromptIInv

\* The window of three minutes allows for two minutes or attempts that are lost, in
\* any order and to anything: at its end an event that was known all along has been
\* announced to those who want it.
THEOREM RemindedWithinWindow == Spec => []RemindedInTime
  <1>1. ASSUME PromptIInv, NEW r \in Replicas, NEW u \in active, NEW m \in Leads,
               NEW a, a = clock + m,
               \A c \in (clock - 2)..clock :
                 c > changed /\ c >= 0 /\ c \notin Quiet /\ NextAnchor(off, c) = a,
               Lost <= 2, last[r] = clock, At(<<r, "checker">>, "idle"),
               Wants(u, NextKind(off, clock), m)
        PROVE  <<a, m>> \in marked[u]
    <2>1. TypeInv /\ TypeOK /\ BudgetInv
      BY <1>1 DEF PromptIInv, IInv, TypeInv
    <2>2. clock \in Nat /\ m \in Nat /\ u \in Users /\ None \notin Nat
      BY <2>1, NumbersAre, RemindersAssumption DEF TypeOK, RemindersAssumption
    <2>3. clock - 2 \in Nat /\ clock \in (clock - 2)..clock /\ clock - 2 \in (clock - 2)..clock
      BY <1>1, <2>2
    <2>4. NextAnchor(off, clock) = a /\ changed < clock - 2
      BY <1>1, <2>3 DEF TypeOK
    <2>5. off \in Schedules /\ clock \in Minutes
      BY <2>1 DEF TypeOK
    <2>6. a \in Nat /\ a # None
      BY <1>1, <2>2
    <2>7. a \in Anchors
      BY <2>4, <2>5, <2>6, AnchorType
    <2>8. NextKind(off, clock) = KindOf(off, a) /\ KindOf(off, a) \in EventKinds
      BY <2>4, <2>5, <2>6, KindOfNext DEF KindOf, EventKinds
    <2>9. SUFFICES ASSUME <<a, m>> \notin marked[u]
                   PROVE  FALSE
      OBVIOUS
    <2>10. Expects(u, a, m, clock - 2, KindOf(off, a))
      <3>1. clock - 2 = a - m - 2 /\ clock - 2 <= clock /\ clock <= clock - 2 + 2
        BY <1>1, <2>2
      <3> QED
        BY <1>1, <2>4, <2>8, <2>9, <3>1 DEF Expects
    <2>11. Tried(r, u, a, m, KindOf(off, a))
      BY <1>1 DEF Tried, At
    <2>12. Lost >= clock - (clock - 2) + 1
      BY <1>1, <2>2, <2>3, <2>7, <2>8, <2>10, <2>11 DEF PromptIInv, PromptInv
    <2>13. Lost \in Nat
      BY <2>1, SpentType DEF Lost, Events
    <2> QED
      BY <1>1, <2>2, <2>12, <2>13
  <1>2. PromptIInv => RemindedInTime
    BY <1>1 DEF RemindedInTime
  <1> QED
    BY <1>2, InitPrompt, NextPrompt, PTL DEF Spec
-----------------------------------------------------------------------------
(* The morning after                                                       *)

\* A catch-up starts in the first minutes of a day.
CaughtInv ==
  Lost = 0 /\ caughtUp # {} =>
    \E s \in Minutes : /\ s <= clock /\ s \notin Quiet
                       /\ s - 1 \in Quiet \/ s - 2 \in Quiet

\* The day has begun at dawn; the event at a, the next one since, is still to come, and
\* the time of the reminder that u wants of it was by night.
Morning(u, a, m, dawn, k) ==
  /\ dawn \notin Quiet /\ dawn - 1 \in Quiet /\ changed < dawn /\ dawn <= clock
  /\ a = NextAnchor(off, dawn) /\ k = KindOf(off, a)
  /\ MinutesUntil(a, clock) > 0 /\ MinutesUntil(a, dawn) <= m
  /\ u \in active /\ Wants(u, k, m)

\* A catch-up that has begun has sent it, or is going to.
NightInv ==
  Lost = 0 =>
    \A r \in caughtUp, u \in Users, a \in Anchors, m \in Leads, dawn \in Minutes,
       k \in EventKinds :
      Morning(u, a, m, dawn, k) =>
        <<a, m>> \in marked[u] \/ Promised(loc[<<r, "catchup">>], u, a, m, k)

\* What the catch-up reads is the event that was next at dawn.
LEMMA ReadsTheMorning ==
  ASSUME TypeInv, NEW j \in Jobs, j[2] = "catchup", ReadEvent(j),
         NEW u \in Users, NEW a \in Anchors, NEW m \in Leads, NEW dawn \in Minutes,
         NEW k \in EventKinds, Morning(u, a, m, dawn, k)
  PROVE  Promised(loc'[j], u, a, m, k)
  <1>1. clock \in Minutes /\ off \in Schedules
    BY DEF TypeInv, TypeOK
  <1>2. /\ clock \in Nat /\ dawn \in Nat /\ a \in Nat /\ m \in Nat /\ None \notin Nat
    BY NumbersAre, RemindersAssumption DEF RemindersAssumption, Minutes, Anchors
  <1>3. /\ dawn <= clock /\ a = NextAnchor(off, dawn) /\ k = KindOf(off, a)
        /\ a - clock - 1 > 0 /\ a - dawn - 1 <= m /\ u \in active
    BY DEF Morning, MinutesUntil
  <1>4. NextAnchor(off, clock) = a
    <2>1. clock < a
      BY <1>2, <1>3
    <2> QED
      BY <1>1, <1>3, <2>1, SameAnchor
  <1>5. NextKind(off, clock) = k
    BY <1>1, <1>2, <1>3, <1>4, KindOfNext
  <1>6. m \in RoundsOf(j, a)
    <2>1. a - clock - 1 <= m + 1
      BY <1>2, <1>3
    <2> QED
      BY <1>2, <1>3, <2>1 DEF RoundsOf, Missed, MinutesUntil
  <1>7. /\ loc'[j].pc = "check" /\ loc'[j].anchor = a /\ loc'[j].kind = k
        /\ loc'[j].rounds = RoundsOf(j, a) /\ loc'[j].users = active
    BY <1>4, <1>5, <1>6, ReadEffect
  <1> QED
    BY <1>3, <1>6, <1>7 DEF Promised

\* A step of a job.
LEMMA WorkNight ==
  ASSUME TypeInv, BudgetInv, CaughtInv, NightInv, [Next]_vars, NEW j \in Jobs, Work(j)
  PROVE  CaughtInv' /\ NightInv'
  <1>1. /\ OthersStay(j) /\ UNCHANGED <<clock, off, changed>>
        /\ active' \subseteq active
        /\ \A u \in Users : marked[u] \subseteq marked'[u]
        /\ UNCHANGED caughtUp \/ StartCatchUp(j)
    BY WorkEffect
  <1>2. Lost' = 0 => Lost = 0 /\ ~ LostStep
    BY LostGrows
  <1>3. CaughtInv'
    <2>1. CASE UNCHANGED caughtUp
      BY <1>1, <1>2, <2>1 DEF CaughtInv
    <2>2. CASE StartCatchUp(j)
      <3>1. clock \in Minutes /\ clock \in Nat
        BY NumbersAre DEF TypeInv, TypeOK
      <3>2. clock \notin Quiet /\ (clock - 1 \in Quiet \/ clock - 2 \in Quiet)
        BY <2>2, CatchUpEffect
      <3>3. clock' = clock /\ clock <= clock
        BY <1>1, <3>1
      <3> QED
        BY <3>1, <3>2, <3>3 DEF CaughtInv
    <2> QED
      BY <1>1, <2>1, <2>2
  <1>4. ASSUME Lost' = 0, NEW r \in caughtUp', NEW u \in Users, NEW a \in Anchors,
               NEW m \in Leads, NEW dawn \in Minutes, NEW k \in EventKinds,
               Morning(u, a, m, dawn, k)', <<a, m>> \notin marked'[u]
        PROVE  Promised(loc'[<<r, "catchup">>], u, a, m, k)
    <2> DEFINE i == <<r, "catchup">>
    <2>1. Morning(u, a, m, dawn, k)
      BY <1>1, <1>4 DEF Morning, KindOf, Wants
    <2>2. r \in Replicas /\ i \in Jobs /\ i[2] = "catchup"
      <3>1. caughtUp \subseteq Replicas
        BY DEF TypeInv, TypeOK
      <3>2. StartCatchUp(j) => caughtUp' = caughtUp \cup {j[1]} /\ j[1] \in Replicas
        BY CatchUpEffect DEF Jobs
      <3> QED
        BY <1>1, <3>1, <3>2 DEF Jobs
    <2>3. <<a, m>> \notin marked[u]
      BY <1>1, <1>4
    <2>4. ASSUME r \in caughtUp
          PROVE  Promised(loc[i], u, a, m, k)
      BY <1>2, <1>4, <2>1, <2>3, <2>4 DEF NightInv
    <2>5. CASE i # j
      <3>1. r \in caughtUp
        <4>1. ASSUME StartCatchUp(j)
              PROVE  j[1] # r /\ caughtUp' = caughtUp \cup {j[1]}
          BY <2>5, <4>1, CatchUpEffect DEF Jobs
        <4> QED
          BY <1>1, <1>4, <4>1
      <3>2. loc'[i] = loc[i]
        BY <1>1, <2>2, <2>5 DEF OthersStay
      <3> QED
        BY <2>4, <3>1, <3>2
    <2>6. CASE i = j
      <3>1. CASE StartCatchUp(j)
        BY <2>6, <3>1, CatchUpEffect DEF Promised, Cleaning
      <3>2. CASE ReadEvent(j)
        BY <2>1, <2>2, <2>6, <3>2, ReadsTheMorning
      <3>3. CASE ~ StartCatchUp(j) /\ ~ ReadEvent(j)
        <4>1. Promised(loc[j], u, a, m, k)
          BY <1>1, <1>4, <2>4, <2>6, <3>3
        <4>2. u \in active' /\ Wants(u, k, m)
          BY <1>4 DEF Morning, Wants
        <4> HIDE DEF i
        <4>3. Promised(loc'[j], u, a, m, k)
          BY <1>2, <1>4, <3>3, <4>1, <4>2, PromiseKept
        <4> QED
          BY <2>6, <4>3 DEF i
      <3> QED
        BY <3>1, <3>2, <3>3
    <2> QED
      BY <2>5, <2>6
  <1> QED
    BY <1>3, <1>4 DEF NightInv

\* A minute passes: no other night ends.
LEMMA TickNight ==
  ASSUME TypeInv, BudgetInv, CaughtInv, NightInv, [Next]_vars, Tick
  PROVE  CaughtInv' /\ NightInv'
  <1>1. /\ clock \in Nat /\ clock' = clock + 1
        /\ UNCHANGED <<off, changed, loc, caughtUp, active, marked>>
    BY NumbersAre DEF Tick, procVars, dbVars
  <1>2. Lost' = 0 => Lost = 0
    BY LostGrows
  <1>3. CaughtInv'
    <2>1. \A s \in Minutes : s <= clock => s <= clock'
      BY <1>1 DEF Minutes
    <2> QED
      BY <1>1, <1>2, <2>1 DEF CaughtInv
  <1>4. ASSUME Lost' = 0, NEW r \in caughtUp', NEW u \in Users, NEW a \in Anchors,
               NEW m \in Leads, NEW dawn \in Minutes, NEW k \in EventKinds,
               Morning(u, a, m, dawn, k)'
        PROVE  <<a, m>> \in marked'[u] \/ Promised(loc'[<<r, "catchup">>], u, a, m, k)
    <2>1. dawn \in Nat /\ a \in Nat /\ m \in Nat
      BY NumbersAre, RemindersAssumption DEF RemindersAssumption, Minutes, Anchors
    <2>2. dawn <= clock
      <3>1. PICK s \in Minutes : /\ s <= clock /\ s \notin Quiet
                                 /\ s - 1 \in Quiet \/ s - 2 \in Quiet
        BY <1>1, <1>2, <1>4 DEF CaughtInv
      <3>2. dawn <= clock + 1 /\ dawn - 1 \in Quiet
        BY <1>1, <1>4 DEF Morning
      <3>3. ASSUME dawn = clock + 1
            PROVE  FALSE
        <4>1. s \in Nat /\ clock \in Quiet
          BY <1>1, <3>2, <3>3 DEF Minutes
        <4>2. s \in (s - 1)..clock /\ s \in (s - 2)..clock
          BY <1>1, <3>1, <4>1
        <4>3. (s - 1)..clock \subseteq Quiet \/ (s - 2)..clock \subseteq Quiet
          BY <3>1, <4>1, OneNight DEF OneNight
        <4> QED
          BY <3>1, <4>2, <4>3
      <3> QED
        BY <1>1, <2>1, <3>2, <3>3
    <2>3. Morning(u, a, m, dawn, k)
      <3>1. a - clock' - 1 > 0 => a - clock - 1 > 0
        BY <1>1, <2>1
      <3> QED
        BY <1>1, <1>4, <2>2, <3>1 DEF Morning, KindOf, Wants, MinutesUntil
    <2> QED
      BY <1>1, <1>2, <1>4, <2>3 DEF NightInv, Promised, Reaching
  <1> QED
    BY <1>3, <1>4 DEF NightInv

\* The schedule changes, or a process dies, or nothing happens.
LEMMA OtherNight ==
  ASSUME TypeInv, BudgetInv, CaughtInv, NightInv, [Next]_vars,
         Publish \/ Over \/ UNCHANGED vars \/ \E r \in Replicas : Crash(r)
  PROVE  CaughtInv' /\ NightInv'
  <1>1. Lost \in Nat /\ (Lost' = 0 => Lost = 0 /\ ~ LostStep)
    BY LostGrows
  <1>2. clock \in Nat
    BY NumbersAre
  <1>3. CASE Publish
    <2>1. clock' = clock /\ changed' = clock /\ UNCHANGED caughtUp
      BY <1>3 DEF Publish, procVars
    <2>2. CaughtInv'
      BY <1>1, <2>1 DEF CaughtInv
    <2>3. ASSUME NEW u, NEW a, NEW m, NEW dawn \in Minutes, NEW k
          PROVE  ~ Morning(u, a, m, dawn, k)'
      BY <1>2, <2>1 DEF Morning, Minutes
    <2> QED
      BY <2>2, <2>3 DEF NightInv
  <1>4. CASE Over \/ UNCHANGED vars
    <2>1. UNCHANGED <<clock, off, changed, loc, caughtUp, active, marked>>
      BY <1>4 DEF Over, vars, envVars, procVars, dbVars
    <2>2. CaughtInv'
      BY <1>1, <2>1 DEF CaughtInv
    <2>3. \A u \in Users, a \in Anchors, m \in Leads, dawn \in Minutes, k \in EventKinds :
            Morning(u, a, m, dawn, k)' <=> Morning(u, a, m, dawn, k)
      BY <2>1 DEF Morning, KindOf, Wants
    <2>4. NightInv'
      BY <1>1, <2>1, <2>3 DEF NightInv, Promised, Reaching
    <2> QED
      BY <2>2, <2>4
  <1>5. ASSUME NEW r \in Replicas, Crash(r)
        PROVE  Lost' # 0
    BY <1>1, <1>5 DEF Crash, LostStep, LostKinds
  <1> QED
    BY <1>3, <1>4, <1>5 DEF CaughtInv, NightInv

NightIInv == IInv /\ CaughtInv /\ NightInv

LEMMA InitNight == Init => NightIInv
  <1> SUFFICES ASSUME Init PROVE NightIInv
    OBVIOUS
  <1>1. IInv /\ caughtUp = {}
    BY InitInductive DEF Init
  <1> QED
    BY <1>1 DEF NightIInv, CaughtInv, NightInv

LEMMA NextNight == NightIInv /\ [Next]_vars => NightIInv'
  <1> SUFFICES ASSUME NightIInv, [Next]_vars PROVE NightIInv'
    OBVIOUS
  <1>1. TypeInv /\ BudgetInv /\ CaughtInv /\ NightInv /\ IInv
    BY DEF NightIInv, IInv
  <1>2. IInv'
    BY <1>1, NextInductive
  <1>3. CaughtInv' /\ NightInv'
    BY <1>1, WorkNight, TickNight, OtherNight DEF Next
  <1> QED
    BY <1>2, <1>3 DEF NightIInv

\* Unless something is lost, a catch-up that is over has left out nobody: of the event
\* that was next when the day began, all whose reminder was due by night have it.
THEOREM MorningMakesUp == Spec => []NothingMissedByNight
  <1>1. ASSUME NightIInv, NEW r \in caughtUp, NEW u \in active, NEW m \in Leads,
               NEW dawn \in Minutes \ Quiet, NEW a, a = NextAnchor(off, dawn),
               dawn - 1 \in Quiet, changed < dawn, dawn <= clock, a # None,
               MinutesUntil(a, clock) > 0, MinutesUntil(a, dawn) <= m,
               At(<<r, "catchup">>, "idle"), Lost = 0,
               Wants(u, NextKind(off, dawn), m)
        PROVE  <<a, m>> \in marked[u]
    <2>1. TypeOK
      BY <1>1 DEF NightIInv, IInv, TypeInv
    <2>2. u \in Users /\ off \in Schedules /\ a \in Anchors
      BY <1>1, <2>1, AnchorType DEF TypeOK
    <2>3. NextKind(off, dawn) = KindOf(off, a) /\ KindOf(off, a) \in EventKinds
      BY <1>1, <2>2, KindOfNext DEF KindOf, EventKinds
    <2>4. Morning(u, a, m, dawn, KindOf(off, a))
      BY <1>1, <2>3 DEF Morning
    <2>5. ~ Promised(loc[<<r, "catchup">>], u, a, m, KindOf(off, a))
      BY <1>1 DEF At, Promised, Cleaning, Rounding
    <2> QED
      BY <1>1, <2>2, <2>3, <2>4, <2>5 DEF NightIInv, NightInv
  <1>2. NightIInv => NothingMissedByNight
    BY <1>1 DEF NothingMissedByNight
  <1> QED
    BY <1>2, InitNight, NextNight, PTL DEF Spec
=============================================================================
