-------------------------- MODULE UserHandlersProofs --------------------------
(***************************************************************************)
(* Proofs about the handlers of users: the two flags of a switch agree, a  *)
(* profile made anew holds nothing of the old one, a channel belongs to    *)
(* one user who has added the bot to it and is one the bot can publish in, *)
(* the wizard has the data its steps need, and a user is warned about the  *)
(* router once a day.                                                      *)
(***************************************************************************)
EXTENDS UserHandlers, TLAPS, FiniteSetTheorems

-----------------------------------------------------------------------------
(* Records                                                                 *)

Fields == {"pc", "user", "id", "dirty", "erase", "held", "then", "alert", "ping", "pending", "lost"}

LEMMA IdleIs ==
  /\ DOMAIN Idle = Fields /\ Idle.pc = "idle" /\ Idle.id = None /\ Idle.dirty = Nothing
  /\ Idle.erase = FALSE /\ Idle.then = Nothing /\ Idle.alert = "keep" /\ Idle.pending = Nothing
  /\ Idle.lost = None /\ Idle.user = None
  BY DEF Idle, Fields

LEMMA NothingIs == DOMAIN Nothing = {}
  BY DEF Nothing

LEMMA OverIs ==
  ASSUME NEW new, NEW f
  PROVE  /\ DOMAIN Over(new, f) = DOMAIN new \cup DOMAIN f
         /\ \A k \in DOMAIN new : Over(new, f)[k] = new[k]
         /\ \A k \in DOMAIN f : k \notin DOMAIN new => Over(new, f)[k] = f[k]
  BY DEF Over

LEMMA DirtyIs ==
  ASSUME NEW r, NEW new
  PROVE  /\ DOMAIN Dirty(r, new) \subseteq DOMAIN new
         /\ \A c \in DOMAIN Dirty(r, new) : Dirty(r, new)[c] = new[c]
         /\ \A c \in DOMAIN new : c \in DOMAIN Dirty(r, new) <=> new[c] # r[c]
  BY DEF Dirty

LEMMA FreshIs ==
  /\ Columns = {"id", "active", "region", "queue", "ip", "sched", "remindOff", "remindOn", "factOff", "factOn",
                "other", "chan", "title", "status", "paused", "chFactOff", "chFactOn", "chOther"}
  /\ DOMAIN Fresh = Columns
  /\ Fresh.factOff = Fresh.factOn /\ Fresh.chFactOff = Fresh.chFactOn /\ Fresh.chan = None /\ Fresh.id = 0
  /\ Fresh \in Rows /\ Fresh.active = TRUE
  <1> DEFINE a == [id |-> 0, active |-> TRUE, region |-> None, queue |-> None, ip |-> None]
             b == Over(FreshSettings, FreshChannel)
  <1>1. Fresh = Over(a, b)
    BY DEF Fresh
  <1>2. /\ DOMAIN a = {"id", "active", "region", "queue", "ip"}
        /\ a["id"] = 0 /\ a["active"] = TRUE /\ a["region"] = None /\ a["queue"] = None /\ a["ip"] = None
    OBVIOUS
  <1>3. /\ DOMAIN FreshSettings = {"sched", "remindOff", "remindOn", "factOff", "factOn", "other"}
        /\ FreshSettings["sched"] = TRUE /\ FreshSettings["remindOff"] = TRUE
        /\ FreshSettings["remindOn"] = TRUE /\ FreshSettings["factOff"] = TRUE
        /\ FreshSettings["factOn"] = TRUE /\ FreshSettings["other"] = FALSE
    BY DEF FreshSettings
  <1>4. /\ DOMAIN FreshChannel = {"chan", "title", "status", "paused", "chFactOff", "chFactOn", "chOther"}
        /\ FreshChannel["chan"] = None /\ FreshChannel["title"] = None /\ FreshChannel["status"] = "active"
        /\ FreshChannel["paused"] = FALSE /\ FreshChannel["chFactOff"] = TRUE
        /\ FreshChannel["chFactOn"] = TRUE /\ FreshChannel["chOther"] = FALSE
    BY DEF FreshChannel
  <1> HIDE DEF a
  <1>5. /\ DOMAIN b = DOMAIN FreshSettings \cup DOMAIN FreshChannel
        /\ \A k \in DOMAIN FreshSettings : b[k] = FreshSettings[k]
        /\ \A k \in DOMAIN FreshChannel : b[k] = FreshChannel[k]
    <2>1. \A k \in DOMAIN FreshChannel : k \notin DOMAIN FreshSettings
      BY <1>3, <1>4
    <2> QED
      BY <2>1 DEF Over
  <1> HIDE DEF b
  <1>6. /\ DOMAIN Fresh = DOMAIN a \cup DOMAIN FreshSettings \cup DOMAIN FreshChannel
        /\ \A k \in DOMAIN a : Fresh[k] = a[k]
        /\ \A k \in DOMAIN FreshSettings : Fresh[k] = FreshSettings[k]
        /\ \A k \in DOMAIN FreshChannel : Fresh[k] = FreshChannel[k]
    <2>1. \A k \in DOMAIN b : k \notin DOMAIN a
      BY <1>2, <1>3, <1>4, <1>5
    <2>2. /\ DOMAIN Fresh = DOMAIN a \cup DOMAIN b
          /\ \A k \in DOMAIN a : Fresh[k] = a[k]
          /\ \A k \in DOMAIN b : Fresh[k] = b[k]
      BY <1>1, <2>1 DEF Over
    <2> QED
      BY <1>5, <2>2
  <1>7. /\ Fresh["factOff"] = Fresh["factOn"] /\ Fresh["chFactOff"] = Fresh["chFactOn"]
        /\ Fresh["chan"] = None /\ Fresh["id"] = 0
    <2>1. Fresh["factOff"] = TRUE /\ Fresh["factOn"] = TRUE
      BY <1>3, <1>6
    <2>2. Fresh["chFactOff"] = TRUE /\ Fresh["chFactOn"] = TRUE /\ Fresh["chan"] = None
      BY <1>4, <1>6
    <2>3. Fresh["id"] = 0
      BY <1>2, <1>6
    <2> QED
      BY <2>1, <2>2, <2>3
  <1>8. \A k \in DOMAIN Fresh : Fresh[k] \in Values
    <2>1. TRUE \in Values /\ FALSE \in Values /\ 0 \in Values /\ None \in Values /\ "active" \in Values
      BY DEF Values
    <2> HIDE DEF Values
    <2>2. \A k \in DOMAIN a : Fresh[k] \in Values
      BY <1>2, <1>6, <2>1
    <2>3. \A k \in DOMAIN FreshSettings : FreshSettings[k] \in Values
      BY <1>3, <2>1
    <2>4. \A k \in DOMAIN FreshChannel : FreshChannel[k] \in Values
      BY <1>4, <2>1
    <2> QED
      BY <1>6, <2>2, <2>3, <2>4
  <1>9. Fresh = [k \in DOMAIN Fresh |-> Fresh[k]]
    BY DEF Fresh, Over
  <1> QED
    BY <1>2, <1>3, <1>4, <1>6, <1>7, <1>8, <1>9 DEF Columns, Rows

LEMMA TalkIs ==
  ASSUME NEW then
  PROVE  /\ DOMAIN Talk(then) = Fields /\ Talk(then).pc = "answer" /\ Talk(then).then = then
         /\ Talk(then).id = None /\ Talk(then).dirty = Nothing /\ Talk(then).erase = FALSE
         /\ Talk(then).alert = "keep" /\ Talk(then).pending = Nothing /\ Talk(then).lost = None
  BY IdleIs DEF Talk, Fields

Changing(l, u, new, then) ==
  /\ DOMAIN l = Fields /\ l.pc \in {"commit", "answer"} /\ l.then = then
  /\ l.id = row[u].id /\ l.dirty = Dirty(row[u], new) /\ l.erase = FALSE
  /\ l.alert = "keep" /\ l.pending = Nothing /\ l.lost = None

LEMMA ChangeIs ==
  ASSUME NEW u, NEW new, NEW then
  PROVE  Changing(Change(u, new, then), u, new, then)
  BY IdleIs DEF Change, Changing, Fields
-----------------------------------------------------------------------------
(* What a handler can be about to do                                       *)

Slots == {"state", "region", "queue", "mode"}

LEMMA ClearedIs ==
  /\ DOMAIN Cleared = Slots /\ Cleared["state"] = None /\ Cleared["region"] = None
  /\ Cleared["queue"] = None /\ Cleared["mode"] = None
  BY DEF Cleared, Slots

\* What is put into a conversation.
Told(f) ==
  /\ DOMAIN f \subseteq Slots
  /\ "region" \in DOMAIN f => f["region"] \in Regions \cup {None}
  /\ "queue" \in DOMAIN f => f["queue"] \in Values

\* The steps of the wizard have their data.
Ready(f) ==
  /\ f["state"] \in {"queue"} \cup Choosing => f["region"] # None
  /\ f["state"] \in Choosing => f["queue"] \in QueuesOf[f["region"]]

\* Columns that are written: the flags that are one switch go together.
Agrees(f) ==
  /\ "factOff" \in DOMAIN f <=> "factOn" \in DOMAIN f
  /\ "factOff" \in DOMAIN f => f["factOff"] = f["factOn"]
  /\ "chFactOff" \in DOMAIN f <=> "chFactOn" \in DOMAIN f
  /\ "chFactOff" \in DOMAIN f => f["chFactOff"] = f["chFactOn"]

Written(f) == DOMAIN f \subseteq Columns \ {"id"} /\ (\A c \in DOMAIN f : f[c] \in Values) /\ Agrees(f)

Newborn(f) == f \in Rows /\ \A c \in Columns \ {"id", "region", "queue"} : f[c] = Fresh[c]

\* It leaves the rows alone, and the pending channels, but for dropping some.
Quiet(l) ==
  /\ l.dirty = Nothing /\ l.id = None /\ ~ l.erase /\ l.pc # "flush"
  /\ \A c \in DOMAIN l.pending : l.pending[c] = None

\* It changes columns of the row of u it has loaded.
Changes(l, u, new) ==
  /\ row[u] # None /\ Written(new)
  /\ l.id = row[u].id /\ l.dirty = Dirty(row[u], new) /\ ~ l.erase

Plain(l, u) ==
  \E new : Changes(l, u, new) /\ DOMAIN new \cap {"chan", "region", "queue"} = {} /\ l.pending = Nothing

Moves(l, u) ==
  \E new : /\ Changes(l, u, new) /\ DOMAIN new = {"active", "region", "queue"} /\ l.pending = Nothing
           /\ Ready(fsm[u]) => new["queue"] \in QueuesOf[new["region"]]

Creates(l, u) ==
  /\ row[u] = None /\ l.id = None /\ l.pc = "flush" /\ ~ l.erase /\ l.pending = Nothing
  /\ Newborn(l.dirty)
  /\ Ready(fsm[u]) => l.dirty["queue"] \in QueuesOf[l.dirty["region"]]

Erases(l, u) ==
  row[u] # None /\ l.id = row[u].id /\ l.erase /\ l.dirty = Nothing /\ l.pending = Nothing

Retires(l) ==
  l.id = AnyLife /\ l.dirty = [active |-> FALSE] /\ ~ l.erase /\ l.pending = Nothing

Links(l, u) ==
  \E c \in Channels : /\ pending[c] = u
                      /\ Changes(l, u, Linked(c)) /\ l.pending = DropsPending(c)

Leaves(l, u) == Changes(l, u, GivenUp) /\ l.pending = Nothing

Kind(l, u) ==
  /\ DOMAIN l = Fields /\ l.pc \in {"flush", "answer", "commit"} /\ l.lost = None
  /\ l.alert \in {"keep", "stop"} \cup Addresses
  /\ Told(l.then)
  /\ \A c \in DOMAIN l.pending : c \in Channels
  /\ Quiet(l) \/ Plain(l, u) \/ Moves(l, u) \/ Creates(l, u) \/ Erases(l, u) \/ Retires(l) \/ Links(l, u) \/ Leaves(l, u)

Begins(h, u, l) ==
  /\ loc[h].pc = "idle" /\ u \in Users
  /\ loc' = [loc EXCEPT ![h] = [l EXCEPT !.user = u]]
  /\ mixed' = (mixed \/ Busy)
  /\ touched' = IF row[u] = None THEN touched ELSE touched \cup {u}
  /\ UNCHANGED <<dbVars, switchedOff>>

\* h begins to handle a button or a text of u.
Opened(h, u, l) ==
  /\ Begins(h, u, l) /\ Kind(l, u)
  /\ UNCHANGED <<accountVars, channelVars>>
  /\ UNCHANGED fsm \/ fsm' = [fsm EXCEPT ![u] = Cleared]
  /\ Ready(fsm[u]) => Ready(fsm'[u]) /\ Ready(Over(l.then, fsm'[u]))

\* What is always so, as far as it does not depend on who works when: the types, the
\* flags, and that who has a channel has added the bot to it.
Base ==
  /\ lives \in Nat \ {0}
  /\ row \in [Users -> Rows \cup {None}]
  /\ \A u \in Users : row[u] # None =>
       /\ row[u].id \in 1..lives /\ Agrees(row[u])
       /\ row[u].chan # None => row[u].chan \in Channels /\ <<u, row[u].chan>> \in addedBy
  /\ alert \in [Users -> Alerts \cup {None}]
  /\ pending \in [Channels -> Users \cup {None}]
  /\ \A c \in Channels : pending[c] # None => <<pending[c], c>> \in addedBy
  /\ DOMAIN fsm = Users /\ \A u \in Users : Told(fsm[u]) /\ DOMAIN fsm[u] = Slots
  /\ DOMAIN loc = Handlers
  /\ updates \in Seq([chan : Channels, by : Users \cup {None}, added : BOOLEAN])
  /\ \A i \in DOMAIN updates : updates[i].added => updates[i].by \in Users /\ <<updates[i].by, updates[i].chan>> \in addedBy

LEMMA RowIs ==
  ASSUME Base, NEW u \in Users, row[u] # None
  PROVE  /\ DOMAIN row[u] = Columns /\ \A c \in Columns : row[u][c] \in Values
         /\ row[u]["factOff"] = row[u]["factOn"] /\ row[u]["chFactOff"] = row[u]["chFactOn"]
  <1>1. row[u] \in Rows /\ Agrees(row[u])
    BY DEF Base
  <1> QED
    BY <1>1, FreshIs DEF Rows, Agrees

LEMMA BooleanValues == BOOLEAN \subseteq Values /\ None \in Values /\ Addresses \subseteq Values /\ Channels \subseteq Values
                       /\ Regions \subseteq Values /\ "active" \in Values /\ "disconnected" \in Values
                       /\ Nat \subseteq Values /\ \A r \in Regions : QueuesOf[r] \subseteq Values
  BY DEF Values

LEMMA OverTold ==
  ASSUME NEW new, NEW f, Told(new), Told(f), DOMAIN f = Slots
  PROVE  Told(Over(new, f)) /\ DOMAIN Over(new, f) = Slots
  BY DEF Over, Told, Slots

\* It takes the wizard to no step that needs data.
Calm(then) == then = Nothing \/ ("state" \in DOMAIN then /\ then["state"] \notin {"queue"} \cup Choosing)

LEMMA CalmIsReady ==
  ASSUME NEW then, Calm(then), NEW f, DOMAIN f = Slots
  PROVE  Ready(f) => Ready(Over(then, f))
  <1>1. CASE then = Nothing
    BY <1>1, NothingIs DEF Over, Ready, Slots
  <1>2. CASE "state" \in DOMAIN then /\ then["state"] \notin {"queue"} \cup Choosing
    <2>1. Over(then, f)["state"] = then["state"]
      BY <1>2 DEF Over
    <2> QED
      BY <1>2, <2>1 DEF Ready
  <1> QED
    BY <1>1, <1>2 DEF Calm

LEMMA ClearedIsCalm == Calm(Cleared)
  BY ClearedIs, NoneAssumption DEF Calm, Slots, States, Choosing

LEMMA ClearedIsReady == Ready(Cleared) /\ Told(Cleared)
  <1>1. None \notin {"queue"} \cup Choosing
    BY NoneAssumption DEF States, Choosing
  <1> QED
    BY <1>1, ClearedIs, BooleanValues DEF Ready, Told

\* The columns that are neither flags of one switch nor what properties are about.
Others == {"active", "ip", "sched", "remindOff", "remindOn", "other", "title", "status", "paused", "chOther"}

LEMMA OtherIsWritten ==
  ASSUME NEW new, DOMAIN new \subseteq Others, \A c \in DOMAIN new : new[c] \in Values
  PROVE  Written(new) /\ DOMAIN new \cap {"chan", "region", "queue"} = {}
  <1>1. /\ Others \subseteq Columns \ {"id"}
        /\ Others \cap {"chan", "region", "queue", "factOff", "factOn", "chFactOff", "chFactOn"} = {}
    BY FreshIs DEF Others
  <1> QED
    BY <1>1 DEF Written, Agrees

LEMMA NothingTold == Told(Nothing) /\ Calm(Nothing)
  BY NothingIs DEF Told, Calm

LEMMA OpenBegins ==
  ASSUME Base, NEW h \in Handlers, NEW u \in Users, NEW k, NEW l, Open(h, u, k, l)
  PROVE  Begins(h, u, l)
  BY DEF Open, Begins, dbVars

\* The conversation, when it stays or is cleared at once.
LEMMA TellsReady ==
  ASSUME Base, NEW u \in Users, NEW then, Calm(then), UNCHANGED fsm \/ fsm' = [fsm EXCEPT ![u] = Cleared]
  PROVE  Ready(fsm[u]) => Ready(fsm'[u]) /\ Ready(Over(then, fsm'[u]))
  <1>1. fsm'[u] = fsm[u] \/ fsm'[u] = Cleared
    BY DEF Base
  <1>2. DOMAIN fsm'[u] = Slots
    BY <1>1, ClearedIs DEF Base
  <1>3. Ready(fsm[u]) => Ready(fsm'[u])
    BY <1>1, ClearedIsReady
  <1> QED
    BY <1>2, <1>3, CalmIsReady

\* It only talks.
LEMMA TalkOpens ==
  ASSUME Base, NEW h \in Handlers, NEW u \in Users, NEW k, NEW then, Open(h, u, k, Talk(then)), Told(then),
         UNCHANGED <<accountVars, channelVars>>, UNCHANGED fsm \/ fsm' = [fsm EXCEPT ![u] = Cleared],
         Ready(fsm[u]) => Ready(fsm'[u]) /\ Ready(Over(then, fsm'[u]))
  PROVE  \E l : Opened(h, u, l)
  <1>1. Kind(Talk(then), u)
    BY TalkIs, NothingIs DEF Kind, Quiet
  <1>2. Talk(then).then = then
    BY TalkIs
  <1> QED
    BY <1>1, <1>2, OpenBegins DEF Opened

\* It does nothing.
LEMMA SilenceOpens ==
  ASSUME Base, NEW h \in Handlers, NEW u \in Users, NEW k, Open(h, u, k, [Idle EXCEPT !.pc = "commit"]),
         UNCHANGED <<accountVars, channelVars>>, UNCHANGED fsm \/ fsm' = [fsm EXCEPT ![u] = Cleared]
  PROVE  \E l : Opened(h, u, l)
  <1> DEFINE l == [Idle EXCEPT !.pc = "commit"]
  <1>1. /\ DOMAIN l = Fields /\ l.pc = "commit" /\ l.id = None /\ l.dirty = Nothing /\ l.erase = FALSE
        /\ l.then = Nothing /\ l.alert = "keep" /\ l.pending = Nothing /\ l.lost = None
    BY IdleIs DEF Fields
  <1>2. Begins(h, u, l)
    BY OpenBegins
  <1> HIDE DEF l
  <1>3. Kind(l, u) /\ Calm(l.then)
    BY <1>1, NothingIs DEF Kind, Quiet, Told, Calm
  <1>4. Ready(fsm[u]) => Ready(fsm'[u]) /\ Ready(Over(l.then, fsm'[u]))
    BY <1>3, TellsReady
  <1> QED
    BY <1>2, <1>3, <1>4 DEF Opened

\* It changes settings.
LEMMA PlainOpens ==
  ASSUME Base, NEW h \in Handlers, NEW u \in Users, NEW k, NEW new, NEW then,
         row[u] # None, Written(new), DOMAIN new \cap {"chan", "region", "queue"} = {},
         Told(then), Calm(then), UNCHANGED <<accountVars, channelVars>>,
         UNCHANGED fsm \/ fsm' = [fsm EXCEPT ![u] = Cleared],
         NEW l, Open(h, u, k, l), DOMAIN l = Fields, l.pc \in {"flush", "answer", "commit"},
         l.id = row[u].id, l.dirty = Dirty(row[u], new), l.erase = FALSE, l.then = then,
         l.alert \in {"keep", "stop"} \cup Addresses, l.pending = Nothing, l.lost = None
  PROVE  \E m : Opened(h, u, m)
  <1>1. Plain(l, u)
    BY DEF Plain, Changes
  <1>2. Kind(l, u)
    BY <1>1, NothingIs DEF Kind
  <1>3. Ready(fsm[u]) => Ready(fsm'[u]) /\ Ready(Over(l.then, fsm'[u]))
    BY TellsReady
  <1> QED
    BY <1>2, <1>3, OpenBegins DEF Opened

LEMMA ChangeOpens ==
  ASSUME Base, NEW h \in Handlers, NEW u \in Users, NEW k, NEW new, NEW then,
         row[u] # None, Written(new), DOMAIN new \cap {"chan", "region", "queue"} = {},
         Told(then), Calm(then), UNCHANGED <<accountVars, channelVars>>,
         UNCHANGED fsm \/ fsm' = [fsm EXCEPT ![u] = Cleared],
         Open(h, u, k, Change(u, new, then))
  PROVE  \E l : Opened(h, u, l)
  <1>1. PICK l : l = Change(u, new, then)
    OBVIOUS
  <1>2. Changing(l, u, new, then)
    BY <1>1, ChangeIs
  <1>3. /\ DOMAIN l = Fields /\ l.pc \in {"flush", "answer", "commit"} /\ l.id = row[u].id
        /\ l.dirty = Dirty(row[u], new) /\ l.erase = FALSE /\ l.then = then
        /\ l.alert = "keep" /\ l.pending = Nothing /\ l.lost = None
    BY <1>2 DEF Changing
  <1> QED
    BY <1>1, <1>3, PlainOpens
-----------------------------------------------------------------------------
(* The handlers of a user's record                                         *)

LEMMA StartOpens ==
  ASSUME Base, UNCHANGED channelVars, NEW h \in Handlers, NEW u \in Users,
         \/ CmdStart(h, u) \/ CreateNewProfile(h, u) \/ SettingsRegionConfirm(h, u) \/ ChangeQueue(h, u)
  PROVE  \E l : Opened(h, u, l)
  <1>1. ASSUME NEW mode, Open(h, u, "start", Talk(AskRegion(mode))), UNCHANGED accountVars,
               UNCHANGED fsm \/ fsm' = [fsm EXCEPT ![u] = Cleared]
        PROVE  \E l : Opened(h, u, l)
    <2> DEFINE then == [state |-> "region", mode |-> mode]
    <2>1. Told(then) /\ Calm(then)
      BY DEF Told, Slots, Calm, Choosing
    <2>2. Open(h, u, "start", Talk(then))
      BY <1>1 DEF AskRegion
    <2> HIDE DEF then
    <2>3. Ready(fsm[u]) => Ready(fsm'[u]) /\ Ready(Over(then, fsm'[u]))
      BY <1>1, <2>1, TellsReady
    <2> QED
      BY <1>1, <2>1, <2>2, <2>3, TalkOpens
  <1>2. CASE CmdStart(h, u)
    BY <1>1, <1>2, SilenceOpens DEF CmdStart
  <1>3. CASE CreateNewProfile(h, u) \/ SettingsRegionConfirm(h, u) \/ ChangeQueue(h, u)
    BY <1>1, <1>3 DEF CreateNewProfile, SettingsRegionConfirm, ChangeQueue, Begin
  <1> QED
    BY <1>2, <1>3

LEMMA RestoreOpens ==
  ASSUME Base, UNCHANGED channelVars, NEW h \in Handlers, NEW u \in Users, RestoreProfile(h, u)
  PROVE  \E l : Opened(h, u, l)
  <1> DEFINE new == [active |-> TRUE]
  <1>1. Written(new) /\ DOMAIN new \cap {"chan", "region", "queue"} = {}
    <2>1. DOMAIN new = {"active"} /\ new["active"] = TRUE
      OBVIOUS
    <2> HIDE DEF new
    <2> QED
      BY <2>1, OtherIsWritten, BooleanValues DEF Others
  <1>2. row[u] # None /\ Open(h, u, "start", Change(u, new, Nothing)) /\ UNCHANGED <<fsm, accountVars>>
    BY DEF RestoreProfile
  <1> HIDE DEF new
  <1> QED
    BY <1>1, <1>2, NothingTold, ChangeOpens

LEMMA NewProfileOpens ==
  ASSUME Base, UNCHANGED channelVars, NEW h \in Handlers, NEW u \in Users, NEW region, NEW queue, NEW then,
         Open(h, u, "wizard", Create(u, region, queue, then)), UNCHANGED <<fsm, accountVars>>,
         region \in Values, queue \in Values, Ready(fsm[u]) => queue \in QueuesOf[region],
         Told(then), Ready(fsm[u]) => Ready(Over(then, fsm[u]))
  PROVE  \E l : Opened(h, u, l)
  <1>1. PICK l : l = Create(u, region, queue, then)
    OBVIOUS
  <1>2. Begins(h, u, l)
    BY <1>1, OpenBegins
  <1>3. CASE row[u] # None
    <2> DEFINE new == [active |-> TRUE, region |-> region, queue |-> queue]
    <2>1. l = Change(u, new, then)
      BY <1>1, <1>3 DEF Create
    <2>2. /\ DOMAIN new = {"active", "region", "queue"} /\ new["active"] = TRUE
          /\ new["region"] = region /\ new["queue"] = queue
      OBVIOUS
    <2> HIDE DEF new
    <2>7. Changing(l, u, new, then)
      BY <2>1, ChangeIs
    <2>3. /\ DOMAIN l = Fields /\ l.pc \in {"commit", "answer"} /\ l.then = then
          /\ l.id = row[u].id /\ l.dirty = Dirty(row[u], new) /\ l.erase = FALSE
          /\ l.alert = "keep" /\ l.pending = Nothing /\ l.lost = None
      BY <2>7 DEF Changing
    <2>4. Written(new)
      BY <2>2, FreshIs, BooleanValues DEF Written, Agrees
    <2>5. Moves(l, u)
      BY <1>3, <2>2, <2>3, <2>4 DEF Moves, Changes
    <2>6. Kind(l, u)
      BY <2>3, <2>5, NothingIs DEF Kind
    <2> QED
      BY <1>2, <2>3, <2>6 DEF Opened
  <1>4. CASE row[u] = None
    <2> DEFINE new == [Fresh EXCEPT !.region = region, !.queue = queue]
    <2>1. l = [Idle EXCEPT !.pc = "flush", !.dirty = new, !.then = then]
      BY <1>1, <1>4 DEF Create
    <2>2. Newborn(new) /\ new["region"] = region /\ new["queue"] = queue
      <3>1. /\ DOMAIN new = Columns /\ new["region"] = region /\ new["queue"] = queue
            /\ \A c \in Columns \ {"region", "queue"} : new[c] = Fresh[c]
        BY FreshIs
      <3>2. new = [c \in Columns |-> new[c]]
        BY FreshIs
      <3> HIDE DEF new
      <3>3. \A c \in Columns : new[c] \in Values
        BY <3>1, FreshIs DEF Rows
      <3> QED
        BY <3>1, <3>2, <3>3 DEF Newborn, Rows
    <2> HIDE DEF new
    <2>3. /\ DOMAIN l = Fields /\ l.pc = "flush" /\ l.then = then /\ l.dirty = new /\ l.id = None
          /\ l.erase = FALSE /\ l.alert = "keep" /\ l.pending = Nothing /\ l.lost = None
      BY <2>1, IdleIs DEF Fields
    <2>4. Creates(l, u)
      BY <1>4, <2>2, <2>3 DEF Creates
    <2>5. Kind(l, u)
      BY <2>3, <2>4, NothingIs DEF Kind
    <2> QED
      BY <1>2, <2>3, <2>5 DEF Opened
  <1> QED
    BY <1>3, <1>4

LEMMA StepsOpen ==
  ASSUME Base, UNCHANGED channelVars, NEW h \in Handlers, NEW u \in Users,
         \/ WizardRegion(h, u) \/ WizardQueue(h, u) \/ BackToRegion(h, u)
         \/ WizardNotifyBack(h, u) \/ WizardBotDone(h, u)
  PROVE  \E l : Opened(h, u, l)
  <1>1. DOMAIN fsm[u] = Slots /\ Told(fsm[u]) /\ "state" \in Slots /\ "region" \in Slots /\ "queue" \in Slots
    BY DEF Base, Slots
  <1>2. ASSUME NEW then, Wizard(h, u, Talk(then)), Told(then), Ready(fsm[u]) => Ready(Over(then, fsm[u]))
        PROVE  \E l : Opened(h, u, l)
    BY <1>2, TalkOpens DEF Wizard
  <1>3. CASE WizardRegion(h, u)
    <2>1. PICK r \in Regions : Wizard(h, u, Talk([region |-> r, state |-> "queue"]))
      BY <1>3 DEF WizardRegion
    <2> DEFINE then == [region |-> r, state |-> "queue"]
    <2>2. DOMAIN then = {"region", "state"} /\ then["region"] = r /\ then["state"] = "queue"
      OBVIOUS
    <2> HIDE DEF then
    <2>3. Told(then)
      BY <2>2 DEF Told, Slots
    <2>4. Over(then, fsm[u])["state"] = "queue" /\ Over(then, fsm[u])["region"] = r
      BY <2>2 DEF Over
    <2>5. r # None /\ "queue" \notin Choosing
      BY SessionsAssumption DEF Choosing
    <2>6. Ready(Over(then, fsm[u]))
      BY <2>4, <2>5 DEF Ready
    <2> QED
      BY <1>2, <2>1, <2>3, <2>6 DEF then
  <1>4. CASE WizardQueue(h, u)
    <2>1. PICK q \in AllowedQueues(u), s \in {"notify_target", "confirm"} : Wizard(h, u, Talk([queue |-> q, state |-> s]))
      BY <1>4 DEF WizardQueue
    <2> DEFINE then == [queue |-> q, state |-> s]
    <2>2. DOMAIN then = {"queue", "state"} /\ then["queue"] = q /\ then["state"] = s
      OBVIOUS
    <2> HIDE DEF then
    <2>3. Region(u) \in Regions
      BY <1>1, SessionsAssumption DEF Region, Told
    <2>4. Told(then)
      BY <2>2, <2>3, BooleanValues DEF Told, Slots, AllowedQueues
    <2>5. /\ Over(then, fsm[u])["state"] = s /\ Over(then, fsm[u])["queue"] = q
          /\ Over(then, fsm[u])["region"] = fsm[u]["region"]
      BY <1>1, <2>2 DEF Over
    <2>6. Ready(fsm[u]) => fsm[u]["region"] # None
      BY <1>4 DEF WizardQueue, Ready
    <2>7. Ready(fsm[u]) => Ready(Over(then, fsm[u]))
      BY <2>5, <2>6 DEF Ready, AllowedQueues, Region
    <2> QED
      BY <1>2, <2>1, <2>4, <2>7 DEF then
  <1>5. CASE BackToRegion(h, u)
    <2> DEFINE then == [state |-> "region"]
    <2>1. Told(then) /\ Calm(then)
      BY DEF Told, Slots, Calm, Choosing
    <2>2. Wizard(h, u, Talk(then))
      BY <1>5 DEF BackToRegion, Back
    <2> HIDE DEF then
    <2>3. Ready(fsm[u]) => Ready(Over(then, fsm[u]))
      BY <1>1, <2>1, CalmIsReady
    <2> QED
      BY <1>2, <2>1, <2>2, <2>3
  <1>6. CASE WizardNotifyBack(h, u)
    <2> DEFINE then == [state |-> "notify_target"]
    <2>1. DOMAIN then = {"state"} /\ then["state"] = "notify_target"
      OBVIOUS
    <2>2. Wizard(h, u, Talk(then)) /\ fsm[u]["state"] = "bot_notifications"
      BY <1>6 DEF WizardNotifyBack
    <2> HIDE DEF then
    <2>3. Told(then)
      BY <2>1 DEF Told, Slots
    <2>4. /\ Over(then, fsm[u])["region"] = fsm[u]["region"] /\ Over(then, fsm[u])["queue"] = fsm[u]["queue"]
          /\ Over(then, fsm[u])["state"] = "notify_target"
      BY <1>1, <2>1 DEF Over
    <2>5. Ready(fsm[u]) => Ready(Over(then, fsm[u]))
      BY <2>2, <2>4 DEF Ready, Choosing
    <2> QED
      BY <1>2, <2>2, <2>3, <2>5
  <1>7. CASE WizardBotDone(h, u)
    <2>1. Wizard(h, u, Talk(Cleared))
      BY <1>7 DEF WizardBotDone
    <2> QED
      BY <1>1, <1>2, <2>1, ClearedIsReady, ClearedIsCalm, CalmIsReady
  <1> QED
    BY <1>3, <1>4, <1>5, <1>6, <1>7

LEMMA RegisterOpens ==
  ASSUME Base, UNCHANGED channelVars, NEW h \in Handlers, NEW u \in Users,
         WizardNotifyBot(h, u) \/ WizardNotifyChannel(h, u) \/ WizardConfirm(h, u)
  PROVE  \E l : Opened(h, u, l)
  <1>1. /\ DOMAIN fsm[u] = Slots /\ Told(fsm[u]) /\ "state" \in Slots /\ "region" \in Slots /\ "queue" \in Slots
        /\ fsm[u]["region"] \in Values /\ fsm[u]["queue"] \in Values
    BY BooleanValues DEF Base, Slots, Told
  <1>2. ASSUME NEW next \in {"bot_notifications", "channel_setup"}, Register(h, u, next)
        PROVE  \E l : Opened(h, u, l)
    <2> DEFINE then == [state |-> next]
    <2>1. DOMAIN then = {"state"} /\ then["state"] = next
      OBVIOUS
    <2>2. fsm[u]["state"] = "notify_target" /\ UNCHANGED <<fsm, accountVars>>
      BY <1>2 DEF Register, Wizard
    <2>3. \/ Open(h, u, "wizard", [Idle EXCEPT !.pc = "commit"])
          \/ Open(h, u, "wizard", Create(u, fsm[u]["region"], fsm[u]["queue"], then))
      BY <1>2 DEF Register, Wizard
    <2> HIDE DEF then
    <2>4. Told(then)
      BY <2>1 DEF Told, Slots
    <2>5. /\ Over(then, fsm[u])["region"] = fsm[u]["region"] /\ Over(then, fsm[u])["queue"] = fsm[u]["queue"]
          /\ Over(then, fsm[u])["state"] = next
      BY <1>1, <2>1 DEF Over
    <2>6. Ready(fsm[u]) => Ready(Over(then, fsm[u])) /\ fsm[u]["queue"] \in QueuesOf[fsm[u]["region"]]
      BY <2>2, <2>5 DEF Ready, Choosing
    <2> QED
      BY <1>1, <2>2, <2>3, <2>4, <2>6, SilenceOpens, NewProfileOpens
  <1>3. CASE WizardConfirm(h, u)
    <2>1. /\ fsm[u]["state"] = "confirm" /\ UNCHANGED <<fsm, accountVars>>
          /\ Open(h, u, "wizard", Create(u, fsm[u]["region"], fsm[u]["queue"], Cleared))
      BY <1>3 DEF WizardConfirm, Wizard
    <2>2. Ready(fsm[u]) => Ready(Over(Cleared, fsm[u]))
      BY <1>1, ClearedIsCalm, CalmIsReady
    <2>3. Ready(fsm[u]) => fsm[u]["queue"] \in QueuesOf[fsm[u]["region"]]
      BY <2>1 DEF Ready, Choosing
    <2> QED
      BY <1>1, <2>1, <2>2, <2>3, ClearedIsReady, NewProfileOpens
  <1> QED
    BY <1>2, <1>3 DEF WizardNotifyBot, WizardNotifyChannel

LEMMA FlipIsWritten ==
  ASSUME NEW r, NEW c \in Others
  PROVE  Written(Flip(r, c)) /\ DOMAIN Flip(r, c) \cap {"chan", "region", "queue"} = {}
  <1>1. DOMAIN Flip(r, c) = {c}
    BY DEF Flip
  <1>2. \A d \in DOMAIN Flip(r, c) : Flip(r, c)[d] \in BOOLEAN
    BY DEF Flip
  <1> QED
    BY <1>1, <1>2, OtherIsWritten, BooleanValues

\* Several switches that get one value.
LEMMA SameIsWritten ==
  ASSUME NEW S, NEW v \in BOOLEAN, S \subseteq Columns \ {"id", "chan", "region", "queue"},
         "factOff" \in S <=> "factOn" \in S, "chFactOff" \in S <=> "chFactOn" \in S,
         NEW new, new = [c \in S |-> v]
  PROVE  Written(new) /\ DOMAIN new \cap {"chan", "region", "queue"} = {}
  BY BooleanValues DEF Written, Agrees

LEMMA SwitchesAreWritten ==
  ASSUME NEW r,
         NEW new \in NotifToggle(r) \cup NotifSchedule(r) \cup NotifTime(r) \cup NotifTarget(r)
                     \cup AlertToggle(r) \cup ChNotif(r) \cup Cleanup(r) \cup WizardFlags(r)
  PROVE  Written(new) /\ DOMAIN new \cap {"chan", "region", "queue"} = {}
  <1>1. ASSUME NEW c \in Others, new = Flip(r, c)
        PROVE  Written(new) /\ DOMAIN new \cap {"chan", "region", "queue"} = {}
    BY <1>1, FlipIsWritten
  <1>2. ASSUME NEW v, new = [c \in {"factOff", "factOn"} |-> ~ v]
        PROVE  Written(new) /\ DOMAIN new \cap {"chan", "region", "queue"} = {}
    <2>1. {"factOff", "factOn"} \subseteq Columns \ {"id", "chan", "region", "queue"}
      BY FreshIs
    <2>2. (~ v) \in BOOLEAN
      OBVIOUS
    <2> QED
      BY <1>2, <2>1, <2>2, SameIsWritten
  <1>3. ASSUME NEW v, new = [c \in {"chFactOff", "chFactOn"} |-> ~ v]
        PROVE  Written(new) /\ DOMAIN new \cap {"chan", "region", "queue"} = {}
    <2>1. {"chFactOff", "chFactOn"} \subseteq Columns \ {"id", "chan", "region", "queue"}
      BY FreshIs
    <2>2. (~ v) \in BOOLEAN
      OBVIOUS
    <2> QED
      BY <1>3, <2>1, <2>2, SameIsWritten
  <1>4. ASSUME NEW v, new = [c \in {"sched", "remindOff", "factOff", "remindOn", "factOn"} |-> ~ v]
        PROVE  Written(new) /\ DOMAIN new \cap {"chan", "region", "queue"} = {}
    <2>1. PICK S : S = {"sched", "remindOff", "factOff", "remindOn", "factOn"}
      OBVIOUS
    <2>2. S \subseteq Columns \ {"id", "chan", "region", "queue"}
      BY <2>1, FreshIs
    <2>3. "factOff" \in S /\ "factOn" \in S /\ "chFactOff" \notin S /\ "chFactOn" \notin S
      BY <2>1
    <2>4. PICK w \in BOOLEAN : new = [c \in S |-> w]
      BY <1>4, <2>1
    <2> QED
      BY <2>2, <2>3, <2>4, SameIsWritten
  <1>5. {"sched", "other", "remindOff", "remindOn", "chOther"} \subseteq Others
    BY DEF Others
  <1> QED
    BY <1>1, <1>2, <1>3, <1>4, <1>5
       DEF NotifToggle, NotifSchedule, NotifTime, NotifTarget, AlertToggle, ChNotif, Cleanup, WizardFlags, BothFacts

LEMMA SwitchesOpen ==
  ASSUME Base, UNCHANGED channelVars, NEW h \in Handlers, NEW u \in Users,
         Notifications(h, u) \/ WizardToggle(h, u)
  PROVE  \E l : Opened(h, u, l)
  <1>1. PICK new, k : /\ Open(h, u, k, Change(u, new, Nothing)) /\ row[u] # None /\ UNCHANGED <<fsm, accountVars>>
                      /\ Written(new) /\ DOMAIN new \cap {"chan", "region", "queue"} = {}
    <2>1. CASE Notifications(h, u)
      <3>1. PICK new \in NotifToggle(row[u]) \cup NotifSchedule(row[u]) \cup NotifTime(row[u]) \cup NotifTarget(row[u])
                         \cup AlertToggle(row[u]) \cup ChNotif(row[u]) \cup Cleanup(row[u]) :
              Settings(h, u, new) /\ UNCHANGED accountVars
        BY <2>1 DEF Notifications
      <3> QED
        BY <3>1, SwitchesAreWritten DEF Settings
    <2>2. CASE WizardToggle(h, u)
      <3>1. PICK new \in WizardFlags(row[u]) : Wizard(h, u, Change(u, new, Nothing))
        BY <2>2 DEF WizardToggle
      <3> QED
        BY <2>2, <3>1, SwitchesAreWritten DEF WizardToggle, Wizard
    <2> QED
      BY <2>1, <2>2
  <1> QED
    BY <1>1, NothingTold, ChangeOpens

LEMMA DeletionOpens ==
  ASSUME Base, UNCHANGED channelVars, NEW h \in Handlers, NEW u \in Users,
         ConfirmDelete(h, u) \/ ConfirmDeactivate(h, u)
  PROVE  \E l : Opened(h, u, l)
  <1>1. UNCHANGED <<fsm, accountVars>> /\ (Ready(fsm[u]) => Ready(fsm'[u]) /\ Ready(Over(Nothing, fsm'[u])))
    BY NothingTold, TellsReady DEF ConfirmDelete, ConfirmDeactivate
  <1>2. CASE ConfirmDelete(h, u)
    <2>1. PICK l : l = [Idle EXCEPT !.pc = "commit", !.id = row[u].id, !.erase = TRUE]
      OBVIOUS
    <2>2. /\ DOMAIN l = Fields /\ l.pc = "commit" /\ l.id = row[u].id /\ l.erase = TRUE /\ l.dirty = Nothing
          /\ l.then = Nothing /\ l.alert = "keep" /\ l.pending = Nothing /\ l.lost = None
      BY <2>1, IdleIs DEF Fields
    <2>3. Begins(h, u, l) /\ row[u] # None
      BY <1>2, <2>1, OpenBegins DEF ConfirmDelete
    <2>4. Kind(l, u)
      BY <2>2, <2>3, NothingIs, NothingTold DEF Kind, Erases
    <2> QED
      BY <1>1, <2>2, <2>3, <2>4 DEF Opened
  <1>3. CASE ConfirmDeactivate(h, u)
    <2> DEFINE new == [active |-> FALSE]
    <2>1. PICK l : l = [Idle EXCEPT !.pc = "commit", !.id = AnyLife, !.dirty = new]
      OBVIOUS
    <2>2. Begins(h, u, l)
      BY <1>3, <2>1, OpenBegins DEF ConfirmDeactivate
    <2> HIDE DEF new
    <2>3. /\ DOMAIN l = Fields /\ l.pc = "commit" /\ l.id = AnyLife /\ l.erase = FALSE /\ l.dirty = new
          /\ l.then = Nothing /\ l.alert = "keep" /\ l.pending = Nothing /\ l.lost = None
      BY <2>1, IdleIs DEF Fields
    <2>4. Retires(l)
      BY <2>3 DEF Retires, new
    <2>5. Kind(l, u)
      BY <2>3, <2>4, NothingIs, NothingTold DEF Kind
    <2> QED
      BY <1>1, <2>2, <2>3, <2>5 DEF Opened
  <1> QED
    BY <1>2, <1>3

LEMMA AddressOpens ==
  ASSUME Base, UNCHANGED channelVars, NEW h \in Handlers, NEW u \in Users,
         SettingsIp(h, u) \/ IpChange(h, u) \/ IpCancel(h, u)
  PROVE  \E l : Opened(h, u, l)
  <1> DEFINE then == [state |-> "waiting_for_ip"]
  <1>1. Told(then) /\ Calm(then)
    BY DEF Told, Slots, Calm, Choosing
  <1>2. AskIp = then
    BY DEF AskIp
  <1> HIDE DEF then
  <1>3. /\ UNCHANGED accountVars /\ (UNCHANGED fsm \/ fsm' = [fsm EXCEPT ![u] = Cleared])
        /\ (Open(h, u, "ip", Talk(then)) \/ Open(h, u, "ip", [Idle EXCEPT !.pc = "commit"]))
    BY <1>2 DEF SettingsIp, IpChange, IpCancel
  <1>4. Ready(fsm[u]) => Ready(fsm'[u]) /\ Ready(Over(then, fsm'[u]))
    BY <1>1, <1>3, TellsReady
  <1> QED
    BY <1>1, <1>3, <1>4, TalkOpens, SilenceOpens

LEMMA NewAddressOpens ==
  ASSUME Base, UNCHANGED channelVars, NEW h \in Handlers, NEW u \in Users,
         IpDelete(h, u) \/ IpInput(h, u)
  PROVE  \E l : Opened(h, u, l)
  <1>1. UNCHANGED <<fsm, accountVars>>
    BY DEF IpDelete, IpInput
  <1>2. ASSUME NEW a \in Addresses \cup {None}, NEW then, then = Nothing \/ then = Cleared, NEW l,
               DOMAIN l = Fields, l.pc = "flush", l.id = row[u].id, l.dirty = Dirty(row[u], [ip |-> a]),
               l.erase = FALSE, l.then = then, l.alert \in {"keep", "stop"} \cup Addresses,
               l.pending = Nothing, l.lost = None, row[u] # None, Open(h, u, "ip", l)
        PROVE  \E m : Opened(h, u, m)
    <2> DEFINE new == [ip |-> a]
    <2>1. DOMAIN new = {"ip"} /\ new["ip"] = a
      OBVIOUS
    <2>2. l.dirty = Dirty(row[u], new)
      BY <1>2
    <2> HIDE DEF new
    <2>3. Written(new) /\ DOMAIN new \cap {"chan", "region", "queue"} = {}
      BY <2>1, OtherIsWritten, BooleanValues DEF Others
    <2>4. Told(then) /\ Calm(then)
      BY <1>2, NothingTold, ClearedIsCalm, ClearedIsReady
    <2> QED
      BY <1>1, <1>2, <2>2, <2>3, <2>4, PlainOpens
  <1>3. CASE IpDelete(h, u)
    <2>1. PICK m : m = Change(u, [ip |-> None], Nothing)
      OBVIOUS
    <2>2. Changing(m, u, [ip |-> None], Nothing)
      BY <2>1, ChangeIs
    <2>3. PICK l : l = [m EXCEPT !.pc = "flush", !.alert = "stop"]
      OBVIOUS
    <2>4. /\ DOMAIN l = Fields /\ l.pc = "flush" /\ l.id = row[u].id /\ l.dirty = Dirty(row[u], [ip |-> None])
          /\ l.erase = FALSE /\ l.then = Nothing /\ l.alert = "stop" /\ l.pending = Nothing /\ l.lost = None
      BY <2>2, <2>3 DEF Changing, Fields
    <2>5. Open(h, u, "ip", l) /\ row[u] # None
      BY <1>3, <2>1, <2>3 DEF IpDelete
    <2> QED
      BY <1>2, <2>4, <2>5
  <1>4. CASE IpInput(h, u)
    <2>0. PICK a \in Addresses : \E p \in Pinged(a) :
            Open(h, u, "ip", IF row[u] = None THEN Talk(Cleared)
                             ELSE [Change(u, [ip |-> a], Cleared) EXCEPT !.pc = "flush", !.ping = p[1], !.alert = p[2]])
      BY <1>4 DEF IpInput
    <2>1. PICK p \in Pinged(a) :
            Open(h, u, "ip", IF row[u] = None THEN Talk(Cleared)
                             ELSE [Change(u, [ip |-> a], Cleared) EXCEPT !.pc = "flush", !.ping = p[1], !.alert = p[2]])
      BY <2>0
    <2>2. CASE row[u] = None
      <3>1. Ready(fsm[u]) => Ready(fsm'[u]) /\ Ready(Over(Cleared, fsm'[u]))
        BY <1>1, ClearedIsCalm, TellsReady
      <3> QED
        BY <1>1, <2>1, <2>2, <3>1, ClearedIsReady, TalkOpens
    <2>3. CASE row[u] # None
      <3>1. PICK m : m = Change(u, [ip |-> a], Cleared)
        OBVIOUS
      <3>2. Changing(m, u, [ip |-> a], Cleared)
        BY <3>1, ChangeIs
      <3>3. PICK l : l = [m EXCEPT !.pc = "flush", !.ping = p[1], !.alert = p[2]]
        OBVIOUS
      <3>4. p[2] \in {"keep", "stop"} \cup Addresses
        BY DEF Pinged
      <3>5. /\ DOMAIN l = Fields /\ l.pc = "flush" /\ l.id = row[u].id /\ l.dirty = Dirty(row[u], [ip |-> a])
            /\ l.erase = FALSE /\ l.then = Cleared /\ l.alert = p[2] /\ l.pending = Nothing /\ l.lost = None
        BY <3>2, <3>3 DEF Changing, Fields
      <3>6. Open(h, u, "ip", l)
        BY <2>1, <2>3, <3>1, <3>3
      <3> QED
        BY <1>2, <2>3, <3>4, <3>5, <3>6
    <2> QED
      BY <2>2, <2>3
  <1> QED
    BY <1>3, <1>4
-----------------------------------------------------------------------------
(* The handlers of a user's channel                                        *)

LEMMA WordOpens ==
  ASSUME Base, UNCHANGED <<accountVars, channelVars, fsm>>, NEW h \in Handlers, NEW u \in Users, NEW k, NEW s,
         s \notin {"queue"} \cup Choosing, Open(h, u, k, Talk([state |-> s]))
  PROVE  \E l : Opened(h, u, l)
  <1> DEFINE then == [state |-> s]
  <1>1. DOMAIN then = {"state"} /\ then["state"] = s
    OBVIOUS
  <1>2. Open(h, u, k, Talk(then))
    OBVIOUS
  <1> HIDE DEF then
  <1>3. Told(then) /\ Calm(then)
    BY <1>1 DEF Told, Slots, Calm
  <1>4. Ready(fsm[u]) => Ready(fsm'[u]) /\ Ready(Over(then, fsm'[u]))
    BY <1>3, TellsReady
  <1> QED
    BY <1>2, <1>3, <1>4, TalkOpens

LEMMA ConversationOpens ==
  ASSUME Base, UNCHANGED accountVars, NEW h \in Handlers, NEW u \in Users,
         \/ HandleTitle(h, u) \/ AddDesc(h, u) \/ EditBranding(h, u) \/ FormatAsk(h, u) \/ TestCustom(h, u)
         \/ HandleCustomTest(h, u)
  PROVE  \E l : Opened(h, u, l)
  <1>1. {"choice", "description", "editing", "text", "test"} \cap ({"queue"} \cup Choosing) = {}
    BY DEF Choosing
  <1>2. CASE \/ HandleTitle(h, u) \/ AddDesc(h, u) \/ EditBranding(h, u) \/ FormatAsk(h, u) \/ TestCustom(h, u)
    <2>1. PICK s \in {"choice", "description", "editing", "text", "test"}, k \in {"channel", "format"} :
            Open(h, u, k, Talk([state |-> s])) /\ UNCHANGED <<channelVars, fsm>>
      BY <1>2 DEF HandleTitle, AddDesc, EditBranding, FormatAsk, TestCustom, Press, Format
    <2> QED
      BY <1>1, <2>1, WordOpens
  <1>3. CASE HandleCustomTest(h, u)
    <2>1. Open(h, u, "format", Talk(Cleared)) /\ UNCHANGED <<channelVars, fsm>>
      BY <1>3 DEF HandleCustomTest, Format
    <2> QED
      BY <2>1, ClearedIsReady, ClearedIsCalm, TellsReady, TalkOpens
  <1> QED
    BY <1>2, <1>3

\* The columns a handler of texts, of names or of pauses changes.
LEMMA OneColumn ==
  ASSUME NEW c \in Others, NEW v \in Values, NEW new, new = Nothing \/ new = [d \in {c} |-> v]
  PROVE  Written(new) /\ DOMAIN new \cap {"chan", "region", "queue"} = {}
  BY OtherIsWritten, NothingIs

LEMMA BrandingIs ==
  ASSUME Base, NEW u \in Users, row[u] # None, NEW new \in Branding(row[u])
  PROVE  Written(new) /\ DOMAIN new \cap {"chan", "region", "queue"} = {}
  <1>1. row[u]["chan"] \in Values /\ "title" \in Others
    BY RowIs, FreshIs DEF Others
  <1>2. new = Nothing \/ new = [d \in {"title"} |-> row[u]["chan"]]
    BY DEF Branding
  <1> QED
    BY <1>1, <1>2, OneColumn

LEMMA NamingOpens ==
  ASSUME Base, UNCHANGED accountVars, NEW h \in Handlers, NEW u \in Users,
         SkipDesc(h, u) \/ HandleDescription(h, u) \/ HandleEdit(h, u)
  PROVE  \E l : Opened(h, u, l)
  <1>1. CASE SkipDesc(h, u)
    <2>1. /\ UNCHANGED channelVars /\ fsm' = [fsm EXCEPT ![u] = Cleared]
          /\ \/ row[u] = None /\ Open(h, u, "channel", [Idle EXCEPT !.pc = "commit"])
             \/ row[u] # None /\ \E new \in Branding(row[u]) : Open(h, u, "channel", Change(u, new, Nothing))
      BY <1>1 DEF SkipDesc, Press
    <2> QED
      BY <2>1, SilenceOpens, BrandingIs, NothingTold, ChangeOpens
  <1>2. CASE HandleDescription(h, u) \/ HandleEdit(h, u)
    <2>1. /\ UNCHANGED <<channelVars, fsm>>
          /\ \/ row[u] = None /\ Open(h, u, "channel", Talk(Cleared))
             \/ row[u] # None /\ \E new \in Branding(row[u]) : Open(h, u, "channel", Change(u, new, Cleared))
      BY <1>2 DEF HandleDescription, HandleEdit, Press
    <2>2. CASE row[u] = None
      BY <2>1, <2>2, ClearedIsReady, ClearedIsCalm, TellsReady, TalkOpens
    <2>3. CASE row[u] # None
      BY <2>1, <2>3, ClearedIsReady, ClearedIsCalm, BrandingIs, ChangeOpens
    <2> QED
      BY <2>2, <2>3
  <1> QED
    BY <1>1, <1>2

LEMMA SwitchingOpens ==
  ASSUME Base, UNCHANGED accountVars, NEW h \in Handlers, NEW u \in Users,
         \/ ChannelReconnect(h, u) \/ ChannelPause(h, u) \/ ChannelResume(h, u)
         \/ HandleText(h, u) \/ FormatToggle(h, u) \/ FormatReset(h, u)
  PROVE  \E l : Opened(h, u, l)
  <1>1. {"status", "paused", "chOther"} \subseteq Others /\ {TRUE, FALSE, "active"} \subseteq Values
    BY BooleanValues DEF Others
  <1>2. ASSUME NEW c \in {"status", "paused", "chOther"}, NEW v \in BOOLEAN \cup {"active"}, NEW k,
               NEW new, new = [d \in {c} |-> v], NEW then \in {Nothing, Cleared},
               row[u] # None, Open(h, u, k, Change(u, new, then)), UNCHANGED <<channelVars, fsm>>
        PROVE  \E l : Opened(h, u, l)
    <2>0. c \in Others /\ v \in Values
      BY <1>1, BooleanValues
    <2>1. Written(new) /\ DOMAIN new \cap {"chan", "region", "queue"} = {}
      BY <1>2, <2>0, OneColumn
    <2>2. Told(then) /\ Calm(then)
      BY NothingTold, ClearedIsCalm, ClearedIsReady
    <2> QED
      BY <1>2, <2>1, <2>2, ChangeOpens
  <1>3. CASE ChannelReconnect(h, u)
    BY <1>2, <1>3 DEF ChannelReconnect, Press
  <1>4. ASSUME NEW p \in BOOLEAN, Pause(h, u, p)
        PROVE  \E l : Opened(h, u, l)
    BY <1>2, <1>4, SilenceOpens DEF Pause, Press
  <1>5. CASE HandleText(h, u)
    <2>1. CASE row[u] = None
      <3>1. Open(h, u, "format", Talk(Cleared)) /\ UNCHANGED <<channelVars, fsm>>
        BY <1>5, <2>1 DEF HandleText, Format
      <3>2. Ready(fsm[u]) => Ready(fsm'[u]) /\ Ready(Over(Cleared, fsm'[u]))
        BY <3>1, ClearedIsCalm, TellsReady
      <3> QED
        BY <3>1, <3>2, ClearedIsReady, TalkOpens
    <2>2. CASE row[u] # None
      <3>1. Open(h, u, "format", Change(u, [chOther |-> TRUE], Cleared)) /\ UNCHANGED <<channelVars, fsm>>
        BY <1>5, <2>2 DEF HandleText, Format
      <3>2. PICK new : new = [chOther |-> TRUE]
        OBVIOUS
      <3>3. DOMAIN new = {"chOther"} /\ new["chOther"] = TRUE
        BY <3>2
      <3>4. Written(new) /\ DOMAIN new \cap {"chan", "region", "queue"} = {}
        BY <1>1, <3>3, OtherIsWritten
      <3> QED
        BY <2>2, <3>1, <3>2, <3>4, ClearedIsReady, ClearedIsCalm, ChangeOpens
    <2> QED
      BY <2>1, <2>2
  <1>6. CASE FormatToggle(h, u)
    <2>1. Open(h, u, "format", Change(u, Flip(row[u], "chOther"), Nothing)) /\ UNCHANGED <<channelVars, fsm>> /\ row[u] # None
      BY <1>6 DEF FormatToggle, Format
    <2>2. "chOther" \in Others
      BY <1>1
    <2> QED
      BY <2>1, <2>2, FlipIsWritten, NothingTold, ChangeOpens
  <1>7. CASE FormatReset(h, u)
    <2>1. Open(h, u, "format", Change(u, [chOther |-> FALSE], Nothing)) /\ UNCHANGED <<channelVars, fsm>> /\ row[u] # None
      BY <1>7 DEF FormatReset, Format
    <2>2. PICK new : new = [chOther |-> FALSE]
      OBVIOUS
    <2>3. DOMAIN new = {"chOther"} /\ new["chOther"] = FALSE
      BY <2>2
    <2>4. Written(new) /\ DOMAIN new \cap {"chan", "region", "queue"} = {}
      BY <1>1, <2>3, OtherIsWritten
    <2> QED
      BY <2>1, <2>2, <2>4, NothingTold, ChangeOpens
  <1> QED
    BY <1>3, <1>4, <1>5, <1>6, <1>7 DEF ChannelPause, ChannelResume

LEMMA GivenUpIs ==
  /\ DOMAIN GivenUp = {"chan", "title", "status"} /\ GivenUp["chan"] = None /\ Written(GivenUp)
  <1>1. /\ DOMAIN GivenUp = {"chan", "title", "status"} /\ GivenUp["chan"] = None /\ GivenUp["title"] = None
        /\ GivenUp["status"] = "disconnected"
    BY DEF GivenUp
  <1> QED
    BY <1>1, FreshIs, BooleanValues DEF Written, Agrees

LEMMA LinkedIs ==
  ASSUME NEW c \in Channels
  PROVE  DOMAIN Linked(c) = {"chan", "title", "status"} /\ Linked(c)["chan"] = c /\ Written(Linked(c))
  <1>1. /\ DOMAIN Linked(c) = {"chan", "title", "status"} /\ Linked(c)["chan"] = c /\ Linked(c)["title"] = c
        /\ Linked(c)["status"] = "active"
    BY DEF Linked
  <1> QED
    BY <1>1, FreshIs, BooleanValues DEF Written, Agrees

LEMMA LinkOpens ==
  ASSUME Base, UNCHANGED accountVars, NEW h \in Handlers, NEW u \in Users,
         \/ \E c \in Channels : Connect(h, u, c)
         \/ KeepCurrent(h, u) \/ ChannelDisable(h, u)
  PROVE  \E l : Opened(h, u, l)
  <1>1. CASE \E c \in Channels : Connect(h, u, c)
    <2>1. PICK c \in Channels : Connect(h, u, c)
      BY <1>1
    <2> DEFINE then == [state |-> "title"]
    <2>2. PICK m : m = Change(u, Linked(c), then)
      OBVIOUS
    <2>3. PICK l : l = [m EXCEPT !.pending = DropsPending(c)]
      OBVIOUS
    <2>4. /\ row[u] # None /\ pending[c] = u /\ Open(h, u, "channel", l)
          /\ UNCHANGED <<channelVars, fsm>>
      BY <2>1, <2>2, <2>3 DEF Connect, PendingFor, Press
    <2>5. Told(then) /\ Calm(then)
      BY DEF Told, Slots, Calm, Choosing
    <2> HIDE DEF then
    <2>6. Changing(m, u, Linked(c), then)
      BY <2>2, ChangeIs
    <2>7. /\ DOMAIN l = Fields /\ l.pc \in {"commit", "answer"} /\ l.id = row[u].id
          /\ l.dirty = Dirty(row[u], Linked(c)) /\ l.erase = FALSE /\ l.then = then
          /\ l.alert = "keep" /\ l.pending = DropsPending(c) /\ l.lost = None
      BY <2>3, <2>6 DEF Changing, Fields
    <2>8. Links(l, u)
      BY <2>4, <2>7, LinkedIs DEF Links, Changes
    <2>9. Kind(l, u)
      BY <2>5, <2>7, <2>8 DEF Kind, DropsPending
    <2> QED
      BY <2>4, <2>5, <2>7, <2>9, OpenBegins, TellsReady DEF Opened
  <1>2. CASE KeepCurrent(h, u)
    <2> DEFINE mine == {c \in Channels : pending[c] = u}
               drop == [c \in mine |-> None]
    <2>1. PICK l : l = [Idle EXCEPT !.pc = "commit", !.pending = drop]
      OBVIOUS
    <2>2. Open(h, u, "channel", l) /\ UNCHANGED <<channelVars, fsm>>
      BY <1>2, <2>1 DEF KeepCurrent, Press
    <2>3. DOMAIN drop \subseteq Channels /\ \A c \in DOMAIN drop : drop[c] = None
      OBVIOUS
    <2> HIDE DEF drop
    <2>4. /\ DOMAIN l = Fields /\ l.pc = "commit" /\ l.id = None /\ l.dirty = Nothing /\ l.erase = FALSE
          /\ l.then = Nothing /\ l.alert = "keep" /\ l.pending = drop /\ l.lost = None
      BY <2>1, IdleIs DEF Fields
    <2>5. Kind(l, u)
      BY <2>3, <2>4, NothingTold DEF Kind, Quiet
    <2> QED
      BY <2>2, <2>4, <2>5, NothingTold, OpenBegins, TellsReady DEF Opened
  <1>3. CASE ChannelDisable(h, u)
    <2>1. PICK l : l = Change(u, GivenUp, Nothing)
      OBVIOUS
    <2>2. row[u] # None /\ Open(h, u, "channel", l) /\ UNCHANGED <<channelVars, fsm>>
      BY <1>3, <2>1 DEF ChannelDisable, Press
    <2>3. Changing(l, u, GivenUp, Nothing)
      BY <2>1, ChangeIs
    <2>4. /\ DOMAIN l = Fields /\ l.pc \in {"commit", "answer"} /\ l.id = row[u].id
          /\ l.dirty = Dirty(row[u], GivenUp) /\ l.erase = FALSE /\ l.then = Nothing
          /\ l.alert = "keep" /\ l.pending = Nothing /\ l.lost = None
      BY <2>3 DEF Changing
    <2>5. Kind(l, u)
      BY <2>2, <2>4, GivenUpIs, NothingIs, NothingTold DEF Kind, Leaves, Changes
    <2> QED
      BY <2>2, <2>4, <2>5, NothingTold, OpenBegins, TellsReady DEF Opened
  <1> QED
    BY <1>1, <1>2, <1>3
-----------------------------------------------------------------------------
(* Updates of Telegram about a channel                                     *)

\* h begins to handle the first update, for u.
Heard(h, u, l) ==
  /\ Begins(h, u, l)
  /\ UNCHANGED <<accountVars, fsm, member, addedBy, unheard>>
  /\ updates # <<>> /\ updates' = Tail(updates)
  /\ DOMAIN l = Fields /\ l.pc = "commit" /\ l.then = Nothing /\ l.alert = "keep" /\ l.erase = FALSE

\* The bot was added to channel c: it may be offered to u.
HeardAdded(h, u, c, l) ==
  /\ Heard(h, u, l) /\ Head(updates) = [chan |-> c, by |-> u, added |-> TRUE]
  /\ l.id = None /\ l.dirty = Nothing /\ l.lost = None
  /\ \/ l.pending = Nothing
     \/ Offers(c, u) /\ l.pending = [d \in {c} |-> u]

\* It was removed from c: the pending row goes, and the owner loses the channel.
HeardRemoved(h, u, c, l) ==
  /\ Heard(h, u, l) /\ Head(updates).chan = c /\ ~ Head(updates).added
  /\ l.pending = DropsPending(c) /\ l.lost = c
  /\ \/ Owners(c) = {} /\ l.id = None /\ l.dirty = Nothing
     \/ u \in Owners(c) /\ Changes(l, u, GivenUp)

LEMMA HeadIs ==
  ASSUME Base, updates # <<>>
  PROVE  /\ Head(updates) \in [chan : Channels, by : Users \cup {None}, added : BOOLEAN]
         /\ Head(updates) = updates[1] /\ 1 \in DOMAIN updates
         /\ Head(updates).added => Head(updates).by \in Users /\ <<Head(updates).by, Head(updates).chan>> \in addedBy
  <1> DEFINE S == [chan : Channels, by : Users \cup {None}, added : BOOLEAN]
  <1>1. updates \in Seq(S)
    BY DEF Base
  <1> HIDE DEF S
  <1>2. 1 \in DOMAIN updates /\ Head(updates) = updates[1] /\ updates[1] \in S
    BY <1>1
  <1> QED
    BY <1>2 DEF Base, S

LEMMA AddedHears ==
  ASSUME Base, UNCHANGED accountVars, NEW h \in Handlers, HandleBotAdded(h)
  PROVE  \E u, c, l : HeardAdded(h, u, c, l)
  <1> DEFINE c == Head(updates).chan
             u == Head(updates).by
  <1>1. updates # <<>> /\ Head(updates).added /\ u \in Users
    BY HeadIs DEF HandleBotAdded
  <1>2. PICK p : p = IF Offers(c, u) THEN [d \in {c} |-> u] ELSE Nothing
    OBVIOUS
  <1>3. PICK l : l = [Idle EXCEPT !.pc = "commit", !.pending = p]
    OBVIOUS
  <1>4. Hear(h, u, l)
    BY <1>2, <1>3 DEF HandleBotAdded
  <1>5. /\ DOMAIN l = Fields /\ l.pc = "commit" /\ l.id = None /\ l.dirty = Nothing /\ l.erase = FALSE
        /\ l.then = Nothing /\ l.alert = "keep" /\ l.pending = p /\ l.lost = None
    BY <1>3, IdleIs DEF Fields
  <1>6. Head(updates) = [chan |-> c, by |-> u, added |-> TRUE]
    BY <1>1, HeadIs
  <1>7. Heard(h, u, l)
    BY <1>1, <1>4, <1>5 DEF Heard, Hear, Begins
  <1> QED
    BY <1>2, <1>5, <1>6, <1>7 DEF HeardAdded

LEMMA RemovedHears ==
  ASSUME Base, UNCHANGED accountVars, NEW h \in Handlers, HandleBotRemoved(h)
  PROVE  \E u, c, l : HeardRemoved(h, u, c, l)
  <1> DEFINE c == Head(updates).chan
  <1>1. updates # <<>> /\ ~ Head(updates).added
    BY DEF HandleBotRemoved
  <1>2. Owners(c) \subseteq Users /\ \A u \in Owners(c) : row[u] # None
    BY DEF Owners
  <1>3. PICK u \in IF Owners(c) = {} THEN Users ELSE Owners(c) :
          Hear(h, u, [(IF Owners(c) = {} THEN [Idle EXCEPT !.pc = "commit"] ELSE Change(u, GivenUp, Nothing))
                      EXCEPT !.pending = DropsPending(c), !.lost = c])
    BY DEF HandleBotRemoved
  <1>4. PICK m : m = IF Owners(c) = {} THEN [Idle EXCEPT !.pc = "commit"] ELSE Change(u, GivenUp, Nothing)
    OBVIOUS
  <1>5. PICK l : l = [m EXCEPT !.pending = DropsPending(c), !.lost = c]
    OBVIOUS
  <1>6. u \in Users /\ Hear(h, u, l)
    BY <1>2, <1>3, <1>4, <1>5
  <1>7. /\ DOMAIN m = Fields /\ m.pc = "commit" /\ m.then = Nothing /\ m.alert = "keep" /\ m.erase = FALSE
        /\ \/ Owners(c) = {} /\ m.id = None /\ m.dirty = Nothing
           \/ u \in Owners(c) /\ m.id = row[u].id /\ m.dirty = Dirty(row[u], GivenUp)
    <2>1. CASE Owners(c) = {}
      BY <1>4, <2>1, IdleIs DEF Fields
    <2>2. CASE Owners(c) # {}
      <3>1. m = Change(u, GivenUp, Nothing)
        BY <1>4, <2>2
      <3>2. Changing(m, u, GivenUp, Nothing) /\ m.pc = "commit"
        BY <3>1, ChangeIs, IdleIs DEF Change, Fields
      <3> QED
        BY <1>3, <2>2, <3>2 DEF Changing
    <2> QED
      BY <2>1, <2>2
  <1>8. /\ DOMAIN l = Fields /\ l.pc = "commit" /\ l.then = Nothing /\ l.alert = "keep" /\ l.erase = FALSE
        /\ l.pending = DropsPending(c) /\ l.lost = c /\ l.id = m.id /\ l.dirty = m.dirty
    BY <1>5, <1>7 DEF Fields
  <1>9. Heard(h, u, l)
    BY <1>1, <1>6, <1>8 DEF Heard, Hear, Begins
  <1>10. \/ Owners(c) = {} /\ l.id = None /\ l.dirty = Nothing
         \/ u \in Owners(c) /\ Changes(l, u, GivenUp)
    BY <1>2, <1>7, <1>8, GivenUpIs DEF Changes
  <1> QED
    BY <1>1, <1>8, <1>9, <1>10 DEF HeardRemoved
-----------------------------------------------------------------------------
(* What a handler at work holds                                            *)

\* It writes no row.
Still(l) == l.id = None /\ l.dirty = Nothing /\ ~ l.erase /\ l.pc # "flush"

\* It writes columns of the row that has its id.
Writes(l, n, added) ==
  /\ l.id \in 1..n /\ ~ l.erase /\ Written(l.dirty)
  /\ "chan" \in DOMAIN l.dirty =>
       l.dirty["chan"] = None \/ (l.dirty["chan"] \in Channels /\ <<l.user, l.dirty["chan"]>> \in added)

\* It makes a row, whose number it has when it is flushed.
Bears(l, n) ==
  /\ l.id = None /\ ~ l.erase /\ Newborn(l.dirty)
  /\ l.pc # "flush" => l.dirty["id"] \in 1..n

Erasing(l, n) == l.id \in 1..n /\ l.erase /\ l.dirty = Nothing

Works(l, n, added) ==
  /\ DOMAIN l = Fields /\ l.pc \in {"flush", "answer", "commit"} /\ l.user \in Users
  /\ l.alert \in {"keep", "stop"} \cup Addresses
  /\ Told(l.then) /\ l.lost \in Channels \cup {None}
  /\ DOMAIN l.pending \subseteq Channels
  /\ \A c \in DOMAIN l.pending : l.pending[c] # None => l.pending[c] \in Users /\ <<l.pending[c], c>> \in added
  /\ Still(l) \/ Writes(l, n, added) \/ Bears(l, n) \/ Erasing(l, n) \/ Retires([l EXCEPT !.pending = Nothing])

Jobs == \A h \in Handlers : loc[h] = Idle \/ Works(loc[h], lives, addedBy)

\* Who gives the columns of new to the row of u is about to write them.
LEMMA ChangesWrites ==
  ASSUME Base, NEW u \in Users, NEW l, NEW new, Changes(l, u, new), l.user = u,
         "chan" \in DOMAIN new => new["chan"] = None \/ (new["chan"] \in Channels /\ <<u, new["chan"]>> \in addedBy)
  PROVE  Writes(l, lives, addedBy)
  <1>1. row[u] # None /\ row[u].id \in 1..lives /\ Agrees(row[u]) /\ DOMAIN row[u] = Columns
    BY RowIs DEF Base, Changes
  <1>2. {"factOff", "factOn", "chFactOff", "chFactOn"} \subseteq Columns
    BY FreshIs
  <1>3. Written(new) /\ l.id = row[u].id /\ l.dirty = Dirty(row[u], new) /\ ~ l.erase
    BY DEF Changes
  <1>4. /\ DOMAIN l.dirty \subseteq DOMAIN new
        /\ \A c \in DOMAIN l.dirty : l.dirty[c] = new[c]
        /\ \A c \in DOMAIN new : c \in DOMAIN l.dirty <=> new[c] # row[u][c]
    BY <1>3, DirtyIs
  <1>5. /\ row[u]["factOff"] = row[u]["factOn"] /\ row[u]["chFactOff"] = row[u]["chFactOn"]
    BY <1>1, <1>2 DEF Agrees
  <1>6. Agrees(l.dirty)
    BY <1>3, <1>4, <1>5 DEF Written, Agrees
  <1>7. Written(l.dirty)
    BY <1>3, <1>4, <1>6 DEF Written
  <1> QED
    BY <1>1, <1>3, <1>4, <1>7 DEF Writes

LEMMA UserSet ==
  ASSUME NEW l, NEW u, DOMAIN l = Fields, NEW m, m = [l EXCEPT !.user = u]
  PROVE  /\ DOMAIN m = Fields /\ m.user = u /\ m.pc = l.pc /\ m.id = l.id /\ m.dirty = l.dirty /\ m.erase = l.erase
         /\ m.then = l.then /\ m.alert = l.alert /\ m.pending = l.pending /\ m.lost = l.lost
  BY DEF Fields

LEMMA OpenedWorks ==
  ASSUME Base, NEW h \in Handlers, NEW u \in Users, NEW l, Opened(h, u, l)
  PROVE  loc' = [loc EXCEPT ![h] = [l EXCEPT !.user = u]] /\ Works([l EXCEPT !.user = u], lives', addedBy')
  <1>1. PICK m : m = [l EXCEPT !.user = u]
    OBVIOUS
  <1>2. Kind(l, u)
    BY DEF Opened
  <1>3. /\ DOMAIN m = Fields /\ m.user = u /\ m.pc = l.pc /\ m.id = l.id /\ m.dirty = l.dirty /\ m.erase = l.erase
        /\ m.then = l.then /\ m.alert = l.alert /\ m.pending = l.pending /\ m.lost = l.lost
    BY <1>1, <1>2, UserSet DEF Kind
  <1>4. Works(m, lives, addedBy)
    <2>1. /\ DOMAIN m = Fields /\ m.pc \in {"flush", "answer", "commit"} /\ m.user \in Users
          /\ m.alert \in {"keep", "stop"} \cup Addresses
          /\ Told(m.then) /\ m.lost \in Channels \cup {None}
          /\ DOMAIN m.pending \subseteq Channels
      BY <1>2, <1>3 DEF Kind
    <2>2. ASSUME m.pending = Nothing, Still(m) \/ Writes(m, lives, addedBy) \/ Bears(m, lives) \/ Erasing(m, lives) \/ Retires([m EXCEPT !.pending = Nothing])
          PROVE  Works(m, lives, addedBy)
      BY <2>1, <2>2, NothingIs DEF Works
    <2>3. ASSUME NEW new, Changes(l, u, new)
          PROVE  Changes(m, u, new)
      BY <1>3, <2>3 DEF Changes
    <2>4. CASE Quiet(l)
      <3>1. Still(m)
        BY <1>3, <2>4 DEF Quiet, Still
      <3> QED
        BY <1>3, <2>1, <2>4, <3>1 DEF Works, Quiet
    <2>5. CASE Plain(l, u)
      <3>1. PICK new : Changes(l, u, new) /\ DOMAIN new \cap {"chan", "region", "queue"} = {} /\ l.pending = Nothing
        BY <2>5 DEF Plain
      <3>2. Writes(m, lives, addedBy)
        BY <1>3, <2>3, <3>1, ChangesWrites
      <3> QED
        BY <1>3, <2>2, <3>1, <3>2
    <2>6. CASE Moves(l, u)
      <3>1. PICK new : Changes(l, u, new) /\ DOMAIN new = {"active", "region", "queue"} /\ l.pending = Nothing
        BY <2>6 DEF Moves
      <3>2. Writes(m, lives, addedBy)
        BY <1>3, <2>3, <3>1, ChangesWrites
      <3> QED
        BY <1>3, <2>2, <3>1, <3>2
    <2>7. CASE Creates(l, u)
      <3>1. Bears(m, lives)
        BY <1>3, <2>7 DEF Creates, Bears
      <3> QED
        BY <1>3, <2>2, <2>7, <3>1 DEF Creates
    <2>8. CASE Erases(l, u)
      <3>1. Erasing(m, lives)
        BY <1>3, <2>8 DEF Erases, Erasing, Base
      <3> QED
        BY <1>3, <2>2, <2>8, <3>1 DEF Erases
    <2>9. CASE Retires(l)
      <3>1. PICK n : n = [m EXCEPT !.pending = Nothing]
        OBVIOUS
      <3>2. n.id = m.id /\ n.dirty = m.dirty /\ n.erase = m.erase /\ n.pending = Nothing
        BY <1>3, <3>1 DEF Fields
      <3>3. Retires(n)
        BY <1>3, <2>9, <3>2 DEF Retires
      <3> QED
        BY <1>3, <2>2, <2>9, <3>1, <3>3 DEF Retires
    <2>10. CASE Links(l, u)
      <3>1. PICK c \in Channels : pending[c] = u /\ Changes(l, u, Linked(c)) /\ l.pending = DropsPending(c)
        BY <2>10 DEF Links
      <3>2. <<u, c>> \in addedBy
        BY <3>1, SessionsAssumption DEF Base
      <3>3. Writes(m, lives, addedBy)
        BY <1>3, <2>3, <3>1, <3>2, LinkedIs, ChangesWrites
      <3>4. \A d \in DOMAIN m.pending : m.pending[d] = None
        BY <1>3, <3>1 DEF DropsPending
      <3> QED
        BY <2>1, <3>3, <3>4 DEF Works
    <2>11. CASE Leaves(l, u)
      <3>1. Writes(m, lives, addedBy)
        BY <1>3, <2>3, <2>11, GivenUpIs, ChangesWrites DEF Leaves
      <3> QED
        BY <1>3, <2>2, <2>11, <3>1 DEF Leaves
    <2> QED
      BY <1>2, <2>4, <2>5, <2>6, <2>7, <2>8, <2>9, <2>10, <2>11 DEF Kind
  <1>5. lives' = lives /\ addedBy' = addedBy
    BY DEF Opened, Begins, dbVars, channelVars
  <1>6. Works(m, lives', addedBy')
    BY <1>4, <1>5 DEF Works, Still, Writes, Bears, Erasing
  <1> QED
    BY <1>1, <1>6 DEF Opened, Begins

LEMMA HeardWorks ==
  ASSUME Base, NEW h \in Handlers, NEW u, NEW c, NEW l, HeardAdded(h, u, c, l) \/ HeardRemoved(h, u, c, l)
  PROVE  loc' = [loc EXCEPT ![h] = [l EXCEPT !.user = u]] /\ Works([l EXCEPT !.user = u], lives', addedBy')
  <1>1. PICK m : m = [l EXCEPT !.user = u]
    OBVIOUS
  <1>2. /\ Heard(h, u, l) /\ u \in Users /\ DOMAIN l = Fields /\ c \in Channels
    <2>1. Heard(h, u, l) /\ c = Head(updates).chan
      BY DEF HeardAdded, HeardRemoved
    <2> QED
      BY <2>1, HeadIs DEF Heard, Begins
  <1>3. /\ DOMAIN m = Fields /\ m.user = u /\ m.pc = l.pc /\ m.id = l.id /\ m.dirty = l.dirty /\ m.erase = l.erase
        /\ m.then = l.then /\ m.alert = l.alert /\ m.pending = l.pending /\ m.lost = l.lost
    BY <1>1, <1>2, UserSet
  <1>4. Works(m, lives, addedBy)
    <2>1. /\ DOMAIN m = Fields /\ m.pc \in {"flush", "answer", "commit"} /\ m.user \in Users
          /\ m.alert \in {"keep", "stop"} \cup Addresses
          /\ Told(m.then) /\ m.lost \in Channels \cup {None}
      BY <1>2, <1>3, NothingTold DEF Heard, HeardAdded, HeardRemoved
    <2>2. /\ DOMAIN m.pending \subseteq Channels
          /\ \A d \in DOMAIN m.pending : m.pending[d] # None => m.pending[d] \in Users /\ <<m.pending[d], d>> \in addedBy
      <3>1. CASE HeardAdded(h, u, c, l)
        <4>1. <<u, c>> \in addedBy
          BY <1>2, <3>1, HeadIs DEF HeardAdded, Heard
        <4> QED
          BY <1>2, <1>3, <3>1, <4>1, NothingIs DEF HeardAdded
      <3>2. CASE HeardRemoved(h, u, c, l)
        BY <1>2, <1>3, <3>2 DEF HeardRemoved, DropsPending
      <3> QED
        BY <3>1, <3>2
    <2>3. Still(m) \/ Writes(m, lives, addedBy)
      <3>1. CASE l.id = None /\ l.dirty = Nothing
        BY <1>2, <1>3, <3>1 DEF Still, Heard
      <3>2. CASE Changes(l, u, GivenUp)
        <4>1. Changes(m, u, GivenUp)
          BY <1>3, <3>2 DEF Changes
        <4> QED
          BY <1>2, <1>3, <4>1, GivenUpIs, ChangesWrites
      <3> QED
        BY <3>1, <3>2 DEF HeardAdded, HeardRemoved
    <2> QED
      BY <2>1, <2>2, <2>3 DEF Works
  <1>5. lives' = lives /\ addedBy' = addedBy
    BY <1>2 DEF Heard, Begins, dbVars
  <1>6. Works(m, lives', addedBy')
    BY <1>4, <1>5 DEF Works, Still, Writes, Bears, Erasing
  <1> QED
    BY <1>1, <1>2, <1>6 DEF Heard, Begins

LEMMA WorksStays ==
  ASSUME NEW l, NEW n \in Nat, NEW m \in Nat, n <= m, NEW a, NEW b, a \subseteq b, Works(l, n, a)
  PROVE  Works(l, m, b)
  <1>1. 1..n \subseteq 1..m
    OBVIOUS
  <1>2. Writes(l, n, a) => Writes(l, m, b)
    BY <1>1 DEF Writes
  <1>3. Bears(l, n) => Bears(l, m)
    BY <1>1 DEF Bears
  <1>4. Erasing(l, n) => Erasing(l, m)
    BY <1>1 DEF Erasing
  <1> QED
    BY <1>2, <1>3, <1>4 DEF Works

LEMMA BusyWorks ==
  ASSUME Jobs, NEW h \in Handlers, loc[h].pc # "idle"
  PROVE  Works(loc[h], lives, addedBy)
  BY IdleIs DEF Jobs
-----------------------------------------------------------------------------
(* What a commit leaves                                                    *)

LEMMA WrittenOver ==
  ASSUME NEW r \in Rows, Agrees(r), NEW f, Written(f)
  PROVE  /\ Over(f, r) \in Rows /\ Agrees(Over(f, r)) /\ Over(f, r)["id"] = r["id"]
         /\ \A c \in Columns : Over(f, r)[c] = IF c \in DOMAIN f THEN f[c] ELSE r[c]
  <1>1. DOMAIN r = Columns /\ \A c \in Columns : r[c] \in Values
    BY DEF Rows
  <1>2. DOMAIN f \subseteq Columns \ {"id"} /\ (\A c \in DOMAIN f : f[c] \in Values) /\ Agrees(f)
    BY DEF Written
  <1>3. {"id", "factOff", "factOn", "chFactOff", "chFactOn"} \subseteq Columns
    BY FreshIs
  <1>4. DOMAIN f \cup DOMAIN r = Columns
    BY <1>1, <1>2
  <1>5. Over(f, r) = [c \in Columns |-> IF c \in DOMAIN f THEN f[c] ELSE r[c]]
    BY <1>4 DEF Over
  <1>6. Over(f, r) \in Rows
    BY <1>1, <1>2, <1>5 DEF Rows
  <1>7. \A c \in Columns : Over(f, r)[c] = IF c \in DOMAIN f THEN f[c] ELSE r[c]
    BY <1>5
  <1>8. Over(f, r)["id"] = r["id"]
    BY <1>2, <1>3, <1>7
  <1>9. Agrees(Over(f, r))
    <2>1. DOMAIN Over(f, r) = Columns
      BY <1>5
    <2>2. /\ r["factOff"] = r["factOn"] /\ r["chFactOff"] = r["chFactOn"]
      BY <1>1, <1>3 DEF Agrees
    <2>3. Over(f, r)["factOff"] = Over(f, r)["factOn"]
      BY <1>2, <1>3, <1>7, <2>2 DEF Agrees
    <2>4. Over(f, r)["chFactOff"] = Over(f, r)["chFactOn"]
      BY <1>2, <1>3, <1>7, <2>2 DEF Agrees
    <2> QED
      BY <1>3, <2>1, <2>3, <2>4 DEF Agrees
  <1> QED
    BY <1>6, <1>7, <1>8, <1>9

\* A row may be in the database.
Stored(r, u, n, added) ==
  /\ r \in Rows /\ r["id"] \in 1..n /\ Agrees(r)
  /\ r["chan"] # None => r["chan"] \in Channels /\ <<u, r["chan"]>> \in added

LEMMA RowStored ==
  ASSUME Base, NEW u \in Users
  PROVE  row[u] = None \/ Stored(row[u], u, lives, addedBy)
  BY DEF Base, Stored

LEMMA RetiredIs ==
  ASSUME NEW f, f = [active |-> FALSE]
  PROVE  Written(f) /\ DOMAIN f = {"active"} /\ f["active"] = FALSE
  <1>1. DOMAIN f = {"active"} /\ f["active"] = FALSE
    OBVIOUS
  <1> QED
    BY <1>1, OtherIsWritten, BooleanValues DEF Others

LEMMA NumberIsNoNone == \A n \in Nat : \A i \in 1..n : i # None /\ i # AnyLife
  BY SessionsAssumption DEF AnyLife

LEMMA RowAfterIs ==
  ASSUME Base, NEW l, Works(l, lives, addedBy), l.pc = "commit", Fits(l)
  PROVE  LET r == RowAfter(l, row[l.user]) IN r = None \/ Stored(r, l.user, lives, addedBy)
  <1> DEFINE u == l.user
             r == row[u]
  <1>1. u \in Users /\ lives \in Nat
    BY DEF Works, Base
  <1>2. r = None \/ Stored(r, u, lives, addedBy)
    BY <1>1, RowStored
  <1>3. CASE l.erase
    BY <1>2, <1>3 DEF RowAfter
  <1>4. CASE ~ l.erase /\ l.dirty = Nothing
    BY <1>2, <1>4 DEF RowAfter
  <1>5. ASSUME Written(l.dirty), r # None,
               "chan" \in DOMAIN l.dirty => l.dirty["chan"] = None \/ (l.dirty["chan"] \in Channels /\ <<u, l.dirty["chan"]>> \in addedBy)
        PROVE  Stored(Over(l.dirty, r), u, lives, addedBy)
    <2>1. r \in Rows /\ r["id"] \in 1..lives /\ Agrees(r)
      BY <1>2, <1>5 DEF Stored
    <2>2. /\ Over(l.dirty, r) \in Rows /\ Agrees(Over(l.dirty, r)) /\ Over(l.dirty, r)["id"] = r["id"]
          /\ \A c \in Columns : Over(l.dirty, r)[c] = IF c \in DOMAIN l.dirty THEN l.dirty[c] ELSE r[c]
      BY <1>5, <2>1, WrittenOver
    <2>3. Over(l.dirty, r)["chan"] = IF "chan" \in DOMAIN l.dirty THEN l.dirty["chan"] ELSE r["chan"]
      BY <2>2, FreshIs
    <2> QED
      BY <1>2, <1>5, <2>1, <2>2, <2>3 DEF Stored
  <1>6. CASE ~ l.erase /\ l.dirty # Nothing /\ Writes(l, lives, addedBy)
    <2>1. l.id # None
      BY <1>1, <1>6, NumberIsNoNone DEF Writes
    <2>2. RowAfter(l, r) = IF r = None THEN None ELSE Over(l.dirty, r)
      BY <1>6, <2>1 DEF RowAfter
    <2> QED
      BY <1>5, <1>6, <2>2 DEF Writes
  <1>7. CASE ~ l.erase /\ l.dirty # Nothing /\ Bears(l, lives)
    <2>1. RowAfter(l, r) = l.dirty
      BY <1>7 DEF RowAfter, Bears
    <2>2. l.dirty \in Rows /\ \A c \in Columns \ {"id", "active", "region", "queue"} : l.dirty[c] = Fresh[c]
      BY <1>7 DEF Bears, Newborn
    <2>3. DOMAIN l.dirty = Columns
      BY <2>2 DEF Rows
    <2>4. l.dirty["factOff"] = l.dirty["factOn"] /\ l.dirty["chFactOff"] = l.dirty["chFactOn"] /\ l.dirty["chan"] = None
      BY <2>2, FreshIs
    <2>5. Agrees(l.dirty)
      BY <2>3, <2>4, FreshIs DEF Agrees
    <2> QED
      BY <1>7, <2>1, <2>2, <2>4, <2>5 DEF Stored, Bears
  <1>8. CASE ~ l.erase /\ l.dirty # Nothing /\ Retires([l EXCEPT !.pending = Nothing])
    <2>1. l.id = AnyLife /\ l.dirty = [active |-> FALSE]
      BY <1>8 DEF Retires, Works, Fields
    <2>2. l.id # None
      BY <2>1, SessionsAssumption DEF AnyLife
    <2>3. RowAfter(l, r) = IF r = None THEN None ELSE Over(l.dirty, r)
      BY <1>8, <2>2 DEF RowAfter
    <2>4. Written(l.dirty) /\ DOMAIN l.dirty = {"active"}
      BY <2>1, RetiredIs
    <2> QED
      BY <1>5, <2>3, <2>4
  <1> QED
    BY <1>3, <1>4, <1>6, <1>7, <1>8 DEF Works, Still, Erasing
-----------------------------------------------------------------------------
(* Types, flags and channels of the rows                                   *)

\* h goes on with m, or is done; the others stay as they are.
LEMMA JobsStay ==
  ASSUME Base, Jobs, NEW h \in Handlers, NEW m, loc' = [loc EXCEPT ![h] = m],
         lives' \in Nat, lives <= lives', addedBy \subseteq addedBy', m = Idle \/ Works(m, lives', addedBy')
  PROVE  DOMAIN loc' = Handlers /\ Jobs'
  <1>1. DOMAIN loc = Handlers /\ lives \in Nat
    BY DEF Base
  <1>2. ASSUME NEW g \in Handlers
        PROVE  loc'[g] = Idle \/ Works(loc'[g], lives', addedBy')
    <2>1. CASE g = h
      BY <1>1, <2>1
    <2>2. CASE g # h
      <3>1. loc'[g] = loc[g]
        BY <1>1, <2>2
      <3>2. loc[g] = Idle \/ Works(loc[g], lives, addedBy)
        BY DEF Jobs
      <3> QED
        BY <1>1, <3>1, <3>2, WorksStays
    <2> QED
      BY <2>1, <2>2
  <1> QED
    BY <1>1, <1>2 DEF Jobs

\* Conversations.
Talks(f) == DOMAIN f = Users /\ \A u \in Users : Told(f[u]) /\ DOMAIN f[u] = Slots

\* What a step that writes no row leaves.
LEMMA BaseStays ==
  ASSUME Base, UNCHANGED <<row, alert, pending>>, lives' \in Nat, lives <= lives', addedBy \subseteq addedBy',
         Talks(fsm'), DOMAIN loc' = Handlers,
         updates' \in Seq([chan : Channels, by : Users \cup {None}, added : BOOLEAN]),
         \A i \in DOMAIN updates' :
           updates'[i].added => updates'[i].by \in Users /\ <<updates'[i].by, updates'[i].chan>> \in addedBy'
  PROVE  Base'
  <1>1. lives' \in Nat \ {0} /\ 1..lives \subseteq 1..lives'
    BY DEF Base
  <1>2. \A u \in Users : row'[u] # None =>
          /\ row'[u].id \in 1..lives' /\ Agrees(row'[u])
          /\ row'[u].chan # None => row'[u].chan \in Channels /\ <<u, row'[u].chan>> \in addedBy'
    BY <1>1 DEF Base
  <1>3. \A c \in Channels : pending'[c] # None => <<pending'[c], c>> \in addedBy'
    BY DEF Base
  <1> QED
    BY <1>1, <1>2, <1>3 DEF Base, Talks

LEMMA TailIs ==
  ASSUME NEW S, NEW q \in Seq(S), q # <<>>
  PROVE  /\ Tail(q) \in Seq(S) /\ Len(Tail(q)) = Len(q) - 1
         /\ \A i \in DOMAIN Tail(q) : i + 1 \in DOMAIN q /\ Tail(q)[i] = q[i + 1]
         /\ \A i \in DOMAIN q : i # 1 => i - 1 \in DOMAIN Tail(q) /\ Tail(q)[i - 1] = q[i]
  OBVIOUS

LEMMA OpenedKeeps ==
  ASSUME Base, Jobs, NEW h \in Handlers, NEW u \in Users, NEW l, Opened(h, u, l)
  PROVE  Base' /\ Jobs'
  <1>1. loc' = [loc EXCEPT ![h] = [l EXCEPT !.user = u]] /\ Works([l EXCEPT !.user = u], lives', addedBy')
    BY OpenedWorks
  <1>2. UNCHANGED <<row, alert, pending, lives, addedBy, updates>>
    BY DEF Opened, Begins, dbVars, channelVars
  <1>3. UNCHANGED fsm \/ fsm' = [fsm EXCEPT ![u] = Cleared]
    BY DEF Opened
  <1>4. Talks(fsm')
    BY <1>3, ClearedIs, ClearedIsReady DEF Base, Talks
  <1>5. lives \in Nat /\ lives' \in Nat /\ lives <= lives' /\ addedBy \subseteq addedBy'
    BY <1>2 DEF Base
  <1>6. DOMAIN loc' = Handlers /\ Jobs'
    <2>1. PICK m : m = [l EXCEPT !.user = u]
      OBVIOUS
    <2> QED
      BY <1>1, <1>5, <2>1, JobsStay
  <1> QED
    BY <1>2, <1>4, <1>5, <1>6, BaseStays DEF Base

LEMMA HeardKeeps ==
  ASSUME Base, Jobs, NEW h \in Handlers, NEW u, NEW c, NEW l, HeardAdded(h, u, c, l) \/ HeardRemoved(h, u, c, l)
  PROVE  Base' /\ Jobs'
  <1>1. loc' = [loc EXCEPT ![h] = [l EXCEPT !.user = u]] /\ Works([l EXCEPT !.user = u], lives', addedBy')
    BY HeardWorks
  <1>2. Heard(h, u, l)
    BY DEF HeardAdded, HeardRemoved
  <1>3. UNCHANGED <<row, alert, pending, lives, addedBy, fsm>> /\ updates # <<>> /\ updates' = Tail(updates)
    BY <1>2 DEF Heard, Begins, dbVars
  <1>4. Talks(fsm')
    BY <1>3 DEF Base, Talks
  <1>5. lives \in Nat /\ lives' \in Nat /\ lives <= lives' /\ addedBy \subseteq addedBy'
    BY <1>3 DEF Base
  <1>6. DOMAIN loc' = Handlers /\ Jobs'
    <2>1. PICK m : m = [l EXCEPT !.user = u]
      OBVIOUS
    <2> QED
      BY <1>1, <1>5, <2>1, JobsStay
  <1> DEFINE S == [chan : Channels, by : Users \cup {None}, added : BOOLEAN]
  <1>7. updates \in Seq(S)
    BY DEF Base
  <1>8. \A i \in DOMAIN updates : updates[i].added => updates[i].by \in Users /\ <<updates[i].by, updates[i].chan>> \in addedBy
    BY DEF Base
  <1> HIDE DEF S
  <1>9. updates' \in Seq(S) /\ \A i \in DOMAIN updates' : i + 1 \in DOMAIN updates /\ updates'[i] = updates[i + 1]
    BY <1>3, <1>7, TailIs
  <1>10. \A i \in DOMAIN updates' :
           updates'[i].added => updates'[i].by \in Users /\ <<updates'[i].by, updates'[i].chan>> \in addedBy'
    BY <1>3, <1>8, <1>9
  <1> QED
    BY <1>3, <1>4, <1>5, <1>6, <1>9, <1>10, BaseStays DEF S

\* What a flush makes of a row to be.
LEMMA NumberedIs ==
  ASSUME lives \in Nat, NEW l, DOMAIN l = Fields, Bears(l, lives),
         NEW m, m = [Numbered(l) EXCEPT !.pc = "answer", !.held = TRUE]
  PROVE  /\ DOMAIN m = Fields /\ m.pc = "answer" /\ m.user = l.user /\ m.id = None /\ m.erase = l.erase
         /\ m.then = l.then /\ m.alert = l.alert /\ m.pending = l.pending /\ m.lost = l.lost
         /\ m.dirty["id"] = lives + 1 /\ \A c \in Columns \ {"id"} : m.dirty[c] = l.dirty[c]
         /\ Bears(m, lives + 1)
  <1>1. PICK d : d = [l.dirty EXCEPT !.id = lives + 1]
    OBVIOUS
  <1>2. PICK k : k = [l EXCEPT !.dirty = d]
    OBVIOUS
  <1>3. Numbered(l) = k
    BY <1>1, <1>2 DEF Numbered, Bears
  <1>4. /\ DOMAIN k = Fields /\ k.user = l.user /\ k.id = l.id /\ k.dirty = d /\ k.erase = l.erase
        /\ k.then = l.then /\ k.alert = l.alert /\ k.pending = l.pending /\ k.lost = l.lost
    BY <1>2 DEF Fields
  <1>5. /\ DOMAIN m = Fields /\ m.pc = "answer" /\ m.user = l.user /\ m.id = l.id /\ m.dirty = d /\ m.erase = l.erase
        /\ m.then = l.then /\ m.alert = l.alert /\ m.pending = l.pending /\ m.lost = l.lost
    <2>1. m = [k EXCEPT !.pc = "answer", !.held = TRUE]
      BY <1>3
    <2> QED
      BY <1>4, <2>1 DEF Fields
  <1>6. l.dirty \in [Columns -> Values] /\ \A c \in Columns \ {"id", "region", "queue"} : l.dirty[c] = Fresh[c]
    BY DEF Bears, Newborn, Rows
  <1>7. lives + 1 \in Values /\ "id" \in Columns
    BY BooleanValues, FreshIs
  <1>8. d \in [Columns -> Values] /\ d["id"] = lives + 1 /\ \A c \in Columns \ {"id"} : d[c] = l.dirty[c]
    BY <1>1, <1>6, <1>7
  <1>9. Newborn(d)
    BY <1>6, <1>8 DEF Newborn, Rows
  <1>10. lives + 1 \in 1..(lives + 1)
    OBVIOUS
  <1>11. l.id = None /\ ~ l.erase
    BY DEF Bears
  <1> QED
    BY <1>5, <1>8, <1>9, <1>10, <1>11 DEF Bears

\* m is what a flush makes of l, when n is the number of the last row made.
Flushed(l, m, n) ==
  /\ Works(m, n, addedBy) /\ Fits(l) /\ m.pc = "answer" /\ m.user = l.user /\ m.then = l.then /\ m.lost = l.lost
  /\ m.pending = l.pending /\ m.id = l.id /\ m.erase = l.erase /\ m.alert = l.alert
  /\ l.id # None => m.dirty = l.dirty
  /\ l.id = None => /\ m.dirty["id"] = lives + 1 /\ \A c \in Columns \ {"id"} : m.dirty[c] = l.dirty[c]
                    /\ Bears(l, lives) /\ Bears(m, n)

LEMMA FlushedIs ==
  ASSUME Base, NEW l, Works(l, lives, addedBy), l.pc = "flush", NEW m,
         m = IF Fits(l) THEN [Numbered(l) EXCEPT !.pc = "answer", !.held = TRUE] ELSE Idle,
         NEW n, n = IF l.id = None THEN lives + 1 ELSE lives
  PROVE  n \in Nat /\ lives <= n /\ (m = Idle \/ Flushed(l, m, n))
  <1>1. lives \in Nat
    BY DEF Base
  <1>2. CASE Fits(l) /\ l.id = None
    <2>1. ~ Retires([l EXCEPT !.pending = Nothing]) /\ ~ Writes(l, lives, addedBy) /\ ~ Erasing(l, lives)
      BY <1>1, <1>2, NumberIsNoNone, SessionsAssumption DEF Retires, Writes, Erasing, Works, Fields, AnyLife
    <2>2. Bears(l, lives)
      BY <2>1 DEF Works, Still
    <2>3. m = [Numbered(l) EXCEPT !.pc = "answer", !.held = TRUE] /\ n = lives + 1
      BY <1>2
    <2>4. /\ DOMAIN m = Fields /\ m.pc = "answer" /\ m.user = l.user /\ m.id = None /\ m.erase = l.erase
          /\ m.then = l.then /\ m.alert = l.alert /\ m.pending = l.pending /\ m.lost = l.lost
          /\ m.dirty["id"] = lives + 1 /\ \A c \in Columns \ {"id"} : m.dirty[c] = l.dirty[c]
          /\ Bears(m, lives + 1)
      BY <1>1, <2>2, <2>3, NumberedIs DEF Works
    <2>5. Works(m, n, addedBy)
      BY <2>3, <2>4 DEF Works
    <2> QED
      BY <1>1, <1>2, <2>2, <2>3, <2>4, <2>5 DEF Flushed
  <1>3. CASE Fits(l) /\ l.id # None
    <2>1. m = [l EXCEPT !.pc = "answer", !.held = TRUE] /\ n = lives
      BY <1>3 DEF Numbered
    <2>2. /\ DOMAIN m = Fields /\ m.pc = "answer" /\ m.user = l.user /\ m.id = l.id /\ m.dirty = l.dirty
          /\ m.erase = l.erase /\ m.then = l.then /\ m.alert = l.alert /\ m.pending = l.pending /\ m.lost = l.lost
      BY <2>1 DEF Works, Fields
    <2>3. Still(l) => Still(m)
      BY <2>2 DEF Still
    <2>4. Writes(l, lives, addedBy) => Writes(m, lives, addedBy)
      BY <2>2 DEF Writes
    <2>5. ~ Bears(l, lives)
      BY <1>3 DEF Bears
    <2>6. Erasing(l, lives) => Erasing(m, lives)
      BY <2>2 DEF Erasing
    <2>7. Retires([l EXCEPT !.pending = Nothing]) => Retires([m EXCEPT !.pending = Nothing])
      BY <2>2 DEF Retires, Works, Fields
    <2>8. Works(m, lives, addedBy)
      BY <2>2, <2>3, <2>4, <2>5, <2>6, <2>7 DEF Works
    <2> QED
      BY <1>1, <1>3, <2>1, <2>2, <2>8 DEF Flushed
  <1>4. CASE ~ Fits(l)
    BY <1>1, <1>4
  <1> QED
    BY <1>2, <1>3, <1>4

LEMMA FlushKeeps ==
  ASSUME Base, Jobs, NEW h \in Handlers, Flush(h), UNCHANGED channelVars
  PROVE  Base' /\ Jobs'
  <1>1. PICK l : l = loc[h]
    OBVIOUS
  <1>2. PICK m : m = IF Fits(l) THEN [Numbered(l) EXCEPT !.pc = "answer", !.held = TRUE] ELSE Idle
    OBVIOUS
  <1>3. PICK n : n = IF l.id = None THEN lives + 1 ELSE lives
    OBVIOUS
  <1>4. l.pc = "flush" /\ loc' = [loc EXCEPT ![h] = m] /\ lives' = n /\ UNCHANGED <<row, alert, pending, fsm>>
    BY <1>1, <1>2, <1>3 DEF Flush, Base
  <1>5. Works(l, lives, addedBy)
    BY <1>1, <1>4, BusyWorks
  <1>6. n \in Nat /\ lives <= n /\ (m = Idle \/ Works(m, n, addedBy))
    BY <1>2, <1>3, <1>4, <1>5, FlushedIs DEF Flushed
  <1>7. UNCHANGED <<addedBy, updates>>
    BY DEF channelVars
  <1>8. DOMAIN loc' = Handlers /\ Jobs'
    BY <1>4, <1>6, <1>7, JobsStay
  <1> QED
    BY <1>4, <1>6, <1>7, <1>8, BaseStays DEF Base, Talks

LEMMA AnsweredIs ==
  ASSUME NEW l, NEW n, NEW a, Works(l, n, a), l.pc = "answer", NEW m, m = [l EXCEPT !.pc = "commit"]
  PROVE  /\ Works(m, n, a) /\ m.user = l.user /\ m.id = l.id /\ m.dirty = l.dirty /\ m.erase = l.erase
         /\ m.then = l.then /\ m.alert = l.alert /\ m.pending = l.pending /\ m.lost = l.lost /\ m.pc = "commit"
         /\ Bears(m, n) => Bears(l, n)
  <1>1. /\ DOMAIN m = Fields /\ m.pc = "commit" /\ m.user = l.user /\ m.id = l.id /\ m.dirty = l.dirty
        /\ m.erase = l.erase /\ m.then = l.then /\ m.alert = l.alert /\ m.pending = l.pending /\ m.lost = l.lost
    BY DEF Works, Fields
  <1>2. Still(l) => Still(m)
    BY <1>1 DEF Still
  <1>3. Writes(l, n, a) => Writes(m, n, a)
    BY <1>1 DEF Writes
  <1>4. Bears(l, n) <=> Bears(m, n)
    BY <1>1 DEF Bears
  <1>5. Erasing(l, n) => Erasing(m, n)
    BY <1>1 DEF Erasing
  <1>6. Retires([l EXCEPT !.pending = Nothing]) => Retires([m EXCEPT !.pending = Nothing])
    BY <1>1 DEF Retires, Works, Fields
  <1> QED
    BY <1>1, <1>2, <1>3, <1>4, <1>5, <1>6 DEF Works

LEMMA AnswerKeeps ==
  ASSUME Base, Jobs, NEW h \in Handlers, Answer(h), UNCHANGED channelVars
  PROVE  Base' /\ Jobs'
  <1>1. PICK l : l = loc[h]
    OBVIOUS
  <1>2. PICK m : m = [l EXCEPT !.pc = "commit"]
    OBVIOUS
  <1>3. /\ l.pc = "answer" /\ loc' = [loc EXCEPT ![h] = m] /\ UNCHANGED <<row, alert, pending, lives>>
        /\ fsm' = [fsm EXCEPT ![l.user] = Over(l.then, fsm[l.user])]
    BY <1>1, <1>2 DEF Answer, Base, dbVars
  <1>4. Works(l, lives, addedBy)
    BY <1>1, <1>3, BusyWorks
  <1>5. Works(m, lives, addedBy)
    BY <1>2, <1>3, <1>4, AnsweredIs
  <1>6. UNCHANGED <<addedBy, updates>> /\ lives' \in Nat /\ lives <= lives' /\ addedBy \subseteq addedBy'
    BY <1>3 DEF channelVars, Base
  <1>7. DOMAIN loc' = Handlers /\ Jobs'
    BY <1>3, <1>5, <1>6, JobsStay
  <1>8. Talks(fsm')
    <2>1. l.user \in Users /\ Told(l.then)
      BY <1>4 DEF Works
    <2>2. Told(Over(l.then, fsm[l.user])) /\ DOMAIN Over(l.then, fsm[l.user]) = Slots
      BY <2>1, OverTold DEF Base
    <2> QED
      BY <1>3, <2>1, <2>2 DEF Base, Talks
  <1> QED
    BY <1>3, <1>6, <1>7, <1>8, BaseStays DEF Base

LEMMA AlertAfterIs ==
  ASSUME NEW l, l.alert \in {"keep", "stop"} \cup Addresses, NEW a \in Alerts \cup {None}
  PROVE  /\ AlertAfter(l, a) \in Alerts \cup {None}
         /\ a # None => AlertAfter(l, a) # None /\ AlertAfter(l, a).last = a.last
  BY NoneAssumption DEF AlertAfter, Stopped, Alerts, Times

LEMMA CommitKeeps ==
  ASSUME Base, Jobs, NEW h \in Handlers, Commit(h), UNCHANGED channelVars
  PROVE  Base' /\ Jobs'
  <1>1. PICK l : l = loc[h]
    OBVIOUS
  <1>2. PICK u : u = l.user
    OBVIOUS
  <1>3. /\ l.pc = "commit" /\ loc' = [loc EXCEPT ![h] = Idle] /\ UNCHANGED <<lives, fsm>>
        /\ \/ UNCHANGED <<row, alert, pending>>
           \/ /\ Fits(l) /\ row' = [row EXCEPT ![u] = RowAfter(l, row[u])]
              /\ alert' = [alert EXCEPT ![u] = AlertAfter(l, alert[u])] /\ pending' = Over(l.pending, pending)
    BY <1>1, <1>2 DEF Commit, Base
  <1>4. Works(l, lives, addedBy) /\ u \in Users
    BY <1>1, <1>2, <1>3, BusyWorks DEF Works
  <1>5. UNCHANGED <<addedBy, updates>> /\ lives' \in Nat /\ lives <= lives' /\ addedBy \subseteq addedBy'
    BY <1>3 DEF channelVars, Base
  <1>6. DOMAIN loc' = Handlers /\ Jobs'
    BY <1>3, <1>5, JobsStay
  <1>7. Talks(fsm')
    BY <1>3 DEF Base, Talks
  <1>8. CASE UNCHANGED <<row, alert, pending>>
    BY <1>3, <1>5, <1>6, <1>7, <1>8, BaseStays DEF Base
  <1>9. CASE /\ Fits(l) /\ row' = [row EXCEPT ![u] = RowAfter(l, row[u])]
             /\ alert' = [alert EXCEPT ![u] = AlertAfter(l, alert[u])] /\ pending' = Over(l.pending, pending)
    <2>1. \A v \in Users : row'[v] = None \/ Stored(row'[v], v, lives', addedBy')
      <3> TAKE v \in Users
      <3>1. CASE v = u
        <4>1. RowAfter(l, row[u]) = None \/ Stored(RowAfter(l, row[u]), u, lives, addedBy)
          BY <1>2, <1>3, <1>4, <1>9, RowAfterIs
        <4> QED
          BY <1>3, <1>5, <1>9, <3>1, <4>1 DEF Base
      <3>2. CASE v # u
        BY <1>3, <1>5, <1>9, <3>2, RowStored DEF Base
      <3> QED
        BY <3>1, <3>2
    <2>2. row' \in [Users -> Rows \cup {None}]
      <3>1. DOMAIN row' = Users /\ row' = [v \in Users |-> row'[v]]
        BY <1>9 DEF Base
      <3> QED
        BY <2>1, <3>1 DEF Stored
    <2>3. \A v \in Users : row'[v] # None =>
            /\ row'[v].id \in 1..lives' /\ Agrees(row'[v])
            /\ row'[v].chan # None => row'[v].chan \in Channels /\ <<v, row'[v].chan>> \in addedBy'
      BY <2>1 DEF Stored
    <2>4. alert' \in [Users -> Alerts \cup {None}]
      <3>1. AlertAfter(l, alert[u]) \in Alerts \cup {None}
        BY <1>4, AlertAfterIs DEF Base, Works
      <3> QED
        BY <1>9, <3>1 DEF Base
    <2>5. /\ pending' \in [Channels -> Users \cup {None}]
          /\ \A c \in Channels : pending'[c] # None => <<pending'[c], c>> \in addedBy'
      <3>1. DOMAIN l.pending \cup DOMAIN pending = Channels
        BY <1>4 DEF Works, Base
      <3>2. pending' = [c \in Channels |-> IF c \in DOMAIN l.pending THEN l.pending[c] ELSE pending[c]]
        BY <1>9, <3>1 DEF Over
      <3>3. \A c \in DOMAIN l.pending : l.pending[c] # None => l.pending[c] \in Users /\ <<l.pending[c], c>> \in addedBy
        BY <1>4 DEF Works
      <3>4. pending \in [Channels -> Users \cup {None}] /\ \A c \in Channels : pending[c] # None => <<pending[c], c>> \in addedBy
        BY DEF Base
      <3> QED
        BY <1>5, <3>2, <3>3, <3>4
    <2> QED
      BY <1>3, <1>5, <1>6, <1>7, <2>2, <2>3, <2>4, <2>5 DEF Base, Talks
  <1> QED
    BY <1>3, <1>8, <1>9

LEMMA FailKeeps ==
  ASSUME Base, Jobs, NEW h \in Handlers, Fail(h), UNCHANGED <<updates, addedBy>>
  PROVE  Base' /\ Jobs'
  <1>1. loc' = [loc EXCEPT ![h] = Idle] /\ UNCHANGED <<row, alert, pending, lives, fsm>>
    BY DEF Fail, dbVars
  <1>2. lives' \in Nat /\ lives <= lives' /\ addedBy \subseteq addedBy'
    BY <1>1 DEF Base
  <1>3. DOMAIN loc' = Handlers /\ Jobs'
    BY <1>1, <1>2, JobsStay
  <1> QED
    BY <1>1, <1>2, <1>3, BaseStays DEF Base, Talks

SwitchesOff(u) ==
  /\ row[u] # None /\ row' = [row EXCEPT ![u] = [row[u] EXCEPT !.active = FALSE]]
  /\ switchedOff' = switchedOff \cup {u}

\* The daily loop deactivates a user at most.
Aside ==
  /\ UNCHANGED <<pending, lives, fsm, loc, touched, mixed, channelVars>>
  /\ alert' \in [Users -> Alerts \cup {None}]
  /\ \/ UNCHANGED <<row, switchedOff>>
     \/ \E u \in Users : SwitchesOff(u)

LEMMA AsideRows ==
  ASSUME Base, Aside
  PROVE  /\ row' \in [Users -> Rows \cup {None}]
         /\ \A u \in Users : /\ row'[u] = None <=> row[u] = None
                             /\ row[u] # None => \A c \in Columns \ {"active"} : row'[u][c] = row[u][c]
  <1>1. CASE UNCHANGED row
    BY <1>1 DEF Base
  <1>2. CASE \E u \in Users : SwitchesOff(u)
    <2>1. PICK u \in Users : row[u] # None /\ row' = [row EXCEPT ![u] = [row[u] EXCEPT !.active = FALSE]]
      BY <1>2 DEF SwitchesOff
    <2>2. row[u] \in [Columns -> Values] /\ FALSE \in Values
      BY <2>1, BooleanValues DEF Base, Rows
    <2>3. PICK r : r = [row[u] EXCEPT !.active = FALSE]
      OBVIOUS
    <2>4. r \in [Columns -> Values] /\ \A c \in Columns \ {"active"} : r[c] = row[u][c]
      BY <2>2, <2>3
    <2>5. r \in Rows /\ r # None
      BY <2>4, NoneAssumption DEF Rows
    <2>6. row' = [row EXCEPT ![u] = r] /\ row \in [Users -> Rows \cup {None}]
      BY <2>1, <2>3 DEF Base
    <2> QED
      BY <2>1, <2>4, <2>5, <2>6
  <1> QED
    BY <1>1, <1>2 DEF Aside

LEMMA AsideKeeps ==
  ASSUME Base, Jobs, Aside
  PROVE  Base' /\ Jobs'
  <1>1. UNCHANGED <<pending, lives, fsm, loc, addedBy, updates>> /\ alert' \in [Users -> Alerts \cup {None}]
    BY DEF Aside, channelVars
  <1>2. /\ row' \in [Users -> Rows \cup {None}]
        /\ \A u \in Users : /\ row'[u] = None <=> row[u] = None
                            /\ row[u] # None => \A c \in Columns \ {"active"} : row'[u][c] = row[u][c]
    BY AsideRows
  <1>3. \A u \in Users : row'[u] # None =>
          /\ row'[u].id \in 1..lives' /\ Agrees(row'[u])
          /\ row'[u].chan # None => row'[u].chan \in Channels /\ <<u, row'[u].chan>> \in addedBy'
    <2> SUFFICES ASSUME NEW u \in Users, row'[u] # None
                 PROVE  /\ row'[u].id \in 1..lives' /\ Agrees(row'[u])
                        /\ row'[u].chan # None => row'[u].chan \in Channels /\ <<u, row'[u].chan>> \in addedBy'
      OBVIOUS
    <2>1. Stored(row[u], u, lives, addedBy)
      BY <1>2, RowStored
    <2>2. {"id", "chan", "factOff", "factOn", "chFactOff", "chFactOn"} \subseteq Columns \ {"active"}
      BY FreshIs
    <2>3. \A c \in {"id", "chan", "factOff", "factOn", "chFactOff", "chFactOn"} : row'[u][c] = row[u][c]
      BY <1>2, <2>2
    <2>4. row[u] \in Rows /\ row'[u] \in Rows
      BY <1>2, <2>1 DEF Stored
    <2>5. DOMAIN row[u] = Columns /\ DOMAIN row'[u] = Columns
      BY <2>4 DEF Rows
    <2>6. Agrees(row'[u])
      BY <2>1, <2>2, <2>3, <2>5 DEF Stored, Agrees
    <2> QED
      BY <1>1, <2>1, <2>3, <2>6 DEF Stored
  <1>4. Jobs'
    BY <1>1 DEF Jobs
  <1> QED
    BY <1>1, <1>2, <1>3, <1>4 DEF Base

LEMMA MembershipKeeps ==
  ASSUME Base, Jobs, \/ \E u \in Users, c \in Channels : Promote(u, c)
                     \/ \E c \in Channels : Demote(c)
  PROVE  Base' /\ Jobs'
  <1> DEFINE S == [chan : Channels, by : Users \cup {None}, added : BOOLEAN]
  <1>1. PICK x \in S : /\ updates' = Append(updates, x) /\ addedBy \subseteq addedBy'
                       /\ UNCHANGED <<row, alert, pending, lives, fsm, loc>>
                       /\ x.added => x.by \in Users /\ <<x.by, x.chan>> \in addedBy'
    <2>1. CASE \E u \in Users, c \in Channels : Promote(u, c)
      <3>1. PICK u \in Users, c \in Channels : Promote(u, c)
        BY <2>1
      <3>2. PICK x : x = [chan |-> c, by |-> u, added |-> TRUE]
        OBVIOUS
      <3>3. x \in S /\ x.by = u /\ x.chan = c
        BY <3>2
      <3> QED
        BY <3>1, <3>2, <3>3 DEF Promote, dbVars
    <2>2. CASE \E c \in Channels : Demote(c)
      <3>1. PICK c \in Channels : Demote(c)
        BY <2>2
      <3>2. PICK x : x = [chan |-> c, by |-> None, added |-> FALSE]
        OBVIOUS
      <3>3. x \in S /\ ~ x.added
        BY <3>2
      <3> QED
        BY <3>1, <3>2, <3>3 DEF Demote, dbVars
    <2> QED
      BY <2>1, <2>2
  <1>2. updates \in Seq(S)
    BY DEF Base
  <1>3. \A i \in DOMAIN updates : updates[i].added => updates[i].by \in Users /\ <<updates[i].by, updates[i].chan>> \in addedBy
    BY DEF Base
  <1> HIDE DEF S
  <1>4. /\ updates' \in Seq(S)
        /\ \A i \in DOMAIN updates' : (i \in DOMAIN updates /\ updates'[i] = updates[i]) \/ updates'[i] = x
    BY <1>1, <1>2
  <1>5. \A i \in DOMAIN updates' :
          updates'[i].added => updates'[i].by \in Users /\ <<updates'[i].by, updates'[i].chan>> \in addedBy'
    BY <1>1, <1>3, <1>4
  <1>6. lives \in Nat /\ lives' \in Nat /\ lives <= lives'
    BY <1>1 DEF Base
  <1>7. Jobs'
    BY <1>1, <1>6, WorksStays DEF Jobs
  <1> QED
    BY <1>1, <1>4, <1>5, <1>6, <1>7, BaseStays DEF Base, Talks, S
-----------------------------------------------------------------------------
(* The daily loop                                                          *)

\* An alert that was read belongs to somebody who has one, and says when the last
\* message was; one that was sent is stamped before the next is taken up.
Daily ==
  /\ DOMAIN warned = Users
  /\ \A x \in batch : x.user \in Users /\ alert[x.user] # None
  /\ \A x \in batch : \A y \in batch : x.user = y.user => x = y
  /\ stamp # None => stamp \in Users /\ alert[stamp] # None /\ \A x \in batch : x.user # stamp
  /\ \A x \in batch : warned[x.user] = "recent" /\ x.user \notin missed => x.alert.last = "recent"
  /\ \A u \in Users : warned[u] = "recent" /\ u \notin missed =>
       stamp = u \/ (alert[u] # None /\ alert[u].last = "recent")

DailyStep ==
  /\ \/ \E x \in batch : DailyDrop(x) \/ DailyAlive(x) \/ DailyForbidden(x) \/ DailySend(x)
     \/ Day \/ DailyRead \/ DailyStamp
  /\ UNCHANGED channelVars

\* The last message, as the alert remembers it.
Same(a, b) == a # None => b # None /\ b.last = a.last

\* Whoever else touches an alert leaves the time of the last message.
LEMMA DailyStays ==
  ASSUME Daily, UNCHANGED accountVars, \A u \in Users : Same(alert[u], alert'[u])
  PROVE  Daily'
  <1>1. UNCHANGED <<batch, stamp, warned, missed>>
    BY DEF accountVars
  <1> QED
    BY <1>1 DEF Daily, Same

LEMMA StoppedIs ==
  ASSUME NEW a \in Alerts \cup {None}
  PROVE  Stopped(a) \in Alerts \cup {None} /\ Same(a, Stopped(a))
  BY NoneAssumption DEF Stopped, Alerts, Same

LEMMA DoneAlert ==
  ASSUME Base, NEW u \in Users, alert' = [alert EXCEPT ![u] = Stopped(alert[u])]
  PROVE  alert' \in [Users -> Alerts \cup {None}] /\ \A v \in Users : Same(alert[v], alert'[v])
  <1>1. Stopped(alert[u]) \in Alerts \cup {None} /\ Same(alert[u], Stopped(alert[u]))
    BY StoppedIs DEF Base
  <1> QED
    BY <1>1 DEF Base, Same

\* An alert is taken from those that were read.
LEMMA TakenKeeps ==
  ASSUME Daily, NEW x \in batch, batch' = batch \ {x}, UNCHANGED <<stamp, warned, missed>>,
         \A u \in Users : Same(alert[u], alert'[u])
  PROVE  Daily'
  BY DEF Daily, Same

LEMMA DropKeeps ==
  ASSUME Base, Daily, NEW x \in batch, DailyDrop(x), UNCHANGED channelVars
  PROVE  Aside /\ Daily'
  <1>1. Aside
    BY DEF DailyDrop, sessionVars, dbVars, Aside, Base
  <1>2. /\ batch' = batch \ {x} /\ UNCHANGED <<alert, stamp, warned, missed>>
    BY DEF DailyDrop, sessionVars, dbVars
  <1>3. \A u \in Users : Same(alert[u], alert'[u])
    BY <1>2 DEF Same
  <1> QED
    BY <1>1, <1>2, <1>3, TakenKeeps

LEMMA DoneKeeps ==
  ASSUME Base, Daily, NEW x \in batch, DailyAlive(x) \/ DailyForbidden(x), UNCHANGED channelVars
  PROVE  Aside /\ Daily'
  <1>1. x.user \in Users
    BY DEF Daily
  <1>2. /\ batch' = batch \ {x} /\ alert' = [alert EXCEPT ![x.user] = Stopped(alert[x.user])]
        /\ UNCHANGED <<pending, lives, fsm, loc, touched, mixed, stamp, warned, missed>>
    BY DEF DailyAlive, DailyForbidden, DailyDone
  <1>3. /\ alert' \in [Users -> Alerts \cup {None}] /\ \A v \in Users : Same(alert[v], alert'[v])
    BY <1>1, <1>2, DoneAlert
  <1>4. UNCHANGED <<row, switchedOff>> \/ \E u \in Users : SwitchesOff(u)
    <2>1. CASE DailyAlive(x)
      BY <2>1 DEF DailyAlive
    <2>2. CASE DailyForbidden(x)
      <3>1. /\ row' = [row EXCEPT ![x.user] = IF row[x.user] = None THEN None ELSE [row[x.user] EXCEPT !.active = FALSE]]
            /\ switchedOff' = IF row[x.user] = None THEN switchedOff ELSE switchedOff \cup {x.user}
        BY <2>2 DEF DailyForbidden
      <3>2. CASE row[x.user] = None
        BY <1>1, <3>1, <3>2 DEF Base
      <3>3. CASE row[x.user] # None
        BY <1>1, <3>1, <3>3 DEF SwitchesOff
      <3> QED
        BY <3>2, <3>3
    <2> QED
      BY <2>1, <2>2
  <1> QED
    BY <1>2, <1>3, <1>4, TakenKeeps DEF Aside

LEMMA SendKeeps ==
  ASSUME Base, Daily, NEW x \in batch, DailySend(x), UNCHANGED channelVars
  PROVE  Aside /\ Daily'
  <1>1. /\ batch' = batch \ {x} /\ stamp' = x.user /\ warned' = [warned EXCEPT ![x.user] = "recent"]
        /\ UNCHANGED <<row, alert, pending, lives, fsm, loc, touched, switchedOff, mixed, missed>>
    BY DEF DailySend, dbVars
  <1>2. Aside
    BY <1>1 DEF Aside, Base
  <1>3. x.user \in Users /\ alert[x.user] # None /\ \A y \in batch' : y.user # x.user
    BY <1>1 DEF Daily
  <1>4. \A u \in Users : u # x.user => warned'[u] = warned[u]
    BY <1>1 DEF Daily
  <1>5. stamp = None
    BY DEF DailySend
  <1>6. \A y \in batch' : y.user \in Users /\ y.user # x.user
    BY <1>1, <1>3 DEF Daily
  <1>7. \A u \in Users : warned'[u] = "recent" /\ u \notin missed' =>
          stamp' = u \/ (alert'[u] # None /\ alert'[u].last = "recent")
    BY <1>1, <1>4, <1>5, SessionsAssumption DEF Daily
  <1> QED
    BY <1>1, <1>2, <1>3, <1>4, <1>6, <1>7 DEF Daily

LEMMA StampKeeps ==
  ASSUME Base, Daily, DailyStamp, UNCHANGED channelVars
  PROVE  Aside /\ Daily'
  <1>1. stamp \in Users /\ alert[stamp] # None /\ (\A x \in batch : x.user # stamp) /\ stamp' = None
    BY DEF DailyStamp, Daily
  <1>2. UNCHANGED <<row, pending, lives, fsm, loc, touched, switchedOff, mixed, batch, warned>>
    BY DEF DailyStamp
  <1>3. CASE alert' = [alert EXCEPT ![stamp].last = "recent"] /\ missed' = missed \ {stamp}
    <2>1. alert[stamp] \in Alerts
      BY <1>1 DEF Base
    <2>2. PICK a : a = [alert[stamp] EXCEPT !.last = "recent"]
      OBVIOUS
    <2>3. a \in Alerts /\ a.last = "recent" /\ a # None
      BY <2>1, <2>2, NoneAssumption DEF Alerts, Times
    <2>4. alert' = [alert EXCEPT ![stamp] = a]
      BY <1>3, <2>2
    <2>5. alert' \in [Users -> Alerts \cup {None}] /\ alert'[stamp] = a /\ \A u \in Users : u # stamp => alert'[u] = alert[u]
      BY <1>1, <2>3, <2>4 DEF Base
    <2> QED
      BY <1>1, <1>2, <1>3, <2>3, <2>5 DEF Daily, Aside
  <1>4. CASE missed' = missed \cup {stamp} /\ UNCHANGED alert
    BY <1>1, <1>2, <1>4 DEF Daily, Aside, Base
  <1> QED
    BY <1>3, <1>4 DEF DailyStamp

LEMMA DayKeeps ==
  ASSUME Base, Daily, Day, UNCHANGED channelVars
  PROVE  Aside /\ Daily'
  <1>1. /\ alert' = [u \in Users |-> IF alert[u] = None THEN None ELSE [alert[u] EXCEPT !.last = Age(@)]]
        /\ warned' = [u \in Users |-> Age(warned[u])] /\ batch' = {} /\ stamp' = None
        /\ UNCHANGED <<row, pending, lives, fsm, loc, touched, switchedOff, mixed>>
    BY DEF Day
  <1>2. \A t : Age(t) # "recent"
    BY DEF Age
  <1>3. alert' \in [Users -> Alerts \cup {None}]
    <2>1. ASSUME NEW u \in Users, alert[u] # None
          PROVE  [alert[u] EXCEPT !.last = Age(@)] \in Alerts
      BY <2>1 DEF Base, Alerts, Age, Times
    <2> QED
      BY <1>1, <2>1
  <1> QED
    BY <1>1, <1>2, <1>3 DEF Daily, Aside

LEMMA ReadKeeps ==
  ASSUME Base, Daily, DailyRead, UNCHANGED channelVars
  PROVE  Aside /\ Daily'
  <1>1. /\ stamp = None /\ UNCHANGED <<row, alert, pending, lives, fsm, loc, touched, switchedOff, mixed, stamp, warned, missed>>
        /\ batch' = {[user |-> u, alert |-> alert[u]] : u \in {v \in Users : alert[v] # None /\ alert[v].active}}
    BY DEF DailyRead, dbVars
  <1>2. Aside
    BY <1>1 DEF Aside, Base
  <1>3. \A x \in batch' : x.user \in Users /\ alert[x.user] # None /\ x = [user |-> x.user, alert |-> alert[x.user]]
    BY <1>1
  <1>4. \A x \in batch' : \A y \in batch' : x.user = y.user => x = y
    BY <1>3
  <1>5. \A u \in Users : warned[u] = "recent" /\ u \notin missed => alert[u] # None /\ alert[u].last = "recent"
    BY <1>1, SessionsAssumption DEF Daily
  <1>6. \A x \in batch' : warned[x.user] = "recent" /\ x.user \notin missed => x.alert.last = "recent"
    BY <1>3, <1>5
  <1> QED
    BY <1>1, <1>2, <1>3, <1>4, <1>5, <1>6 DEF Daily

LEMMA DailyKeeps ==
  ASSUME Base, Daily, DailyStep
  PROVE  Aside /\ Daily'
  BY DropKeeps, DoneKeeps, SendKeeps, StampKeeps, DayKeeps, ReadKeeps DEF DailyStep
-----------------------------------------------------------------------------
(* The steps                                                               *)

LEMMA AccountStep ==
  ASSUME Base, AccountsNext, UNCHANGED channelVars
  PROVE  DailyStep \/ \E h \in Handlers, u \in Users : \E l : Opened(h, u, l)
  BY StartOpens, RestoreOpens, StepsOpen, RegisterOpens, SwitchesOpen, DeletionOpens, AddressOpens, NewAddressOpens
     DEF AccountsNext, DailyStep

LEMMA ChannelStep ==
  ASSUME Base, ChannelsNext, UNCHANGED accountVars
  PROVE  \/ \E u \in Users, c \in Channels : Promote(u, c)
         \/ \E c \in Channels : Demote(c)
         \/ \E h \in Handlers, u \in Users : \E l : Opened(h, u, l)
         \/ \E h \in Handlers : \E u, c, l : HeardAdded(h, u, c, l) \/ HeardRemoved(h, u, c, l)
  BY ConversationOpens, NamingOpens, SwitchingOpens, LinkOpens, AddedHears, RemovedHears DEF ChannelsNext

Member == (\E u \in Users, c \in Channels : Promote(u, c)) \/ (\E c \in Channels : Demote(c))

Opening == \E h \in Handlers, u \in Users : \E l : Opened(h, u, l)

Hearing == \E h \in Handlers : \E u, c, l : HeardAdded(h, u, c, l) \/ HeardRemoved(h, u, c, l)

Going == \E h \in Handlers : (Flush(h) \/ Answer(h) \/ Commit(h)) /\ UNCHANGED <<accountVars, channelVars>>

Failing ==
  \E h \in Handlers :
    /\ Fail(h) /\ UNCHANGED <<accountVars, member, updates, addedBy>>
    /\ unheard' = IF loc[h].lost = None THEN unheard ELSE unheard \cup {loc[h].lost}

LEMMA NextCases ==
  ASSUME Base, [Next]_vars
  PROVE  DailyStep \/ (Member /\ UNCHANGED accountVars) \/ Opening \/ Hearing \/ Going \/ Failing \/ UNCHANGED vars
  <1>1. CASE AccountsNext /\ UNCHANGED channelVars
    BY <1>1, AccountStep DEF Opening
  <1>2. CASE ChannelsNext /\ UNCHANGED accountVars
    BY <1>2, ChannelStep DEF Opening, Hearing, Member
  <1>3. CASE Proceed
    BY <1>3 DEF Proceed, Going, Failing, channelVars
  <1>4. CASE Rest
    BY <1>4 DEF Rest
  <1> QED
    BY <1>1, <1>2, <1>3, <1>4 DEF Next

LEMMA AlertsStay ==
  ASSUME Base, Jobs, Member \/ Opening \/ Hearing \/ Going \/ Failing
  PROVE  \A u \in Users : Same(alert[u], alert'[u])
  <1>1. CASE UNCHANGED alert
    BY <1>1 DEF Same
  <1>2. CASE Member \/ Opening \/ Hearing \/ Failing
    <2>1. CASE Member
      BY <1>1, <2>1 DEF Member, Promote, Demote, dbVars
    <2>2. CASE Opening
      BY <1>1, <2>2 DEF Opening, Opened, Begins, dbVars
    <2>3. CASE Hearing
      <3>1. PICK h, u, l : Heard(h, u, l)
        BY <2>3 DEF Hearing, HeardAdded, HeardRemoved
      <3> QED
        BY <1>1, <3>1 DEF Heard, Begins, dbVars
    <2>4. CASE Failing
      BY <1>1, <2>4 DEF Failing, Fail, dbVars
    <2> QED
      BY <1>2, <2>1, <2>2, <2>3, <2>4
  <1>3. CASE Going
    <2>1. PICK h \in Handlers : Flush(h) \/ Answer(h) \/ Commit(h)
      BY <1>3 DEF Going
    <2>2. CASE Flush(h) \/ Answer(h)
      BY <1>1, <2>2 DEF Flush, Answer, dbVars
    <2>3. CASE Commit(h)
      <3>1. PICK l, u : l = loc[h] /\ u = l.user
        OBVIOUS
      <3>2. l.pc = "commit" /\ (UNCHANGED alert \/ alert' = [alert EXCEPT ![u] = AlertAfter(l, alert[u])])
        BY <2>3, <3>1 DEF Commit
      <3>3. Works(l, lives, addedBy)
        BY <3>1, <3>2, BusyWorks
      <3>4. l.alert \in {"keep", "stop"} \cup Addresses /\ u \in Users
        BY <3>1, <3>3 DEF Works
      <3>5. Same(alert[u], AlertAfter(l, alert[u]))
        BY <3>4, AlertAfterIs DEF Base, Same
      <3> QED
        BY <1>1, <3>2, <3>4, <3>5 DEF Base, Same
    <2> QED
      BY <2>1, <2>2, <2>3
  <1> QED
    BY <1>2, <1>3

\* The invariant that does not depend on who works when.
Inv == Base /\ Jobs /\ Daily

LEMMA InvInit ==
  ASSUME Init
  PROVE  Inv
  <1> USE DEF Init, SessionsInit, AccountsInit, ChannelsInit
  <1>1. Jobs /\ Daily
    BY SessionsAssumption DEF Jobs, Daily
  <1>2. ASSUME NEW u \in Users, row[u] # None
        PROVE  row[u] \in Rows /\ row[u].id = 1 /\ Agrees(row[u]) /\ row[u].chan = None
    <2>1. row[u] = Registered(u)
      BY <1>2
    <2>2. PICK q \in QueuesOf[Home] : q = CHOOSE p \in QueuesOf[Home] : TRUE
      BY SessionsAssumption
    <2>3. PICK r : r = [Fresh EXCEPT !.id = 1, !.region = Home, !.queue = q]
      OBVIOUS
    <2>4. row[u] = r
      BY <2>1, <2>2, <2>3 DEF Registered
    <2>5. q \in Values /\ Home \in Values /\ 1 \in Values
      BY SessionsAssumption, BooleanValues
    <2>6. Fresh \in [Columns -> Values]
      BY FreshIs DEF Rows
    <2>7. {"id", "region", "queue", "factOff", "factOn", "chFactOff", "chFactOn", "chan"} \subseteq Columns
      BY FreshIs
    <2>8. r \in [Columns -> Values] /\ r["id"] = 1 /\ \A c \in Columns \ {"id", "region", "queue"} : r[c] = Fresh[c]
      BY <2>3, <2>5, <2>6, <2>7
    <2>9. r["factOff"] = r["factOn"] /\ r["chFactOff"] = r["chFactOn"] /\ r["chan"] = None
      BY <2>7, <2>8, FreshIs
    <2> QED
      BY <2>4, <2>7, <2>8, <2>9 DEF Rows, Agrees
  <1>3. Base
    <2>1. row \in [Users -> Rows \cup {None}]
      <3>1. row = [u \in Users |-> row[u]]
        OBVIOUS
      <3> QED
        BY <1>2, <3>1
    <2>2. 1 \in 1..lives /\ lives \in Nat \ {0}
      OBVIOUS
    <2>3. updates = <<>>
      OBVIOUS
    <2>4. updates \in Seq([chan : Channels, by : Users \cup {None}, added : BOOLEAN]) /\ DOMAIN updates = {}
      BY <2>3
    <2>5. \A u \in Users : Told(fsm[u]) /\ DOMAIN fsm[u] = Slots
      BY ClearedIs, ClearedIsReady
    <2> QED
      BY <1>2, <2>1, <2>2, <2>4, <2>5 DEF Base
  <1> QED
    BY <1>1, <1>3 DEF Inv

LEMMA InvNext ==
  ASSUME Inv, [Next]_vars
  PROVE  Inv'
  <1>1. Base /\ Jobs /\ Daily
    BY DEF Inv
  <1>2. CASE DailyStep
    BY <1>1, <1>2, DailyKeeps, AsideKeeps DEF Inv
  <1>3. ASSUME Member \/ Opening \/ Hearing \/ Going \/ Failing, UNCHANGED accountVars, Base', Jobs'
        PROVE  Inv'
    BY <1>1, <1>3, AlertsStay, DailyStays DEF Inv
  <1>4. CASE Member /\ UNCHANGED accountVars
    BY <1>1, <1>3, <1>4, MembershipKeeps DEF Member
  <1>5. CASE Opening
    BY <1>1, <1>3, <1>5, OpenedKeeps DEF Opening, Opened
  <1>6. CASE Hearing
    <2>0. PICK h \in Handlers : \E u, c, l : HeardAdded(h, u, c, l) \/ HeardRemoved(h, u, c, l)
      BY <1>6 DEF Hearing
    <2>1. PICK u, c, l : HeardAdded(h, u, c, l) \/ HeardRemoved(h, u, c, l)
      BY <2>0
    <2>2. UNCHANGED accountVars
      BY <2>1 DEF HeardAdded, HeardRemoved, Heard
    <2> QED
      BY <1>1, <1>3, <1>6, <2>1, <2>2, HeardKeeps
  <1>7. CASE Going
    BY <1>1, <1>3, <1>7, FlushKeeps, AnswerKeeps, CommitKeeps DEF Going
  <1>8. CASE Failing
    BY <1>1, <1>3, <1>8, FailKeeps DEF Failing
  <1>9. CASE UNCHANGED vars
    BY <1>1, <1>9 DEF vars, sessionVars, dbVars, accountVars, channelVars, Inv, Base, Jobs, Daily
  <1> QED
    BY <1>1, <1>2, <1>4, <1>5, <1>6, <1>7, <1>8, <1>9, NextCases

LEMMA InvHolds == Spec => []Inv
  <1>1. Init => Inv
    BY InvInit
  <1>2. Inv /\ [Next]_vars => Inv'
    BY InvNext
  <1> QED
    BY <1>1, <1>2, PTL DEF Spec

\* The two flags that are one switch to the user agree in every committed row, however
\* the handlers that write them overlap, are flushed, fail or find the row deleted:
\* they are read and written together (notifications.py:98).
THEOREM SwitchesStayWhole == Spec => []FactFlagsAgree
  <1>1. Inv => FactFlagsAgree
    BY RowIs DEF Inv, FactFlagsAgree
  <1> QED
    BY <1>1, InvHolds, PTL

\* A user is warned about his router once in 24 hours, whatever addresses he enters and
\* whatever he does to his profile in between, unless the time of the last message was
\* lost: no handler writes it, and an alert that is read is stamped before it is read again.
THEOREM WarnedOnceADay == Spec => AlertsADayApart
  <1> DEFINE Apart == \A u \in Users : warned[u] = "recent" /\ batch' # batch /\ stamp' = u => u \in missed
  <1>1. Inv /\ [Next]_vars => [Apart]_<<sessionVars, accountVars>>
    <2> SUFFICES ASSUME Inv, [Next]_vars, NEW u \in Users, warned[u] = "recent", batch' # batch, stamp' = u
                 PROVE  u \in missed
      OBVIOUS
    <2>1. Base /\ Jobs /\ Daily
      BY DEF Inv
    <2>2. ~ UNCHANGED accountVars /\ u # None
      BY SessionsAssumption DEF accountVars
    <2>3. DailyStep
      <3>1. CASE Opening
        <4>0. PICK h \in Handlers, v \in Users : \E l : Opened(h, v, l)
          BY <3>1 DEF Opening
        <4>1. PICK l : Opened(h, v, l)
          BY <4>0
        <4> QED
          BY <2>2, <4>1 DEF Opened
      <3>2. CASE Hearing
        <4>0. PICK h \in Handlers : \E v, c, l : HeardAdded(h, v, c, l) \/ HeardRemoved(h, v, c, l)
          BY <3>2 DEF Hearing
        <4>1. PICK v, c, l : HeardAdded(h, v, c, l) \/ HeardRemoved(h, v, c, l)
          BY <4>0
        <4> QED
          BY <2>2, <4>1 DEF HeardAdded, HeardRemoved, Heard
      <3>3. ~ Going /\ ~ Failing
        BY <2>2 DEF Going, Failing
      <3>4. ~ UNCHANGED vars
        BY <2>2 DEF vars
      <3> QED
        BY <2>1, <2>2, <3>1, <3>2, <3>3, <3>4, NextCases
    <2>4. PICK x \in batch : DailySend(x)
      <3>1. \A x \in batch : ~ DailyDrop(x) /\ ~ DailyAlive(x) /\ ~ DailyForbidden(x)
        <4>1. ASSUME NEW x \in batch, UNCHANGED stamp, stamp = None
              PROVE  FALSE
          BY <2>2, <4>1
        <4> QED
          BY <4>1 DEF DailyDrop, DailyAlive, DailyForbidden, DailyDone
      <3>2. ~ Day
        BY <2>2 DEF Day
      <3>3. ~ DailyRead
        BY <2>2 DEF DailyRead
      <3>4. ~ DailyStamp
        BY <2>2 DEF DailyStamp
      <3> QED
        BY <2>3, <3>1, <3>2, <3>3, <3>4 DEF DailyStep
    <2>5. x.user = u /\ x.alert.last # "recent"
      BY <2>4 DEF DailySend, AlertDue
    <2> QED
      BY <2>1, <2>5 DEF Daily
  <1> QED
    BY <1>1, InvHolds, PTL DEF Spec, AlertsADayApart
-----------------------------------------------------------------------------
(* A profile made anew                                                     *)

\* l is to make a row, and has its number.
Birth(l) == l.pc \in {"answer", "commit"} /\ l.id = None /\ Newborn(l.dirty)

\* Nothing but its own columns is in a row nobody has touched.
Untouched(r) == \A c \in Columns \ {"id", "active", "region", "queue"} : r[c] = Fresh[c]

\* The number of a row that is being made is nobody's yet.
NewNumber(h) ==
  LET n == loc[h].dirty["id"]
  IN  /\ \A u \in Users : row[u] # None => row[u]["id"] # n
      /\ \A g \in Handlers : loc[g].id # n
      /\ \A g \in Handlers \ {h} : Birth(loc[g]) => loc[g].dirty["id"] # n

\* Whoever works for the user of a row nobody has touched has seen another row.
OldNumbers(u) == \A h \in Handlers : loc[h].user = u => loc[h].id # row[u]["id"]

Numbers ==
  /\ \A h \in Handlers : Birth(loc[h]) => NewNumber(h)
  /\ \A u \in Users : row[u] # None /\ u \notin touched => Untouched(row[u]) /\ OldNumbers(u)

LEMMA IdleNumber == Idle.id = None /\ Idle.user = None /\ ~ Birth(Idle)
  BY IdleIs DEF Birth

LEMMA BirthIs ==
  ASSUME Base, NEW l, Works(l, lives, addedBy), Birth(l)
  PROVE  Bears(l, lives) /\ l.dirty["id"] \in 1..lives
  <1>1. l.dirty \in [Columns -> Values] /\ "id" \in Columns
    BY FreshIs DEF Birth, Newborn, Rows
  <1>2. l.dirty # Nothing
    BY <1>1, NothingIs
  <1>3. ~ Still(l)
    BY <1>2 DEF Still
  <1>4. ~ Writes(l, lives, addedBy) /\ ~ Erasing(l, lives)
    BY NumberIsNoNone DEF Birth, Writes, Erasing, Base
  <1>5. ~ Retires([l EXCEPT !.pending = Nothing])
    BY SessionsAssumption DEF Birth, Retires, AnyLife, Works, Fields
  <1> QED
    BY <1>3, <1>4, <1>5 DEF Works, Birth, Bears

\* The numbers the handlers know have been given.
LEMMA KnownNumber ==
  ASSUME Base, Jobs, NEW g \in Handlers
  PROVE  /\ loc[g].id \in {None, AnyLife} \cup 1..lives
         /\ Birth(loc[g]) => loc[g].dirty["id"] \in 1..lives
  <1>1. CASE loc[g] = Idle
    BY <1>1, IdleNumber
  <1>2. CASE Works(loc[g], lives, addedBy)
    <2>1. loc[g].id \in {None, AnyLife} \cup 1..lives
      <3>1. PICK l : l = loc[g]
        OBVIOUS
      <3>2. Retires([l EXCEPT !.pending = Nothing]) => l.id = AnyLife
        BY <1>2, <3>1 DEF Works, Retires, Fields
      <3> QED
        BY <1>2, <3>1, <3>2 DEF Works, Still, Writes, Bears, Erasing
    <2> QED
      BY <1>2, <2>1, BirthIs
  <1> QED
    BY <1>1, <1>2 DEF Jobs

\* Who begins knows the number of the present row at most.
LEMMA BegunNumber ==
  ASSUME Base, NEW h \in Handlers, NEW u, NEW l,
         Opened(h, u, l) \/ \E c : HeardAdded(h, u, c, l) \/ HeardRemoved(h, u, c, l)
  PROVE  /\ DOMAIN l = Fields /\ Begins(h, u, l)
         /\ ~ Birth(l)
         /\ l.id \in {None, AnyLife} \/ (row[u] # None /\ l.id = row[u]["id"])
  <1>1. ~ Newborn(Nothing)
    <2>1. "id" \in Columns
      BY FreshIs
    <2> QED
      BY <2>1, NothingIs DEF Newborn, Rows
  <1>2. ASSUME NEW new, u \in Users, Changes(l, u, new)
        PROVE  ~ Birth(l) /\ row[u] # None /\ l.id = row[u]["id"]
    BY <1>2, RowStored, NumberIsNoNone DEF Changes, Birth, Stored, Base
  <1>3. CASE Opened(h, u, l)
    <2>1. Kind(l, u) /\ Begins(h, u, l) /\ u \in Users
      BY <1>3 DEF Opened, Begins
    <2>2. CASE Quiet(l)
      BY <1>1, <2>1, <2>2 DEF Kind, Quiet, Birth
    <2>3. CASE Plain(l, u) \/ Moves(l, u) \/ Links(l, u) \/ Leaves(l, u)
      BY <1>2, <2>1, <2>3 DEF Kind, Plain, Moves, Links, Leaves
    <2>4. CASE Creates(l, u)
      BY <2>1, <2>4 DEF Kind, Creates, Birth
    <2>5. CASE Erases(l, u)
      BY <1>1, <2>1, <2>5 DEF Kind, Erases, Birth
    <2>6. CASE Retires(l)
      BY <2>1, <2>6, SessionsAssumption DEF Kind, Retires, Birth, AnyLife
    <2> QED
      BY <2>1, <2>2, <2>3, <2>4, <2>5, <2>6 DEF Kind
  <1>4. CASE \E c : HeardAdded(h, u, c, l) \/ HeardRemoved(h, u, c, l)
    <2>1. Heard(h, u, l) /\ ((l.id = None /\ l.dirty = Nothing) \/ Changes(l, u, GivenUp))
      BY <1>4 DEF HeardAdded, HeardRemoved
    <2>2. Begins(h, u, l) /\ u \in Users /\ DOMAIN l = Fields
      BY <2>1 DEF Heard, Begins
    <2>3. CASE l.id = None /\ l.dirty = Nothing
      BY <1>1, <2>2, <2>3 DEF Birth
    <2> QED
      BY <1>2, <2>1, <2>2, <2>3
  <1> QED
    BY <1>3, <1>4

LEMMA BegunNumbers ==
  ASSUME Base, Jobs, Numbers, NEW h \in Handlers, NEW u, NEW l,
         Opened(h, u, l) \/ \E c : HeardAdded(h, u, c, l) \/ HeardRemoved(h, u, c, l)
  PROVE  Numbers'
  <1>1. PICK m : m = [l EXCEPT !.user = u]
    OBVIOUS
  <1>2. /\ DOMAIN l = Fields /\ Begins(h, u, l) /\ ~ Birth(l)
        /\ l.id \in {None, AnyLife} \/ (row[u] # None /\ l.id = row[u]["id"])
    BY BegunNumber
  <1>3. m.user = u /\ m.pc = l.pc /\ m.id = l.id /\ m.dirty = l.dirty
    BY <1>1, <1>2, UserSet
  <1>4. /\ u \in Users /\ loc' = [loc EXCEPT ![h] = m] /\ UNCHANGED row
        /\ touched' = IF row[u] = None THEN touched ELSE touched \cup {u}
    BY <1>1, <1>2 DEF Begins, dbVars
  <1>5. loc'[h] = m /\ \A g \in Handlers \ {h} : loc'[g] = loc[g]
    BY <1>4 DEF Base
  <1>6. ~ Birth(m)
    BY <1>2, <1>3 DEF Birth
  <1>7. ASSUME NEW g \in Handlers, Birth(loc'[g])
        PROVE  NewNumber(g)'
    <2>1. g # h /\ loc'[g] = loc[g]
      BY <1>5, <1>6, <1>7
    <2>2. NewNumber(g) /\ Birth(loc[g]) /\ loc[g].dirty["id"] \in 1..lives
      BY <1>7, <2>1, KnownNumber DEF Numbers
    <2>3. m.id # loc[g].dirty["id"]
      BY <1>2, <1>3, <1>4, <2>2, NumberIsNoNone DEF NewNumber, Base
    <2>4. \A k \in Handlers : loc'[k].id # loc'[g].dirty["id"]
      BY <1>5, <2>1, <2>2, <2>3 DEF NewNumber
    <2>5. \A k \in Handlers \ {g} : Birth(loc'[k]) => loc'[k].dirty["id"] # loc'[g].dirty["id"]
      BY <1>5, <1>6, <2>1, <2>2 DEF NewNumber
    <2> QED
      BY <1>4, <2>1, <2>2, <2>4, <2>5 DEF NewNumber
  <1>8. ASSUME NEW v \in Users, row'[v] # None, v \notin touched'
        PROVE  Untouched(row'[v]) /\ OldNumbers(v)'
    <2>1. v # u /\ v \notin touched /\ row'[v] = row[v]
      BY <1>4, <1>8
    <2>2. Untouched(row[v]) /\ OldNumbers(v)
      BY <1>8, <2>1 DEF Numbers
    <2>3. \A g \in Handlers : loc'[g].user = v => loc'[g].id # row'[v]["id"]
      BY <1>3, <1>5, <2>1, <2>2 DEF OldNumbers
    <2> QED
      BY <2>1, <2>2, <2>3 DEF OldNumbers
  <1> QED
    BY <1>7, <1>8 DEF Numbers

\* h is done, or goes on with what it had.
LEMMA GoneNumbers ==
  ASSUME Base, Jobs, Numbers, NEW h \in Handlers, NEW m, loc' = [loc EXCEPT ![h] = m], UNCHANGED <<row, touched>>,
         m = Idle \/ (m.user = loc[h].user /\ m.id = loc[h].id /\ m.dirty = loc[h].dirty /\ (Birth(m) => Birth(loc[h])))
  PROVE  Numbers'
  <1>1. loc'[h] = m /\ \A g \in Handlers \ {h} : loc'[g] = loc[g]
    BY DEF Base
  <1>2. \A g \in Handlers : \/ loc'[g] = Idle
                            \/ /\ loc'[g].user = loc[g].user /\ loc'[g].id = loc[g].id /\ loc'[g].dirty = loc[g].dirty
                               /\ Birth(loc'[g]) => Birth(loc[g])
    BY <1>1
  <1>3. ASSUME NEW g \in Handlers, Birth(loc'[g])
        PROVE  NewNumber(g)'
    <2>1. Birth(loc[g]) /\ loc'[g].dirty = loc[g].dirty
      BY <1>2, <1>3, IdleNumber
    <2>2. NewNumber(g) /\ loc[g].dirty["id"] # None
      BY <2>1, KnownNumber, NumberIsNoNone DEF Numbers, Base
    <2>3. \A k \in Handlers : loc'[k].id # loc'[g].dirty["id"]
      BY <1>2, <2>1, <2>2, IdleNumber DEF NewNumber
    <2>4. \A k \in Handlers \ {g} : Birth(loc'[k]) => loc'[k].dirty["id"] # loc'[g].dirty["id"]
      BY <1>2, <2>1, <2>2, IdleNumber DEF NewNumber
    <2> QED
      BY <2>1, <2>2, <2>3, <2>4 DEF NewNumber
  <1>4. ASSUME NEW v \in Users, row'[v] # None, v \notin touched'
        PROVE  Untouched(row'[v]) /\ OldNumbers(v)'
    <2>1. Untouched(row[v]) /\ OldNumbers(v) /\ v # None
      BY <1>4, SessionsAssumption DEF Numbers
    <2>2. \A g \in Handlers : loc'[g].user = v => loc'[g].id # row'[v]["id"]
      BY <1>2, <2>1, IdleNumber DEF OldNumbers
    <2> QED
      BY <2>1, <2>2 DEF OldNumbers
  <1> QED
    BY <1>3, <1>4 DEF Numbers

LEMMA FlushNumbers ==
  ASSUME Base, Jobs, Numbers, NEW h \in Handlers, Flush(h)
  PROVE  Numbers'
  <1>1. PICK l : l = loc[h]
    OBVIOUS
  <1>2. PICK m : m = IF Fits(l) THEN [Numbered(l) EXCEPT !.pc = "answer", !.held = TRUE] ELSE Idle
    OBVIOUS
  <1>3. PICK n : n = IF l.id = None THEN lives + 1 ELSE lives
    OBVIOUS
  <1>4. l.pc = "flush" /\ loc' = [loc EXCEPT ![h] = m] /\ UNCHANGED <<row, touched>>
    BY <1>1, <1>2 DEF Flush, Base
  <1>5. Works(l, lives, addedBy) /\ lives \in Nat
    BY <1>1, <1>4, BusyWorks DEF Base
  <1>6. \/ m = Idle
        \/ /\ m.pc = "answer" /\ m.user = l.user /\ m.id = l.id
           /\ l.id # None => m.dirty = l.dirty
           /\ l.id = None => m.dirty["id"] = lives + 1
    <2>1. m = Idle \/ Flushed(l, m, n)
      BY <1>2, <1>3, <1>4, <1>5, FlushedIs
    <2> QED
      BY <2>1 DEF Flushed
  <1>7. CASE m = Idle \/ l.id # None
    <2>1. m = Idle \/ (m.user = l.user /\ m.id = l.id /\ m.dirty = l.dirty /\ ~ Birth(m))
      BY <1>6, <1>7 DEF Birth
    <2> QED
      BY <1>1, <1>4, <2>1, GoneNumbers
  <1>8. CASE m # Idle /\ l.id = None
    <2>1. m.user = l.user /\ m.id = None /\ m.dirty["id"] = lives + 1
      BY <1>6, <1>8
    <2>2. loc'[h] = m /\ \A g \in Handlers \ {h} : loc'[g] = loc[g]
      BY <1>4 DEF Base
    <2>3. lives + 1 \notin 1..lives /\ lives + 1 # None /\ lives + 1 # AnyLife
      BY <1>5, SessionsAssumption DEF AnyLife
    <2>4. ASSUME NEW g \in Handlers, Birth(loc'[g])
          PROVE  NewNumber(g)'
      <3>1. CASE g = h
        <4>1. \A u \in Users : row'[u] # None => row'[u]["id"] # lives + 1
          BY <1>4, <2>3, RowStored DEF Stored
        <4>2. \A k \in Handlers : loc'[k].id # lives + 1
          BY <2>1, <2>2, <2>3, KnownNumber
        <4>3. \A k \in Handlers \ {h} : Birth(loc'[k]) => loc'[k].dirty["id"] # lives + 1
          BY <2>2, <2>3, KnownNumber
        <4> QED
          BY <2>1, <2>2, <3>1, <4>1, <4>2, <4>3 DEF NewNumber
      <3>2. CASE g # h
        <4>1. loc'[g] = loc[g] /\ NewNumber(g) /\ loc[g].dirty["id"] \in 1..lives
          BY <2>2, <2>4, <3>2, KnownNumber DEF Numbers
        <4>2. \A k \in Handlers : loc'[k].id # loc'[g].dirty["id"]
          BY <1>1, <1>8, <2>1, <2>2, <4>1 DEF NewNumber
        <4>3. \A k \in Handlers \ {g} : Birth(loc'[k]) => loc'[k].dirty["id"] # loc'[g].dirty["id"]
          BY <2>1, <2>2, <2>3, <4>1 DEF NewNumber
        <4> QED
          BY <1>4, <4>1, <4>2, <4>3 DEF NewNumber
      <3> QED
        BY <3>1, <3>2
    <2>5. ASSUME NEW v \in Users, row'[v] # None, v \notin touched'
          PROVE  Untouched(row'[v]) /\ OldNumbers(v)'
      <3>1. Untouched(row[v]) /\ OldNumbers(v) /\ row'[v] = row[v]
        BY <1>4, <2>5 DEF Numbers
      <3>2. \A g \in Handlers : loc'[g].user = v => loc'[g].id # row'[v]["id"]
        BY <1>1, <1>8, <2>1, <2>2, <3>1 DEF OldNumbers
      <3> QED
        BY <3>1, <3>2 DEF OldNumbers
    <2> QED
      BY <2>4, <2>5 DEF Numbers
  <1> QED
    BY <1>7, <1>8

\* What a commit leaves of a row nobody has touched.
LEMMA CommittedRow ==
  ASSUME Base, Jobs, Numbers, NEW h \in Handlers, NEW l, NEW u \in Users, NEW r,
         l = loc[h], u = l.user, l.pc = "commit", Works(l, lives, addedBy), Fits(l),
         r = RowAfter(l, row[u]), r # None
  PROVE  \/ row[u] = None /\ Birth(l) /\ r = l.dirty
         \/ /\ row[u] # None /\ r["id"] = row[u]["id"]
            /\ u \notin touched =>
                 \/ r = row[u]
                 \/ /\ l.id = AnyLife /\ l.dirty # Nothing
                    /\ \A c \in Columns \ {"active"} : r[c] = row[u][c]
  <1>1. row[u] # None => row[u] \in Rows /\ Agrees(row[u])
    BY RowStored DEF Stored
  <1>2. row[u] # None /\ u \notin touched => l.id # row[u]["id"]
    BY DEF Numbers, OldNumbers
  <1>3. CASE r = row[u]
    BY <1>3
  <1>4. CASE r # row[u]
    <2>1. ~ l.erase /\ l.dirty # Nothing
      BY <1>4 DEF RowAfter
    <2>2. CASE Writes(l, lives, addedBy)
      <3>1. l.id # None /\ l.id # AnyLife
        BY <2>2, NumberIsNoNone DEF Writes, Base
      <3>2. row[u] # None /\ row[u].id = l.id /\ r = Over(l.dirty, row[u])
        BY <2>1, <3>1 DEF RowAfter, Fits
      <3>3. r["id"] = row[u]["id"]
        BY <1>1, <2>2, <3>2, WrittenOver DEF Writes
      <3> QED
        BY <1>2, <3>2, <3>3
    <2>3. CASE Bears(l, lives)
      <3>1. row[u] = None /\ r = l.dirty
        BY <2>1, <2>3, SessionsAssumption DEF RowAfter, Fits, Bears, AnyLife
      <3> QED
        BY <2>3, <3>1 DEF Birth, Bears
    <2>4. CASE Retires([l EXCEPT !.pending = Nothing])
      <3>1. l.id = AnyLife /\ l.dirty = [active |-> FALSE]
        BY <2>4 DEF Retires, Works, Fields
      <3>2. row[u] # None /\ r = Over(l.dirty, row[u])
        BY <1>4, <2>1, <3>1, SessionsAssumption DEF RowAfter, AnyLife
      <3>3. Written(l.dirty) /\ DOMAIN l.dirty = {"active"}
        BY <3>1, RetiredIs
      <3>4. r["id"] = row[u]["id"] /\ \A c \in Columns : r[c] = IF c \in DOMAIN l.dirty THEN l.dirty[c] ELSE row[u][c]
        BY <1>1, <3>2, <3>3, WrittenOver
      <3> QED
        BY <2>1, <3>1, <3>2, <3>3, <3>4
    <2> QED
      BY <2>1, <2>2, <2>3, <2>4 DEF Works, Still, Erasing
  <1> QED
    BY <1>3, <1>4
LEMMA CommitNumbers ==
  ASSUME Base, Jobs, Numbers, NEW h \in Handlers, Commit(h)
  PROVE  Numbers'
  <1>1. PICK l : l = loc[h]
    OBVIOUS
  <1>2. PICK u : u = l.user
    OBVIOUS
  <1>3. PICK r : r = RowAfter(l, row[u])
    OBVIOUS
  <1>4. /\ l.pc = "commit" /\ loc' = [loc EXCEPT ![h] = Idle]
        /\ \/ UNCHANGED <<row, touched>>
           \/ /\ Fits(l) /\ row' = [row EXCEPT ![u] = r]
              /\ touched' = IF row'[u] = None \/ row[u] = None THEN touched \ {u} ELSE touched
    BY <1>1, <1>2, <1>3 DEF Commit, Base
  <1>5. Works(l, lives, addedBy) /\ u \in Users
    BY <1>1, <1>2, <1>4, BusyWorks DEF Works
  <1>6. CASE UNCHANGED <<row, touched>>
    BY <1>4, <1>6, GoneNumbers
  <1>7. CASE /\ Fits(l) /\ row' = [row EXCEPT ![u] = r]
             /\ touched' = IF row'[u] = None \/ row[u] = None THEN touched \ {u} ELSE touched
    <2>1. loc'[h] = Idle /\ \A g \in Handlers \ {h} : loc'[g] = loc[g]
      BY <1>4 DEF Base
    <2>2. row'[u] = r /\ \A v \in Users \ {u} : row'[v] = row[v]
      BY <1>5, <1>7 DEF Base
    <2> DEFINE n == IF row[u] # None THEN row[u]["id"] ELSE l.dirty["id"]
    <2>3. r # None =>
            \/ row[u] = None /\ Birth(l) /\ r = l.dirty
            \/ /\ row[u] # None /\ r["id"] = row[u]["id"]
               /\ u \notin touched => \A c \in Columns \ {"active"} : r[c] = row[u][c]
      BY <1>1, <1>2, <1>3, <1>4, <1>5, <1>7, CommittedRow
    <2>4. ASSUME NEW g \in Handlers, Birth(loc'[g])
          PROVE  NewNumber(g)'
      <3>1. g # h /\ loc'[g] = loc[g]
        BY <2>1, <2>4, IdleNumber
      <3>2. NewNumber(g) /\ Birth(loc[g]) /\ loc[g].dirty["id"] # None
        BY <2>4, <3>1, KnownNumber, NumberIsNoNone DEF Numbers, Base
      <3>3. \A k \in Handlers : loc'[k].id # loc'[g].dirty["id"]
        BY <2>1, <3>1, <3>2, IdleNumber DEF NewNumber
      <3>4. \A k \in Handlers \ {g} : Birth(loc'[k]) => loc'[k].dirty["id"] # loc'[g].dirty["id"]
        BY <2>1, <3>1, <3>2, IdleNumber DEF NewNumber
      <3>5. r # None => r["id"] # loc[g].dirty["id"]
        BY <1>1, <1>5, <2>3, <3>1, <3>2 DEF NewNumber
      <3>6. \A v \in Users : row'[v] # None => row'[v]["id"] # loc'[g].dirty["id"]
        BY <2>2, <3>1, <3>2, <3>5 DEF NewNumber
      <3> QED
        BY <3>3, <3>4, <3>6 DEF NewNumber
    <2>5. ASSUME NEW v \in Users, row'[v] # None, v \notin touched'
          PROVE  Untouched(row'[v]) /\ OldNumbers(v)'
      <3>0. v # None
        BY SessionsAssumption
      <3>1. CASE v # u
        <4>1. v \notin touched /\ row'[v] = row[v]
          BY <1>7, <2>2, <2>5, <3>1
        <4>2. Untouched(row[v]) /\ OldNumbers(v)
          BY <2>5, <4>1 DEF Numbers
        <4>3. \A g \in Handlers : loc'[g].user = v => loc'[g].id # row'[v]["id"]
          BY <2>1, <3>0, <4>1, <4>2, IdleNumber DEF OldNumbers
        <4> QED
          BY <4>1, <4>2, <4>3 DEF OldNumbers
      <3>2. CASE v = u /\ row[u] = None
        <4>1. Birth(l) /\ r = l.dirty /\ row'[v] = r
          BY <2>2, <2>3, <2>5, <3>2
        <4>2. Untouched(r)
          BY <4>1 DEF Birth, Newborn, Untouched
        <4>3. NewNumber(h)
          BY <1>1, <4>1 DEF Numbers
        <4>4. \A g \in Handlers : loc'[g].user = v => loc'[g].id # row'[v]["id"]
          BY <1>1, <2>1, <3>0, <4>1, <4>3, IdleNumber DEF NewNumber
        <4> QED
          BY <4>1, <4>2, <4>4 DEF OldNumbers
      <3>3. CASE v = u /\ row[u] # None
        <4>1. u \notin touched /\ row'[u] = r /\ r # None
          BY <1>7, <2>2, <2>5, <3>3
        <4>2. r["id"] = row[u]["id"] /\ \A c \in Columns \ {"active"} : r[c] = row[u][c]
          BY <2>3, <3>3, <4>1
        <4>3. Untouched(row[u]) /\ OldNumbers(u)
          BY <1>5, <3>3, <4>1 DEF Numbers
        <4>4. Untouched(r)
          BY <4>2, <4>3 DEF Untouched
        <4>5. \A g \in Handlers : loc'[g].user = v => loc'[g].id # row'[v]["id"]
          BY <2>1, <3>0, <3>3, <4>1, <4>2, <4>3, IdleNumber DEF OldNumbers
        <4> QED
          BY <3>3, <4>1, <4>4, <4>5 DEF OldNumbers
      <3> QED
        BY <3>1, <3>2, <3>3
    <2> QED
      BY <2>4, <2>5 DEF Numbers
  <1> QED
    BY <1>4, <1>6, <1>7

LEMMA GoingNumbers ==
  ASSUME Base, Jobs, Numbers, Going \/ Failing
  PROVE  Numbers'
  <1>1. CASE Failing
    <2>1. PICK h \in Handlers : Fail(h)
      BY <1>1 DEF Failing
    <2> QED
      BY <2>1, GoneNumbers DEF Fail, dbVars
  <1>2. CASE Going
    <2>1. PICK h \in Handlers : Flush(h) \/ Answer(h) \/ Commit(h)
      BY <1>2 DEF Going
    <2>2. CASE Answer(h)
      <3>1. PICK l : l = loc[h]
        OBVIOUS
      <3>2. PICK m : m = [l EXCEPT !.pc = "commit"]
        OBVIOUS
      <3>3. l.pc = "answer" /\ loc' = [loc EXCEPT ![h] = m] /\ UNCHANGED <<row, touched>>
        BY <2>2, <3>1, <3>2 DEF Answer, Base, dbVars
      <3>4. Works(l, lives, addedBy)
        BY <3>1, <3>3, BusyWorks
      <3>5. m.user = l.user /\ m.id = l.id /\ m.dirty = l.dirty
        BY <3>2, <3>3, <3>4, AnsweredIs
      <3>6. Birth(m) => Birth(l)
        BY <3>3, <3>5 DEF Birth
      <3> QED
        BY <3>1, <3>3, <3>5, <3>6, GoneNumbers
    <2> QED
      BY <2>1, <2>2, FlushNumbers, CommitNumbers
  <1> QED
    BY <1>1, <1>2

LEMMA OthersNumbers ==
  ASSUME Base, Numbers, UNCHANGED <<loc, touched>>,
         UNCHANGED row \/ Aside
  PROVE  Numbers'
  <1>1. \A u \in Users : /\ row'[u] = None <=> row[u] = None
                         /\ row[u] # None => \A c \in Columns \ {"active"} : row'[u][c] = row[u][c]
    BY AsideRows
  <1>2. "id" \in Columns \ {"active"}
    BY FreshIs
  <1>3. \A u \in Users : row[u] # None => row'[u]["id"] = row[u]["id"]
    BY <1>1, <1>2
  <1>4. ASSUME NEW g \in Handlers, Birth(loc'[g])
        PROVE  NewNumber(g)'
    BY <1>1, <1>3, <1>4 DEF Numbers, NewNumber
  <1>5. ASSUME NEW v \in Users, row'[v] # None, v \notin touched'
        PROVE  Untouched(row'[v]) /\ OldNumbers(v)'
    BY <1>1, <1>3, <1>5 DEF Numbers, Untouched, OldNumbers
  <1> QED
    BY <1>4, <1>5 DEF Numbers

\* A row nobody has touched is active, or deactivate_user has been at it.
Lively == \A u \in Users : row[u] # None /\ u \notin touched => row[u]["active"] = TRUE \/ u \in switchedOff

LEMMA CommitLively ==
  ASSUME Base, Jobs, Numbers, Lively, NEW h \in Handlers, Commit(h)
  PROVE  Lively'
  <1>1. PICK l : l = loc[h]
    OBVIOUS
  <1>2. PICK u : u = l.user
    OBVIOUS
  <1>3. PICK r : r = RowAfter(l, row[u])
    OBVIOUS
  <1>4. /\ l.pc = "commit"
        /\ \/ UNCHANGED <<row, touched, switchedOff>>
           \/ /\ Fits(l) /\ row' = [row EXCEPT ![u] = r]
              /\ touched' = IF row'[u] = None \/ row[u] = None THEN touched \ {u} ELSE touched
              /\ switchedOff' = OffAfter(l)
    BY <1>1, <1>2, <1>3 DEF Commit, Base
  <1>5. Works(l, lives, addedBy) /\ u \in Users
    BY <1>1, <1>2, <1>4, BusyWorks DEF Works
  <1>6. CASE UNCHANGED <<row, touched, switchedOff>>
    BY <1>6 DEF Lively
  <1>7. CASE /\ Fits(l) /\ row' = [row EXCEPT ![u] = r]
             /\ touched' = IF row'[u] = None \/ row[u] = None THEN touched \ {u} ELSE touched
             /\ switchedOff' = OffAfter(l)
    <2>1. row'[u] = r /\ \A v \in Users \ {u} : row'[v] = row[v]
      BY <1>5, <1>7 DEF Base
    <2>2. \A v : v # u => (v \in switchedOff' <=> v \in switchedOff)
      BY <1>2, <1>7 DEF OffAfter
    <2>3. ASSUME NEW v \in Users, row'[v] # None, v \notin touched'
          PROVE  row'[v]["active"] = TRUE \/ v \in switchedOff'
      <3>1. CASE v # u
        BY <1>7, <2>1, <2>2, <2>3, <3>1 DEF Lively
      <3>2. CASE v = u /\ row[u] = None
        <4>1. Birth(l) /\ r = l.dirty
          BY <1>1, <1>2, <1>3, <1>4, <1>5, <1>7, <2>1, <2>3, <3>2, CommittedRow
        <4>2. r["active"] = Fresh["active"]
          BY <4>1, FreshIs DEF Birth, Newborn
        <4> QED
          BY <2>1, <3>2, <4>2, FreshIs
      <3>3. CASE v = u /\ row[u] # None
        <4>1. u \notin touched /\ r # None
          BY <1>7, <2>1, <2>3, <3>3
        <4>2. r = row[u] \/ (l.id = AnyLife /\ l.dirty # Nothing)
          BY <1>1, <1>2, <1>3, <1>4, <1>5, <1>7, <3>3, <4>1, CommittedRow
        <4>3. CASE l.id = AnyLife /\ l.dirty # Nothing
          BY <1>2, <1>3, <1>7, <3>3, <4>1, <4>3 DEF OffAfter
        <4>4. CASE r = row[u]
          <5>1. u \in switchedOff => u \in switchedOff'
            BY <1>2, <1>3, <1>7, <3>3, <4>1 DEF OffAfter
          <5> QED
            BY <2>1, <3>3, <4>1, <4>4, <5>1 DEF Lively
        <4> QED
          BY <4>2, <4>3, <4>4
      <3> QED
        BY <3>1, <3>2, <3>3
    <2> QED
      BY <2>3 DEF Lively
  <1> QED
    BY <1>4, <1>6, <1>7

LEMMA AsideLively ==
  ASSUME Base, Lively, Aside
  PROVE  Lively'
  <1>1. UNCHANGED touched
    BY DEF Aside
  <1>2. CASE UNCHANGED <<row, switchedOff>>
    BY <1>1, <1>2 DEF Lively
  <1>3. CASE \E u \in Users : SwitchesOff(u)
    <2>1. PICK u \in Users : SwitchesOff(u)
      BY <1>3
    <2>2. (\A v \in Users \ {u} : row'[v] = row[v]) /\ switchedOff' = switchedOff \cup {u}
      BY <2>1 DEF SwitchesOff, Base
    <2> QED
      BY <1>1, <2>1, <2>2 DEF SwitchesOff, Lively
  <1> QED
    BY <1>2, <1>3 DEF Aside

LEMMA LivelyNext ==
  ASSUME Inv, Numbers, Lively, [Next]_vars
  PROVE  Lively'
  <1>1. Base /\ Jobs /\ Daily
    BY DEF Inv
  <1>2. CASE DailyStep
    BY <1>1, <1>2, DailyKeeps, AsideLively
  <1>3. ASSUME UNCHANGED <<row, switchedOff>>, touched \subseteq touched'
        PROVE  Lively'
    BY <1>3 DEF Lively
  <1>4. CASE Member
    BY <1>3, <1>4 DEF Member, Promote, Demote, dbVars
  <1>5. ASSUME NEW h, NEW u, NEW l, Begins(h, u, l)
        PROVE  Lively'
    <2>1. UNCHANGED <<row, switchedOff>> /\ touched \subseteq touched'
      BY <1>5 DEF Begins, dbVars
    <2> QED
      BY <1>3, <2>1
  <1>6. CASE Opening
    BY <1>5, <1>6 DEF Opening, Opened
  <1>7. CASE Hearing
    BY <1>1, <1>5, <1>7, BegunNumber DEF Hearing
  <1>8. CASE UNCHANGED vars
    BY <1>3, <1>8 DEF vars, sessionVars, dbVars
  <1>9. CASE Failing
    BY <1>3, <1>9 DEF Failing, Fail, dbVars
  <1>10. CASE Going
    <2>1. PICK h \in Handlers : Flush(h) \/ Answer(h) \/ Commit(h)
      BY <1>10 DEF Going
    <2>2. CASE Flush(h)
      BY <1>3, <2>2 DEF Flush
    <2>3. CASE Answer(h)
      BY <1>3, <2>3 DEF Answer, dbVars
    <2> QED
      BY <1>1, <2>1, <2>2, <2>3, CommitLively
  <1> QED
    BY <1>1, <1>2, <1>4, <1>6, <1>7, <1>8, <1>9, <1>10, NextCases

LEMMA NumbersInit ==
  ASSUME Init
  PROVE  Numbers /\ Lively
  <1> USE DEF Init, SessionsInit
  <1>1. \A h \in Handlers : loc[h] = Idle
    OBVIOUS
  <1>2. ASSUME NEW u \in Users, row[u] # None
        PROVE  Untouched(row[u]) /\ OldNumbers(u) /\ row[u]["active"] = TRUE
    <2>1. row[u] = Registered(u)
      BY <1>2
    <2>2. \A c \in Columns \ {"id", "region", "queue"} : row[u][c] = Fresh[c]
      BY <2>1, FreshIs DEF Registered
    <2> QED
      BY <1>1, <2>2, FreshIs, IdleNumber, SessionsAssumption DEF Untouched, OldNumbers
  <1> QED
    BY <1>1, <1>2, IdleNumber DEF Numbers, Lively

LEMMA NumbersNext ==
  ASSUME Inv, Numbers, [Next]_vars
  PROVE  Numbers'
  <1>1. Base /\ Jobs /\ Daily
    BY DEF Inv
  <1>2. CASE DailyStep
    <2>1. Aside
      BY <1>1, <1>2, DailyKeeps
    <2> QED
      BY <1>1, <2>1, OthersNumbers DEF Aside
  <1>3. CASE Member
    BY <1>1, <1>3, OthersNumbers DEF Member, Promote, Demote, dbVars
  <1>4. CASE Opening
    BY <1>1, <1>4, BegunNumbers DEF Opening
  <1>5. CASE Hearing
    BY <1>1, <1>5, BegunNumbers DEF Hearing
  <1>6. CASE UNCHANGED vars
    BY <1>1, <1>6, OthersNumbers DEF vars, sessionVars, dbVars
  <1> QED
    BY <1>1, <1>2, <1>3, <1>4, <1>5, <1>6, GoingNumbers, NextCases

\* A profile made after a deletion holds nothing of the one that was deleted, and nothing
\* that a handler was about to write into that one: a handler writes into the row it has
\* loaded, and a number is never given twice (database.py, users.id). The exception is
\* deactivate_user, which writes by telegram_id (users.py:128-130): it can switch the new
\* profile off, and is the only step that does.
THEOREM NothingOldInANewProfile == Spec => []NewProfileIsNew
  <1>1. Init => Inv /\ Numbers /\ Lively
    BY InvInit, NumbersInit
  <1>2. Inv /\ Numbers /\ Lively /\ [Next]_vars => (Inv /\ Numbers /\ Lively)'
    BY InvNext, NumbersNext, LivelyNext
  <1>3. Inv /\ Numbers /\ Lively => NewProfileIsNew
    <2> SUFFICES ASSUME Numbers, Lively, NEW u \in Users, row[u] # None, u \notin touched
                 PROVE  /\ \A c \in DOMAIN Fresh \ {"id", "active", "region", "queue"} : row[u][c] = Fresh[c]
                        /\ row[u].active \/ u \in switchedOff
      BY DEF NewProfileIsNew
    <2>1. \A c \in DOMAIN Fresh \ {"id", "active", "region", "queue"} : row[u][c] = Fresh[c]
      BY FreshIs DEF Numbers, Untouched
    <2>2. row[u]["active"] = TRUE \/ u \in switchedOff
      BY DEF Lively
    <2> QED
      BY <2>1, <2>2
  <1> QED
    BY <1>1, <1>2, <1>3, PTL DEF Spec
-----------------------------------------------------------------------------
(* One update at a time                                                    *)

\* The queues are of the region, a channel is one user's, and is offered to nobody else.
Good(r, p) ==
  /\ \A u \in Users : r[u] # None => r[u]["queue"] \in QueuesOf[r[u]["region"]]
  /\ \A u, v \in Users : r[u] # None /\ r[v] # None /\ r[u]["chan"] # None /\ r[u]["chan"] = r[v]["chan"] => u = v
  /\ \A c \in Channels, v \in Users : p[c] # None /\ r[v] # None /\ r[v]["chan"] = c => v = p[c]

\* c is somebody's, or offered to somebody.
Uses(r, p, c) == (\E u \in Users : r[u] # None /\ r[u]["chan"] = c) \/ p[c] # None

\* The rows and the pending channels when l is committed.
RowsAfter(l, r) == [u \in Users |-> IF u = l.user THEN RowAfter(l, r[u]) ELSE r[u]]

PendingAfter(l, p) == Over(l.pending, p)

\* The bot can publish in c, or a removal is on its way, or was heard by a handler that failed.
Supported(c) ==
  \/ c \in member \cup unheard
  \/ \E i \in DOMAIN updates : updates[i].chan = c /\ ~ updates[i].added
  \/ \E h \in Handlers : loc[h].lost = c

\* What a handler that works alone is about to leave is as good as what it has found.
Safe(l) ==
  /\ Fits(l)
  /\ l.pc # "commit" => Ready(Over(l.then, fsm[l.user]))
  /\ Good(RowsAfter(l, row), PendingAfter(l, pending))
  /\ \A c \in Channels : Uses(RowsAfter(l, row), PendingAfter(l, pending), c) => Supported(c) /\ l.lost # c

Alone ==
  /\ \A g, h \in Handlers : loc[g].pc # "idle" /\ loc[h].pc # "idle" => g = h
  /\ \A u \in Users : Ready(fsm[u])
  /\ Good(row, pending)
  /\ \A c \in Channels : Uses(row, pending, c) => Supported(c)
  /\ \A i \in DOMAIN updates : updates[i].added =>
       \/ updates[i].chan \in member
       \/ \E j \in DOMAIN updates : j > i /\ updates[j].chan = updates[i].chan /\ ~ updates[j].added
  /\ \A h \in Handlers : loc[h].pc # "idle" => Safe(loc[h])

\* Rows that differ in nothing Good and Uses look at.
Alike(r, s) ==
  \A u \in Users : /\ r[u] = None <=> s[u] = None
                   /\ r[u] # None => \A c \in {"chan", "region", "queue"} : r[u][c] = s[u][c]

LEMMA AlikeIsGood ==
  ASSUME NEW r, NEW s, NEW p, Alike(r, s)
  PROVE  /\ Good(r, p) => Good(s, p)
         /\ \A c \in Channels : Uses(s, p, c) => Uses(r, p, c)
  BY DEF Alike, Good, Uses

\* A row that is written for u, while offers are taken up or dropped.
LEMMA GoodAfter ==
  ASSUME NEW r, NEW p, Good(r, p), NEW u \in Users, NEW s, NEW q,
         \A v \in Users \ {u} : s[v] = r[v],
         \A c \in Channels : q[c] = p[c] \/ q[c] = None,
         s[u] # None => /\ s[u]["queue"] \in QueuesOf[s[u]["region"]]
                        /\ \/ s[u]["chan"] = None
                           \/ r[u] # None /\ s[u]["chan"] = r[u]["chan"]
                           \/ s[u]["chan"] \in Channels /\ p[s[u]["chan"]] = u /\ q[s[u]["chan"]] = None
  PROVE  Good(s, q) /\ \A c \in Channels : Uses(s, q, c) => Uses(r, p, c)
  <1>0. u # None /\ \A c \in Channels : c # None
    BY SessionsAssumption
  <1>1. \A v \in Users : s[v] # None => s[v]["queue"] \in QueuesOf[s[v]["region"]]
    BY DEF Good
  <1>2. ASSUME NEW v \in Users \ {u}, s[v] # None, s[u] # None, s[u]["chan"] # None
        PROVE  s[u]["chan"] # s[v]["chan"]
    <2>1. s[v] = r[v]
      OBVIOUS
    <2>2. CASE r[u] # None /\ s[u]["chan"] = r[u]["chan"]
      BY <1>2, <2>1, <2>2 DEF Good
    <2>3. CASE s[u]["chan"] \in Channels /\ p[s[u]["chan"]] = u
      BY <1>0, <1>2, <2>1, <2>3 DEF Good
    <2> QED
      BY <1>2, <2>2, <2>3
  <1>3. \A v, w \in Users : s[v] # None /\ s[w] # None /\ s[v]["chan"] # None /\ s[v]["chan"] = s[w]["chan"] => v = w
    <2> SUFFICES ASSUME NEW v \in Users, NEW w \in Users, s[v] # None, s[w] # None, s[v]["chan"] # None,
                        s[v]["chan"] = s[w]["chan"], v # w
                 PROVE  FALSE
      OBVIOUS
    <2>1. CASE v = u \/ w = u
      BY <1>2, <2>1
    <2>2. CASE v # u /\ w # u
      BY <2>2 DEF Good
    <2> QED
      BY <2>1, <2>2
  <1>4. \A c \in Channels, v \in Users : q[c] # None /\ s[v] # None /\ s[v]["chan"] = c => v = q[c]
    <2> SUFFICES ASSUME NEW c \in Channels, NEW v \in Users, q[c] # None, s[v] # None, s[v]["chan"] = c
                 PROVE  v = q[c]
      OBVIOUS
    <2>1. q[c] = p[c]
      OBVIOUS
    <2>2. CASE v # u
      BY <2>1, <2>2 DEF Good
    <2>3. CASE v = u
      <3>1. r[u] # None /\ r[u]["chan"] = c
        BY <1>0, <2>3
      <3> QED
        BY <2>1, <2>3, <3>1 DEF Good
    <2> QED
      BY <2>2, <2>3
  <1>5. ASSUME NEW c \in Channels, Uses(s, q, c)
        PROVE  Uses(r, p, c)
    <2>1. CASE q[c] # None
      BY <2>1 DEF Uses
    <2>2. CASE \E v \in Users : s[v] # None /\ s[v]["chan"] = c
      <3>1. PICK v \in Users : s[v] # None /\ s[v]["chan"] = c
        BY <2>2
      <3>2. CASE v # u
        BY <3>1, <3>2 DEF Uses
      <3>3. CASE v = u
        BY <1>0, <3>1, <3>3 DEF Uses
      <3> QED
        BY <3>2, <3>3
    <2> QED
      BY <1>5, <2>1, <2>2 DEF Uses
  <1> QED
    BY <1>1, <1>3, <1>4, <1>5 DEF Good

\* Nobody else is at work when a handler begins that works alone.
LEMMA NobodyBusy ==
  ASSUME Jobs, ~ Busy, NEW g \in Handlers
  PROVE  loc[g] = Idle
  BY IdleIs DEF Jobs, Busy, Works

\* What the columns of a row are when a change of it is committed.
Changed(l, u, new) ==
  /\ Fits(l) /\ RowAfter(l, row[u]) # None
  /\ \A c \in Columns : RowAfter(l, row[u])[c] = IF c \in DOMAIN new THEN new[c] ELSE row[u][c]

LEMMA ChangesAfter ==
  ASSUME Base, NEW u \in Users, NEW l, NEW new, Changes(l, u, new), l.user = u
  PROVE  Changed(l, u, new)
  <1>1. row[u] # None /\ Written(new) /\ l.id = row[u].id /\ l.dirty = Dirty(row[u], new) /\ ~ l.erase
    BY DEF Changes
  <1>2. row[u] \in Rows /\ Agrees(row[u]) /\ row[u]["id"] \in 1..lives
    BY <1>1, RowStored DEF Stored
  <1>3. l.id # None
    BY <1>1, <1>2, NumberIsNoNone DEF Base
  <1>4. /\ DOMAIN l.dirty \subseteq DOMAIN new
        /\ \A c \in DOMAIN l.dirty : l.dirty[c] = new[c]
        /\ \A c \in DOMAIN new : c \in DOMAIN l.dirty <=> new[c] # row[u][c]
    BY <1>1, DirtyIs
  <1>5. CASE l.dirty = Nothing
    <2>1. RowAfter(l, row[u]) = row[u]
      BY <1>1, <1>5 DEF RowAfter
    <2>2. \A c \in DOMAIN new : new[c] = row[u][c]
      BY <1>4, <1>5, NothingIs
    <2> QED
      BY <1>1, <1>5, <2>1, <2>2 DEF Fits, Changed
  <1>6. CASE l.dirty # Nothing
    <2>1. RowAfter(l, row[u]) = Over(l.dirty, row[u])
      BY <1>1, <1>3, <1>6 DEF RowAfter
    <2>3. Written(l.dirty)
      <3>1. row[u]["factOff"] = row[u]["factOn"] /\ row[u]["chFactOff"] = row[u]["chFactOn"]
        BY <1>1, RowIs
      <3>2. Agrees(l.dirty)
        BY <1>1, <1>4, <3>1 DEF Written, Agrees
      <3> QED
        BY <1>1, <1>4, <3>2 DEF Written
    <2>4. /\ Over(l.dirty, row[u]) \in Rows
          /\ \A c \in Columns : Over(l.dirty, row[u])[c] = IF c \in DOMAIN l.dirty THEN l.dirty[c] ELSE row[u][c]
      BY <1>2, <2>3, WrittenOver
    <2>5. \A c \in Columns : Over(l.dirty, row[u])[c] = IF c \in DOMAIN new THEN new[c] ELSE row[u][c]
      BY <1>4, <2>4
    <2>6. Fits(l)
      BY <1>1, <1>3 DEF Fits
    <2> QED
      BY <2>1, <2>4, <2>5, <2>6, NoneAssumption DEF Changed
  <1> QED
    BY <1>5, <1>6

LEMMA PendingAfterIs ==
  ASSUME Base, NEW l, DOMAIN l.pending \subseteq Channels
  PROVE  /\ DOMAIN PendingAfter(l, pending) = Channels
         /\ \A c \in Channels : PendingAfter(l, pending)[c] = IF c \in DOMAIN l.pending THEN l.pending[c] ELSE pending[c]
  BY DEF PendingAfter, Over, Base

\* A handler that begins, drops offers and leaves the row s.
Leaving(s, m, u) ==
  /\ \A c \in DOMAIN m.pending : m.pending[c] = None
  /\ s # None => /\ s["queue"] \in QueuesOf[s["region"]]
                 /\ \/ s["chan"] = None
                    \/ row[u] # None /\ s["chan"] = row[u]["chan"]
                    \/ s["chan"] \in DOMAIN m.pending /\ pending[s["chan"]] = u

LEMMA BegunGood ==
  ASSUME Base, Good(row, pending), NEW u \in Users, NEW m, m.user = u, DOMAIN m.pending \subseteq Channels,
         NEW s, s = RowAfter(m, row[u]), Leaving(s, m, u)
  PROVE  /\ Good(RowsAfter(m, row), PendingAfter(m, pending))
         /\ \A c \in Channels : Uses(RowsAfter(m, row), PendingAfter(m, pending), c) => Uses(row, pending, c)
  <1> DEFINE r == RowsAfter(m, row)
             q == PendingAfter(m, pending)
  <1>1. r[u] = s /\ \A v \in Users \ {u} : r[v] = row[v]
    BY DEF RowsAfter
  <1>2. \A c \in Channels : q[c] = IF c \in DOMAIN m.pending THEN m.pending[c] ELSE pending[c]
    BY PendingAfterIs
  <1> HIDE DEF r, q
  <1>3. \A c \in Channels : q[c] = pending[c] \/ q[c] = None
    BY <1>2 DEF Leaving
  <1>4. r[u] # None => /\ r[u]["queue"] \in QueuesOf[r[u]["region"]]
                       /\ \/ r[u]["chan"] = None
                          \/ row[u] # None /\ r[u]["chan"] = row[u]["chan"]
                          \/ r[u]["chan"] \in Channels /\ pending[r[u]["chan"]] = u /\ q[r[u]["chan"]] = None
    BY <1>1, <1>2 DEF Leaving
  <1>5. Good(r, q) /\ \A c \in Channels : Uses(r, q, c) => Uses(row, pending, c)
    BY <1>1, <1>3, <1>4, GoodAfter
  <1> QED
    BY <1>5 DEF r, q

LEMMA OpenedSafe ==
  ASSUME Base, Alone, NEW h \in Handlers, NEW u \in Users, NEW l, Opened(h, u, l), NEW m, m = [l EXCEPT !.user = u]
  PROVE  /\ Fits(m) /\ Good(RowsAfter(m, row), PendingAfter(m, pending))
         /\ \A c \in Channels : Uses(RowsAfter(m, row), PendingAfter(m, pending), c) => Uses(row, pending, c)
  <1>1. Kind(l, u)
    BY DEF Opened
  <1>2. /\ DOMAIN m = Fields /\ m.user = u /\ m.pc = l.pc /\ m.id = l.id /\ m.dirty = l.dirty /\ m.erase = l.erase
        /\ m.then = l.then /\ m.alert = l.alert /\ m.pending = l.pending /\ m.lost = l.lost
    BY <1>1, UserSet DEF Kind
  <1>3. Good(row, pending) /\ Ready(fsm[u])
    BY DEF Alone
  <1>4. DOMAIN m.pending \subseteq Channels
    BY <1>1, <1>2 DEF Kind
  <1>5. PICK s : s = RowAfter(m, row[u])
    OBVIOUS
  <1>6. row[u] # None => row[u]["queue"] \in QueuesOf[row[u]["region"]]
    BY <1>3 DEF Good
  <1>7. {"chan", "region", "queue"} \subseteq Columns
    BY FreshIs
  <1>8. ASSUME \A c \in DOMAIN m.pending : m.pending[c] = None, Fits(m),
               s # None => /\ s["queue"] \in QueuesOf[s["region"]]
                           /\ \/ s["chan"] = None
                              \/ row[u] # None /\ s["chan"] = row[u]["chan"]
                              \/ s["chan"] \in DOMAIN m.pending /\ pending[s["chan"]] = u
        PROVE  /\ Fits(m) /\ Good(RowsAfter(m, row), PendingAfter(m, pending))
               /\ \A c \in Channels : Uses(RowsAfter(m, row), PendingAfter(m, pending), c) => Uses(row, pending, c)
    <2>1. Leaving(s, m, u)
      BY <1>8 DEF Leaving
    <2>2. m.user = u
      BY <1>2
    <2> QED
      BY <1>3, <1>4, <1>5, <1>8, <2>1, <2>2, BegunGood
  <1>9. m.pending = Nothing => \A c \in DOMAIN m.pending : m.pending[c] = None
    BY NothingIs
  <1>10. ASSUME NEW new, Changes(l, u, new)
         PROVE  /\ Fits(m) /\ s # None /\ row[u] # None
                /\ s["chan"] = IF "chan" \in DOMAIN new THEN new["chan"] ELSE row[u]["chan"]
                /\ s["region"] = IF "region" \in DOMAIN new THEN new["region"] ELSE row[u]["region"]
                /\ s["queue"] = IF "queue" \in DOMAIN new THEN new["queue"] ELSE row[u]["queue"]
    <2>1. Changes(m, u, new)
      BY <1>2, <1>10 DEF Changes
    <2>2. /\ Fits(m) /\ s # None
          /\ \A c \in Columns : s[c] = IF c \in DOMAIN new THEN new[c] ELSE row[u][c]
      <3>1. m.user = u
        BY <1>2
      <3>2. Changed(m, u, new)
        BY <2>1, <3>1, ChangesAfter
      <3> QED
        BY <1>5, <3>2 DEF Changed
    <2> QED
      BY <1>7, <1>10, <2>2 DEF Changes
  <1>11. CASE Quiet(l)
    <2>1. s = row[u] /\ Fits(m)
      BY <1>2, <1>5, <1>11 DEF Quiet, RowAfter, Fits
    <2> QED
      BY <1>2, <1>6, <1>8, <1>11, <2>1 DEF Quiet
  <1>12. CASE Plain(l, u)
    <2>1. PICK new : Changes(l, u, new) /\ DOMAIN new \cap {"chan", "region", "queue"} = {} /\ l.pending = Nothing
      BY <1>12 DEF Plain
    <2>2. s["chan"] = row[u]["chan"] /\ s["region"] = row[u]["region"] /\ s["queue"] = row[u]["queue"] /\ row[u] # None /\ Fits(m)
      BY <1>10, <2>1
    <2> QED
      BY <1>2, <1>6, <1>8, <1>9, <2>1, <2>2
  <1>13. CASE Moves(l, u)
    <2>1. PICK new : /\ Changes(l, u, new) /\ DOMAIN new = {"active", "region", "queue"} /\ l.pending = Nothing
                     /\ new["queue"] \in QueuesOf[new["region"]]
      BY <1>3, <1>13 DEF Moves
    <2>2. s["chan"] = row[u]["chan"] /\ s["region"] = new["region"] /\ s["queue"] = new["queue"] /\ row[u] # None /\ Fits(m)
      BY <1>10, <2>1
    <2> QED
      BY <1>2, <1>8, <1>9, <2>1, <2>2
  <1>14. CASE Creates(l, u)
    <2>1. /\ row[u] = None /\ m.id = None /\ ~ m.erase /\ m.pending = Nothing /\ Newborn(m.dirty)
          /\ m.dirty["queue"] \in QueuesOf[m.dirty["region"]]
      BY <1>2, <1>3, <1>14 DEF Creates
    <2>2. Fits(m)
      BY <1>2, <2>1 DEF Fits
    <2>3. s = None \/ s = m.dirty
      BY <1>5, <2>1 DEF RowAfter
    <2>4. m.dirty["chan"] = None
      BY <2>1, FreshIs DEF Newborn
    <2> QED
      BY <1>8, <1>9, <2>1, <2>2, <2>3, <2>4
  <1>15. CASE Erases(l, u)
    <2>1. row[u] # None /\ m.id = row[u].id /\ m.erase /\ m.dirty = Nothing /\ m.pending = Nothing
      BY <1>2, <1>15 DEF Erases
    <2>2. s = None /\ Fits(m)
      BY <1>5, <2>1 DEF RowAfter, Fits
    <2> QED
      BY <1>8, <1>9, <2>1, <2>2
  <1>16. CASE Retires(l)
    <2>1. m.id = AnyLife /\ m.dirty = [active |-> FALSE] /\ ~ m.erase /\ m.pending = Nothing
      BY <1>2, <1>16 DEF Retires
    <2>2. m.id # None /\ Fits(m)
      BY <2>1, SessionsAssumption DEF Fits, AnyLife
    <2>3. Written(m.dirty) /\ DOMAIN m.dirty = {"active"}
      BY <2>1, RetiredIs
    <2>4. s # None => s = row[u] \/ s = Over(m.dirty, row[u])
      BY <1>5, <2>1, <2>2 DEF RowAfter
    <2>5. s # None => row[u] # None
      BY <1>5, <2>1, <2>2 DEF RowAfter
    <2>6. s # None => \A c \in {"chan", "region", "queue"} : s[c] = row[u][c]
      <3>1. row[u] # None => row[u] \in Rows /\ Agrees(row[u])
        BY RowStored DEF Stored
      <3>2. row[u] # None => \A c \in Columns : Over(m.dirty, row[u])[c] = IF c \in DOMAIN m.dirty THEN m.dirty[c] ELSE row[u][c]
        BY <2>3, <3>1, WrittenOver
      <3> QED
        BY <1>7, <2>3, <2>4, <2>5, <3>2
    <2> QED
      BY <1>6, <1>8, <1>9, <2>1, <2>2, <2>5, <2>6
  <1>17. CASE Links(l, u)
    <2>1. PICK c \in Channels : pending[c] = u /\ Changes(l, u, Linked(c)) /\ l.pending = DropsPending(c)
      BY <1>17 DEF Links
    <2>2. s["chan"] = c /\ s["region"] = row[u]["region"] /\ s["queue"] = row[u]["queue"] /\ row[u] # None /\ Fits(m)
      BY <1>10, <2>1, LinkedIs
    <2>3. DOMAIN m.pending = {c} /\ m.pending[c] = None
      BY <1>2, <2>1 DEF DropsPending
    <2> QED
      BY <1>6, <1>8, <2>1, <2>2, <2>3
  <1>18. CASE Leaves(l, u)
    <2>1. s["chan"] = None /\ s["region"] = row[u]["region"] /\ s["queue"] = row[u]["queue"] /\ row[u] # None /\ Fits(m)
      BY <1>10, <1>18, GivenUpIs DEF Leaves
    <2> QED
      BY <1>2, <1>6, <1>8, <1>9, <1>18, <2>1 DEF Leaves
  <1> QED
    BY <1>1, <1>11, <1>12, <1>13, <1>14, <1>15, <1>16, <1>17, <1>18 DEF Kind

\* Whoever begins while nobody else works, works alone.
LEMMA BegunAlone ==
  ASSUME Base, Jobs, NEW h \in Handlers, NEW m, loc' = [loc EXCEPT ![h] = m], ~ Busy
  PROVE  /\ loc'[h] = m /\ \A g \in Handlers \ {h} : loc'[g] = Idle
         /\ \A g \in Handlers : loc[g].lost = None
         /\ \A f, g \in Handlers : loc'[f].pc # "idle" /\ loc'[g].pc # "idle" => f = g
  <1>1. \A g \in Handlers : loc[g] = Idle
    BY NobodyBusy
  <1>2. loc'[h] = m /\ \A g \in Handlers \ {h} : loc'[g] = Idle
    BY <1>1 DEF Base
  <1> QED
    BY <1>1, <1>2, IdleIs

LEMMA OpenedAlone ==
  ASSUME Base, Jobs, Alone, ~ Busy, NEW h \in Handlers, NEW u \in Users, NEW l, Opened(h, u, l)
  PROVE  Alone'
  <1>1. PICK m : m = [l EXCEPT !.user = u]
    OBVIOUS
  <1>2. /\ loc' = [loc EXCEPT ![h] = m] /\ UNCHANGED <<row, pending, member, updates, unheard>>
        /\ UNCHANGED fsm \/ fsm' = [fsm EXCEPT ![u] = Cleared]
        /\ Ready(fsm[u]) => Ready(fsm'[u]) /\ Ready(Over(l.then, fsm'[u]))
    BY <1>1 DEF Opened, Begins, dbVars, channelVars
  <1>3. m.user = u /\ m.then = l.then /\ m.lost = None
    BY <1>1, UserSet DEF Opened, Kind
  <1>4. /\ Fits(m) /\ Good(RowsAfter(m, row), PendingAfter(m, pending))
        /\ \A c \in Channels : Uses(RowsAfter(m, row), PendingAfter(m, pending), c) => Uses(row, pending, c)
    BY <1>1, OpenedSafe
  <1>5. /\ loc'[h] = m /\ \A g \in Handlers \ {h} : loc'[g] = Idle
        /\ \A g \in Handlers : loc[g].lost = None
        /\ \A f, g \in Handlers : loc'[f].pc # "idle" /\ loc'[g].pc # "idle" => f = g
    BY <1>2, BegunAlone
  <1>6. \A v \in Users : Ready(fsm'[v])
    BY <1>2 DEF Alone, Base
  <1>7. \A c \in Channels : Uses(row, pending, c) => Supported(c)' /\ c # None
    BY <1>2, <1>5, SessionsAssumption DEF Alone, Supported
  <1>8. Safe(m)'
    BY <1>2, <1>3, <1>4, <1>6, <1>7 DEF Safe, Fits, Alone
  <1>9. \A g \in Handlers : loc'[g].pc # "idle" => Safe(loc[g])'
    <2>1. \A g \in Handlers \ {h} : loc'[g].pc = "idle"
      BY <1>5, IdleIs
    <2>2. Safe(loc[h])'
      BY <1>5, <1>8 DEF Safe, Fits
    <2> QED
      BY <2>1, <2>2
  <1> QED
    BY <1>2, <1>5, <1>6, <1>7, <1>9 DEF Alone

\* The queue of updates, and what it says of the channels.
Queued == updates \in Seq([chan : Channels, by : Users \cup {None}, added : BOOLEAN])

LEMMA TailQueue ==
  ASSUME Queued, updates # <<>>, updates' = Tail(updates)
  PROVE  /\ \A i \in DOMAIN updates' : i \in Nat /\ i + 1 \in DOMAIN updates /\ updates'[i] = updates[i + 1]
         /\ \A i \in DOMAIN updates : i # 1 => i - 1 \in DOMAIN updates' /\ updates'[i - 1] = updates[i]
         /\ 1 \in DOMAIN updates /\ updates[1] = Head(updates)
         /\ \A i \in DOMAIN updates : i \in Nat /\ i >= 1
  <1> DEFINE S == [chan : Channels, by : Users \cup {None}, added : BOOLEAN]
  <1>1. updates \in Seq(S)
    BY DEF Queued
  <1> HIDE DEF S
  <1>2. DOMAIN updates = 1..Len(updates) /\ Len(updates) \in Nat /\ Len(updates) >= 1 /\ updates[1] = Head(updates)
    BY <1>1
  <1>3. Len(updates') = Len(updates) - 1 /\ DOMAIN updates' = 1..Len(updates')
    BY <1>1, TailIs
  <1>4. \A i \in DOMAIN updates' : i + 1 \in DOMAIN updates /\ updates'[i] = updates[i + 1]
    BY <1>1, TailIs
  <1>5. \A i \in DOMAIN updates : i # 1 => i - 1 \in DOMAIN updates' /\ updates'[i - 1] = updates[i]
    BY <1>1, TailIs
  <1> QED
    BY <1>2, <1>3, <1>4, <1>5

\* A handler hears the first update while nobody else works.
LEMMA HeardSupport ==
  ASSUME Base, Jobs, Alone, ~ Busy, updates # <<>>, updates' = Tail(updates), UNCHANGED <<member, unheard>>,
         NEW h \in Handlers, NEW m, loc' = [loc EXCEPT ![h] = m]
  PROVE  /\ \A c \in Channels : Supported(c) /\ (c = Head(updates).chan => Head(updates).added \/ m.lost = c) => Supported(c)'
         /\ \A i \in DOMAIN updates' : updates'[i].added =>
              \/ updates'[i].chan \in member'
              \/ \E j \in DOMAIN updates' : j > i /\ updates'[j].chan = updates'[i].chan /\ ~ updates'[j].added
         /\ \A c \in Channels : c = Head(updates).chan /\ Head(updates).added => Supported(c)'
  <1>1. Queued
    BY DEF Base, Queued
  <1>2. /\ \A i \in DOMAIN updates' : i \in Nat /\ i + 1 \in DOMAIN updates /\ updates'[i] = updates[i + 1]
        /\ \A i \in DOMAIN updates : i # 1 => i - 1 \in DOMAIN updates' /\ updates'[i - 1] = updates[i]
        /\ 1 \in DOMAIN updates /\ updates[1] = Head(updates)
        /\ \A i \in DOMAIN updates : i \in Nat /\ i >= 1
    BY <1>1, TailQueue
  <1>3. \A g \in Handlers : loc[g].lost = None
    BY NobodyBusy, IdleIs
  <1>4. loc'[h] = m
    BY DEF Base
  <1>5. ASSUME NEW c \in Channels, Supported(c), c = Head(updates).chan => Head(updates).added \/ m.lost = c
        PROVE  Supported(c)'
    <2>1. CASE c \in member \cup unheard
      BY <2>1 DEF Supported
    <2>2. CASE \E i \in DOMAIN updates : updates[i].chan = c /\ ~ updates[i].added
      <3>1. PICK i \in DOMAIN updates : updates[i].chan = c /\ ~ updates[i].added
        BY <2>2
      <3>2. CASE i # 1
        BY <1>2, <3>1, <3>2 DEF Supported
      <3>3. CASE i = 1
        BY <1>2, <1>4, <1>5, <3>1, <3>3 DEF Supported
      <3> QED
        BY <3>2, <3>3
    <2> QED
      BY <1>3, <1>5, <2>1, <2>2, SessionsAssumption DEF Supported
  <1>6. ASSUME NEW i \in DOMAIN updates', updates'[i].added
        PROVE  \/ updates'[i].chan \in member'
               \/ \E j \in DOMAIN updates' : j > i /\ updates'[j].chan = updates'[i].chan /\ ~ updates'[j].added
    <2>1. i \in Nat /\ i + 1 \in DOMAIN updates /\ updates'[i] = updates[i + 1]
      BY <1>2
    <2>2. CASE updates[i + 1].chan \in member
      BY <2>1, <2>2
    <2>3. CASE \E j \in DOMAIN updates : j > i + 1 /\ updates[j].chan = updates[i + 1].chan /\ ~ updates[j].added
      <3>1. PICK j \in DOMAIN updates : j > i + 1 /\ updates[j].chan = updates[i + 1].chan /\ ~ updates[j].added
        BY <2>3
      <3>2. j \in Nat /\ j # 1 /\ j - 1 > i
        BY <1>2, <2>1, <3>1
      <3>3. j - 1 \in DOMAIN updates' /\ updates'[j - 1] = updates[j]
        BY <1>2, <3>2
      <3> QED
        BY <2>1, <3>1, <3>2, <3>3
    <2> QED
      BY <1>6, <2>1, <2>2, <2>3 DEF Alone
  <1>7. ASSUME NEW c \in Channels, c = Head(updates).chan, Head(updates).added
        PROVE  Supported(c)'
    <2>0. 1 \in DOMAIN updates /\ updates[1].added /\ updates[1].chan = c
      BY <1>2, <1>7
    <2>1. \/ c \in member
          \/ \E j \in DOMAIN updates : j > 1 /\ updates[j].chan = c /\ ~ updates[j].added
      BY <2>0 DEF Alone
    <2>2. CASE c \in member
      BY <2>2 DEF Supported
    <2>3. CASE \E j \in DOMAIN updates : j > 1 /\ updates[j].chan = c /\ ~ updates[j].added
      <3>1. PICK j \in DOMAIN updates : j > 1 /\ updates[j].chan = c /\ ~ updates[j].added
        BY <2>3
      <3>2. j # 1 /\ j - 1 \in DOMAIN updates' /\ updates'[j - 1] = updates[j]
        BY <1>2, <3>1
      <3> QED
        BY <3>1, <3>2 DEF Supported
    <2> QED
      BY <2>1, <2>2, <2>3
  <1> QED
    BY <1>5, <1>6, <1>7

LEMMA HeardAlone ==
  ASSUME Base, Jobs, Alone, ~ Busy, NEW h \in Handlers, NEW u, NEW c, NEW l,
         HeardAdded(h, u, c, l) \/ HeardRemoved(h, u, c, l)
  PROVE  Alone'
  <1>1. PICK m : m = [l EXCEPT !.user = u]
    OBVIOUS
  <1>2. Heard(h, u, l) /\ c = Head(updates).chan
    BY DEF HeardAdded, HeardRemoved
  <1>3. /\ loc' = [loc EXCEPT ![h] = m] /\ UNCHANGED <<row, pending, fsm, member, unheard>> /\ u \in Users
        /\ updates # <<>> /\ updates' = Tail(updates) /\ DOMAIN l = Fields /\ l.pc = "commit" /\ l.erase = FALSE
    BY <1>1, <1>2 DEF Heard, Begins, dbVars
  <1>4. /\ m.user = u /\ m.lost = l.lost /\ m.pc = "commit" /\ m.pending = l.pending /\ m.id = l.id
        /\ m.dirty = l.dirty /\ m.erase = FALSE
    BY <1>1, <1>3, UserSet
  <1>5. /\ loc'[h] = m /\ \A g \in Handlers \ {h} : loc'[g] = Idle
        /\ \A f, g \in Handlers : loc'[f].pc # "idle" /\ loc'[g].pc # "idle" => f = g
    BY <1>3, BegunAlone
  <1>6. /\ \A d \in Channels : Supported(d) /\ (d = c => Head(updates).added \/ m.lost = d) => Supported(d)'
        /\ \A i \in DOMAIN updates' : updates'[i].added =>
             \/ updates'[i].chan \in member'
             \/ \E j \in DOMAIN updates' : j > i /\ updates'[j].chan = updates'[i].chan /\ ~ updates'[j].added
        /\ c \in Channels /\ Head(updates).added => Supported(c)'
    BY <1>2, <1>3, HeardSupport
  <1>7. c \in Channels /\ c # None
    BY <1>2, <1>3, HeadIs, SessionsAssumption
  <1>8. Good(row, pending) /\ \A d \in Channels : Uses(row, pending, d) => Supported(d)
    BY DEF Alone
  <1>9. PICK r, q : r = RowsAfter(m, row) /\ q = PendingAfter(m, pending)
    OBVIOUS
  <1>10. /\ Fits(m) /\ Good(r, q)
         /\ \A d \in Channels : Uses(r, q, d) => Supported(d)' /\ m.lost # d
         /\ \A d \in Channels : Uses(row, pending, d) => Supported(d)'
    <2>1. CASE HeardAdded(h, u, c, l)
      <3>1. Head(updates).added /\ m.lost = None /\ m.id = None /\ m.dirty = Nothing
        BY <1>4, <2>1 DEF HeardAdded
      <3>2. \A v \in Users : r[v] = row[v]
        BY <1>4, <1>9, <3>1 DEF RowsAfter, RowAfter
      <3>3. \A d \in Channels : Uses(row, pending, d) => Supported(d)' /\ d # None
        BY <1>6, <1>8, <3>1, SessionsAssumption
      <3>4. DOMAIN m.pending \subseteq Channels
        BY <1>4, <1>7, <2>1, NothingIs DEF HeardAdded
      <3>5. \A d \in Channels : q[d] = IF d \in DOMAIN m.pending THEN m.pending[d] ELSE pending[d]
        BY <1>9, <3>4, PendingAfterIs
      <3>6. \/ \A d \in Channels : q[d] = pending[d]
            \/ Offers(c, u) /\ q[c] = u /\ \A d \in Channels \ {c} : q[d] = pending[d]
        <4>1. CASE m.pending = Nothing
          BY <3>5, <4>1, NothingIs
        <4>2. CASE Offers(c, u) /\ m.pending = [d \in {c} |-> u]
          BY <1>7, <3>5, <4>2
        <4> QED
          BY <1>4, <2>1, <4>1, <4>2 DEF HeardAdded
      <3>7. Good(r, q)
        BY <1>8, <3>2, <3>6 DEF Good, Offers, Owners
      <3>8. \A d \in Channels : Uses(r, q, d) => Uses(row, pending, d) \/ d = c
        BY <3>2, <3>6 DEF Uses
      <3>9. \A d \in Channels : Uses(r, q, d) => Supported(d)' /\ m.lost # d
        BY <1>6, <1>7, <3>1, <3>3, <3>8, SessionsAssumption
      <3> QED
        BY <3>1, <3>3, <3>7, <3>9 DEF Fits
    <2>2. CASE HeardRemoved(h, u, c, l)
      <3>1. ~ Head(updates).added /\ m.lost = c /\ m.pending = DropsPending(c)
        BY <1>4, <2>2 DEF HeardRemoved
      <3>2. DOMAIN m.pending = {c} /\ m.pending[c] = None
        BY <3>1 DEF DropsPending
      <3>3. PICK s : s = RowAfter(m, row[u])
        OBVIOUS
      <3>4. r[u] = s /\ \A v \in Users \ {u} : r[v] = row[v]
        BY <1>3, <1>4, <1>9, <3>3 DEF RowsAfter
      <3>5. /\ Fits(m)
            /\ s # None => row[u] # None /\ s["region"] = row[u]["region"] /\ s["queue"] = row[u]["queue"]
            /\ \/ Owners(c) = {} /\ s = row[u]
               \/ u \in Owners(c) /\ s["chan"] = None
        <4>1. CASE Owners(c) = {} /\ l.id = None /\ l.dirty = Nothing
          <5>1. s = row[u] /\ Fits(m)
            BY <1>4, <3>3, <4>1 DEF RowAfter, Fits
          <5> QED
            BY <4>1, <5>1
        <4>2. CASE u \in Owners(c) /\ Changes(l, u, GivenUp)
          <5>1. Changes(m, u, GivenUp)
            BY <1>4, <4>2 DEF Changes
          <5>2. Changed(m, u, GivenUp)
            BY <1>3, <1>4, <5>1, ChangesAfter
          <5>3. {"chan", "region", "queue"} \subseteq Columns
            BY FreshIs
          <5> QED
            BY <3>3, <4>2, <5>2, <5>3, GivenUpIs DEF Changed, Owners
        <4> QED
          BY <2>2, <4>1, <4>2 DEF HeardRemoved
      <3>6. s # None => /\ s["queue"] \in QueuesOf[s["region"]]
                        /\ s["chan"] = None \/ (row[u] # None /\ s["chan"] = row[u]["chan"])
        BY <1>3, <1>8, <3>5 DEF Good
      <3>7. Good(r, q) /\ \A d \in Channels : Uses(r, q, d) => Uses(row, pending, d)
        <4>1. Leaving(s, m, u)
          BY <3>2, <3>6 DEF Leaving
        <4>2. DOMAIN m.pending \subseteq Channels
          BY <1>7, <3>2
        <4> QED
          BY <1>3, <1>4, <1>8, <1>9, <3>3, <4>1, <4>2, BegunGood
      <3>8. ~ Uses(r, q, c)
        <4>1. q[c] = None
          BY <1>7, <1>9, <3>2, PendingAfterIs
        <4>2. ASSUME NEW v \in Users, r[v] # None, r[v]["chan"] = c
              PROVE  FALSE
          <5>1. CASE v = u
            BY <1>7, <3>4, <3>5, <4>2, <5>1 DEF Owners
          <5>2. CASE v # u
            <6>1. v \in Owners(c)
              BY <3>4, <4>2, <5>2 DEF Owners
            <6>2. u \in Owners(c)
              BY <3>5, <6>1
            <6> QED
              BY <1>7, <1>8, <5>2, <6>1, <6>2 DEF Good, Owners
          <5> QED
            BY <5>1, <5>2
        <4> QED
          BY <4>1, <4>2 DEF Uses
      <3>9. \A d \in Channels : Uses(row, pending, d) => Supported(d)'
        BY <1>6, <1>8, <3>1
      <3> QED
        BY <3>1, <3>5, <3>7, <3>8, <3>9
    <2> QED
      BY <2>1, <2>2
  <1>11. Safe(m)'
    BY <1>3, <1>4, <1>9, <1>10 DEF Safe, Fits
  <1>12. \A g \in Handlers : loc'[g].pc # "idle" => Safe(loc[g])'
    <2>1. \A g \in Handlers \ {h} : loc'[g].pc = "idle"
      BY <1>5, IdleIs
    <2>2. Safe(loc[h])'
      BY <1>5, <1>11 DEF Safe, Fits
    <2> QED
      BY <2>1, <2>2
  <1> QED
    BY <1>3, <1>5, <1>6, <1>8, <1>10, <1>12 DEF Alone

\* While h works, nobody else does.
LEMMA OthersIdle ==
  ASSUME Jobs, Alone, NEW h \in Handlers, loc[h].pc # "idle"
  PROVE  \A g \in Handlers \ {h} : loc[g] = Idle /\ loc[g].pc = "idle" /\ loc[g].lost = None
  BY IdleIs DEF Jobs, Alone, Works

\* h goes on: what it is about to leave stays as good as it was.
LEMMA GoesOnAlone ==
  ASSUME Base, Jobs, Alone, NEW h \in Handlers, loc[h].pc # "idle", NEW m, m.pc # "idle",
         loc' = [loc EXCEPT ![h] = m], UNCHANGED <<row, pending, member, updates, unheard>>,
         \A u \in Users : Ready(fsm'[u]),
         m.lost = loc[h].lost, m.pending = loc[h].pending, Fits(m),
         Alike(RowsAfter(loc[h], row), RowsAfter(m, row)),
         m.pc # "commit" => Ready(Over(m.then, fsm'[m.user]))
  PROVE  Alone'
  <1>1. loc'[h] = m /\ \A g \in Handlers \ {h} : loc'[g] = loc[g] /\ loc[g].pc = "idle"
    BY OthersIdle DEF Base
  <1>2. \A c \in Channels : Supported(c)' <=> Supported(c)
    BY <1>1 DEF Supported
  <1>3. Safe(loc[h])
    BY DEF Alone
  <1>4. PICK r, s, q : r = RowsAfter(loc[h], row) /\ s = RowsAfter(m, row) /\ q = PendingAfter(loc[h], pending)
    OBVIOUS
  <1>5. q = PendingAfter(m, pending)
    BY <1>4 DEF PendingAfter
  <1>6. Good(s, q) /\ \A c \in Channels : Uses(s, q, c) => Supported(c) /\ m.lost # c
    BY <1>3, <1>4, AlikeIsGood DEF Safe
  <1>7. Safe(m)'
    BY <1>2, <1>4, <1>5, <1>6 DEF Safe, Fits
  <1>8. \A g \in Handlers : loc'[g].pc # "idle" => Safe(loc[g])'
    <2>1. Safe(loc[h])'
      BY <1>1, <1>7 DEF Safe, Fits
    <2> QED
      BY <1>1, <2>1
  <1> QED
    BY <1>1, <1>2, <1>8 DEF Alone

\* h is done.
LEMMA DoneAlone ==
  ASSUME Base, Jobs, Alone, NEW h \in Handlers, loc[h].pc # "idle", loc' = [loc EXCEPT ![h] = Idle],
         UNCHANGED <<fsm, member, updates>>, Good(row', pending'),
         \A c \in Channels : Uses(row', pending', c) => Supported(c) /\ (loc[h].lost = c => c \in unheard'),
         unheard \subseteq unheard'
  PROVE  Alone'
  <1>1. loc'[h] = Idle /\ \A g \in Handlers \ {h} : loc'[g] = Idle /\ loc[g].lost = None
    BY OthersIdle DEF Base
  <1>2. ASSUME NEW c \in Channels, Uses(row', pending', c)
        PROVE  Supported(c)'
    <2>1. Supported(c) /\ (loc[h].lost = c => c \in unheard') /\ c # None
      BY <1>2, SessionsAssumption
    <2> QED
      BY <1>1, <2>1 DEF Supported
  <1> QED
    BY <1>1, <1>2, IdleIs DEF Alone

LEMMA FlushAlone ==
  ASSUME Base, Jobs, Alone, NEW h \in Handlers, Flush(h), UNCHANGED channelVars
  PROVE  Alone'
  <1>1. PICK l : l = loc[h]
    OBVIOUS
  <1>2. PICK m : m = IF Fits(l) THEN [Numbered(l) EXCEPT !.pc = "answer", !.held = TRUE] ELSE Idle
    OBVIOUS
  <1>3. PICK n : n = IF l.id = None THEN lives + 1 ELSE lives
    OBVIOUS
  <1>4. l.pc = "flush" /\ loc' = [loc EXCEPT ![h] = m] /\ UNCHANGED <<row, pending, fsm, member, updates, unheard>>
    BY <1>1, <1>2 DEF Flush, Base, channelVars
  <1>5. Works(l, lives, addedBy) /\ Safe(l)
    BY <1>1, <1>4, BusyWorks DEF Alone
  <1>6. m = Idle \/ Flushed(l, m, n)
    BY <1>2, <1>3, <1>4, <1>5, FlushedIs
  <1>7. CASE m = Idle
    <2>1. Good(row, pending) /\ Fits(l)
      BY <1>5 DEF Alone, Safe
    <2>2. m = [Numbered(l) EXCEPT !.pc = "answer", !.held = TRUE]
      BY <1>2, <2>1
    <2>3. m.pc = "answer"
      <3>1. PICK k : k = Numbered(l)
        OBVIOUS
      <3>2. DOMAIN k = Fields
        <4>1. DOMAIN l = Fields
          BY <1>5 DEF Works
        <4> QED
          BY <3>1, <4>1 DEF Numbered
      <3> QED
        BY <2>2, <3>1, <3>2 DEF Fields
    <2> QED
      BY <1>7, <2>3, IdleIs
  <1>8. CASE Flushed(l, m, n)
    <2>1. /\ m.pc = "answer" /\ m.user = l.user /\ m.then = l.then /\ m.lost = l.lost /\ m.pending = l.pending
          /\ m.id = l.id /\ m.erase = l.erase
          /\ l.id # None => m.dirty = l.dirty
          /\ l.id = None => /\ \A c \in Columns \ {"id"} : m.dirty[c] = l.dirty[c]
                            /\ Bears(l, lives) /\ Bears(m, n)
      BY <1>8 DEF Flushed
    <2>2. Fits(l)
      BY <1>5 DEF Safe
    <2>3. CASE l.id # None
      <3>1. Fits(m)
        BY <2>1, <2>2, <2>3 DEF Fits
      <3>2. \A v \in Users : RowsAfter(m, row)[v] = RowsAfter(l, row)[v]
        BY <2>1, <2>3 DEF RowsAfter, RowAfter
      <3>3. Alike(RowsAfter(l, row), RowsAfter(m, row))
        BY <3>2 DEF Alike
      <3>4. Ready(Over(m.then, fsm'[m.user])) /\ \A u \in Users : Ready(fsm'[u])
        BY <1>4, <1>5, <2>1 DEF Safe, Alone
      <3> QED
        BY <1>1, <1>4, <2>1, <3>1, <3>3, <3>4, GoesOnAlone
    <2>4. CASE l.id = None
      <3>1. l.dirty # Nothing /\ m.dirty # Nothing /\ l.dirty # None /\ m.dirty # None
        <4>1. "id" \in Columns
          BY FreshIs
        <4>2. l.dirty \in Rows /\ m.dirty \in Rows
          BY <2>1, <2>4 DEF Bears, Newborn
        <4> QED
          BY <4>1, <4>2, NothingIs, NoneAssumption DEF Rows
      <3>2. row[l.user] = None /\ Fits(m)
        BY <2>1, <2>2, <2>4, <3>1, SessionsAssumption DEF Fits, AnyLife
      <3>3. ~ l.erase /\ ~ m.erase /\ m.id = None
        BY <2>1, <2>4 DEF Bears
      <3>4. RowAfter(l, row[l.user]) = l.dirty /\ RowAfter(m, row[m.user]) = m.dirty
        BY <2>4, <3>1, <3>3 DEF RowAfter
      <3>5. {"chan", "region", "queue"} \subseteq Columns \ {"id"}
        BY FreshIs
      <3>6. \A c \in {"chan", "region", "queue"} : m.dirty[c] = l.dirty[c]
        BY <2>1, <2>4, <3>5
      <3>7. Alike(RowsAfter(l, row), RowsAfter(m, row))
        BY <2>1, <3>1, <3>4, <3>6 DEF Alike, RowsAfter
      <3>8. Ready(Over(m.then, fsm'[m.user])) /\ \A u \in Users : Ready(fsm'[u])
        BY <1>4, <1>5, <2>1 DEF Safe, Alone
      <3> QED
        BY <1>1, <1>4, <2>1, <3>2, <3>7, <3>8, GoesOnAlone
    <2> QED
      BY <2>3, <2>4
  <1> QED
    BY <1>6, <1>7, <1>8

LEMMA AnswerAlone ==
  ASSUME Base, Jobs, Alone, NEW h \in Handlers, Answer(h), UNCHANGED channelVars
  PROVE  Alone'
  <1>1. PICK l : l = loc[h]
    OBVIOUS
  <1>2. PICK m : m = [l EXCEPT !.pc = "commit"]
    OBVIOUS
  <1>3. /\ l.pc = "answer" /\ loc' = [loc EXCEPT ![h] = m] /\ UNCHANGED <<row, pending, member, updates, unheard>>
        /\ fsm' = [fsm EXCEPT ![l.user] = Over(l.then, fsm[l.user])]
    BY <1>1, <1>2 DEF Answer, Base, dbVars, channelVars
  <1>4. Works(l, lives, addedBy) /\ Safe(l)
    BY <1>1, <1>3, BusyWorks DEF Alone
  <1>5. /\ m.user = l.user /\ m.id = l.id /\ m.dirty = l.dirty /\ m.erase = l.erase
        /\ m.pending = l.pending /\ m.lost = l.lost /\ m.pc = "commit"
    BY <1>2, <1>3, <1>4, AnsweredIs
  <1>6. Fits(m)
    BY <1>4, <1>5 DEF Safe, Fits
  <1>7. \A v \in Users : RowsAfter(m, row)[v] = RowsAfter(l, row)[v]
    BY <1>5 DEF RowsAfter, RowAfter
  <1>8. Alike(RowsAfter(l, row), RowsAfter(m, row))
    BY <1>7 DEF Alike
  <1>9. \A u \in Users : Ready(fsm'[u])
    BY <1>3, <1>4 DEF Safe, Alone, Base
  <1> QED
    BY <1>1, <1>3, <1>5, <1>6, <1>8, <1>9, GoesOnAlone

LEMMA CommitAlone ==
  ASSUME Base, Jobs, Alone, NEW h \in Handlers, Commit(h), UNCHANGED channelVars
  PROVE  Alone'
  <1>1. PICK l : l = loc[h]
    OBVIOUS
  <1>2. l.pc = "commit" /\ loc' = [loc EXCEPT ![h] = Idle] /\ UNCHANGED <<fsm, member, updates, unheard>>
    BY <1>1 DEF Commit, Base, channelVars
  <1>3. Works(l, lives, addedBy) /\ Safe(l)
    BY <1>1, <1>2, BusyWorks DEF Alone
  <1>4. row' = [row EXCEPT ![l.user] = RowAfter(l, row[l.user])] /\ pending' = PendingAfter(l, pending)
    BY <1>1, <1>3 DEF Commit, Safe, PendingAfter
  <1>5. \A v \in Users : row'[v] = RowsAfter(l, row)[v]
    BY <1>4 DEF Base, RowsAfter
  <1>6. Alike(RowsAfter(l, row), row')
    BY <1>5 DEF Alike
  <1>7. Good(row', pending') /\ \A c \in Channels : Uses(row', pending', c) => Supported(c) /\ l.lost # c
    BY <1>3, <1>4, <1>6, AlikeIsGood DEF Safe
  <1> QED
    BY <1>1, <1>2, <1>7, DoneAlone

LEMMA FailAlone ==
  ASSUME Base, Jobs, Alone, NEW h \in Handlers, Fail(h), UNCHANGED <<member, updates>>,
         unheard' = IF loc[h].lost = None THEN unheard ELSE unheard \cup {loc[h].lost}
  PROVE  Alone'
  <1>1. loc[h].pc # "idle" /\ loc' = [loc EXCEPT ![h] = Idle] /\ UNCHANGED <<row, pending, fsm>>
    BY DEF Fail, dbVars
  <1>2. Good(row', pending') /\ \A c \in Channels : Uses(row', pending', c) => Supported(c)
    BY <1>1 DEF Alone
  <1>3. \A c \in Channels : loc[h].lost = c => c \in unheard'
    BY SessionsAssumption
  <1> QED
    BY <1>1, <1>2, <1>3, DoneAlone

LEMMA AsideAlone ==
  ASSUME Base, Jobs, Alone, Aside
  PROVE  Alone'
  <1>1. UNCHANGED <<pending, fsm, loc, member, updates, unheard>>
    BY DEF Aside, channelVars
  <1>2. \A u \in Users : /\ row'[u] = None <=> row[u] = None
                         /\ row[u] # None => \A c \in Columns \ {"active"} : row'[u][c] = row[u][c]
    BY AsideRows
  <1>3. {"id", "chan", "region", "queue"} \subseteq Columns \ {"active"}
    BY FreshIs
  <1>4. Alike(row, row')
    BY <1>2, <1>3 DEF Alike
  <1>5. \A u \in Users : row[u] # None => row'[u]["id"] = row[u]["id"]
    BY <1>2, <1>3
  <1>6. \A c \in Channels : Supported(c)' <=> Supported(c)
    BY <1>1 DEF Supported
  <1>7. Good(row', pending') /\ \A c \in Channels : Uses(row', pending', c) => Supported(c)'
    BY <1>1, <1>4, <1>6, AlikeIsGood DEF Alone
  <1>8. ASSUME NEW h \in Handlers, loc[h].pc # "idle"
        PROVE  Safe(loc[h])'
    <2>1. PICK l : l = loc[h]
      OBVIOUS
    <2>2. Works(l, lives, addedBy) /\ Safe(l) /\ l.user \in Users
      BY <1>8, <2>1, BusyWorks DEF Alone, Works
    <2>3. Fits(l)'
      BY <1>2, <1>5, <2>2 DEF Safe, Fits
    <2>4. Alike(RowsAfter(l, row), RowsAfter(l, row'))
      <3> DEFINE u == l.user
                 s == RowAfter(l, row[u])
                 t == RowAfter(l, row'[u])
      <3>1. /\ s = None <=> t = None
            /\ s # None => \A c \in {"chan", "region", "queue"} : s[c] = t[c]
        <4>1. CASE row[u] = None
          BY <1>2, <2>2, <4>1
        <4>2. CASE row[u] # None
          <5>1. /\ row'[u] # None /\ row'[u]["id"] = row[u]["id"]
                /\ \A c \in {"chan", "region", "queue"} : row'[u][c] = row[u][c]
            BY <1>2, <1>3, <1>5, <2>2, <4>2
          <5>2. CASE l.erase \/ l.dirty = Nothing
            BY <4>2, <5>1, <5>2 DEF RowAfter
          <5>3. CASE ~ l.erase /\ l.dirty # Nothing /\ l.id = None
            BY <5>3 DEF RowAfter
          <5>4. CASE ~ l.erase /\ l.dirty # Nothing /\ l.id # None
            <6>1. s = Over(l.dirty, row[u]) /\ t = Over(l.dirty, row'[u])
              BY <4>2, <5>1, <5>4 DEF RowAfter
            <6>2. Written(l.dirty)
              <7>1. ASSUME Retires([l EXCEPT !.pending = Nothing])
                    PROVE  Written(l.dirty)
                BY <2>2, <7>1, RetiredIs DEF Retires, Works, Fields
              <7> QED
                BY <2>2, <5>4, <7>1 DEF Works, Still, Writes, Bears, Erasing
            <6>3. row[u] \in Rows /\ Agrees(row[u]) /\ row'[u] \in Rows /\ Agrees(row'[u])
              <7>1. Base'
                BY AsideKeeps
              <7> QED
                BY <2>2, <4>2, <5>1, <7>1 DEF Base
            <6>4. /\ s \in Rows /\ t \in Rows
                  /\ \A c \in Columns : s[c] = IF c \in DOMAIN l.dirty THEN l.dirty[c] ELSE row[u][c]
                  /\ \A c \in Columns : t[c] = IF c \in DOMAIN l.dirty THEN l.dirty[c] ELSE row'[u][c]
              BY <6>1, <6>2, <6>3, WrittenOver
            <6> QED
              BY <1>3, <5>1, <6>4, NoneAssumption
          <5> QED
            BY <5>2, <5>3, <5>4
        <4> QED
          BY <4>1, <4>2
      <3>2. \A v \in Users \ {u} : RowsAfter(l, row)[v] = row[v] /\ RowsAfter(l, row')[v] = row'[v]
        BY DEF RowsAfter
      <3>3. RowsAfter(l, row)[u] = s /\ RowsAfter(l, row')[u] = t
        BY <2>2 DEF RowsAfter
      <3> QED
        BY <1>4, <3>1, <3>2, <3>3 DEF Alike
    <2>5. /\ Good(RowsAfter(l, row'), PendingAfter(l, pending))
          /\ \A c \in Channels : Uses(RowsAfter(l, row'), PendingAfter(l, pending), c) => Supported(c) /\ l.lost # c
      BY <2>2, <2>4, AlikeIsGood DEF Safe
    <2>6. Safe(l)'
      BY <1>1, <1>6, <2>2, <2>3, <2>5 DEF Safe
    <2> QED
      BY <1>1, <2>1, <2>6 DEF Safe, Fits
  <1> QED
    BY <1>1, <1>6, <1>7, <1>8 DEF Alone

\* Telegram makes the bot an administrator of a channel, or takes that back.
LEMMA MemberAlone ==
  ASSUME Base, Alone, Member
  PROVE  Alone'
  <1> DEFINE S == [chan : Channels, by : Users \cup {None}, added : BOOLEAN]
  <1>1. PICK x \in S, c \in Channels :
          /\ updates' = Append(updates, x) /\ x.chan = c
          /\ UNCHANGED <<row, pending, fsm, loc, unheard>>
          /\ \/ x.added /\ member' = member \cup {c}
             \/ ~ x.added /\ member' = member \ {c}
    <2>1. CASE \E u \in Users, c \in Channels : Promote(u, c)
      <3>1. PICK u \in Users, c \in Channels : Promote(u, c)
        BY <2>1
      <3>2. PICK x : x = [chan |-> c, by |-> u, added |-> TRUE]
        OBVIOUS
      <3>3. x \in S /\ x.added /\ x.chan = c
        BY <3>2
      <3> QED
        BY <3>1, <3>2, <3>3 DEF Promote, dbVars
    <2>2. CASE \E c \in Channels : Demote(c)
      <3>1. PICK c \in Channels : Demote(c)
        BY <2>2
      <3>2. PICK x : x = [chan |-> c, by |-> None, added |-> FALSE]
        OBVIOUS
      <3>3. x \in S /\ ~ x.added /\ x.chan = c
        BY <3>2
      <3> QED
        BY <3>1, <3>2, <3>3 DEF Demote, dbVars
    <2> QED
      BY <2>1, <2>2 DEF Member
  <1>2. updates \in Seq(S)
    BY DEF Base
  <1> HIDE DEF S
  <1>3. /\ Len(updates) \in Nat /\ DOMAIN updates = 1..Len(updates) /\ DOMAIN updates' = 1..(Len(updates) + 1)
        /\ \A i \in DOMAIN updates : i \in DOMAIN updates' /\ updates'[i] = updates[i]
        /\ updates'[Len(updates) + 1] = x
    BY <1>1, <1>2
  <1>4. PICK n \in Nat : n = Len(updates) + 1
    BY <1>3
  <1>5. /\ n \in DOMAIN updates' /\ updates'[n] = x
        /\ \A i \in DOMAIN updates : i < n /\ i \in DOMAIN updates' /\ updates'[i] = updates[i]
        /\ \A i \in DOMAIN updates' : i = n \/ i \in DOMAIN updates
    BY <1>3, <1>4
  <1> HIDE <1>3
  <1>6. ASSUME NEW d \in Channels, Supported(d)
        PROVE  Supported(d)'
    <2>1. CASE d \in member \cup unheard
      BY <1>1, <1>5, <2>1 DEF Supported
    <2>2. CASE \E i \in DOMAIN updates : updates[i].chan = d /\ ~ updates[i].added
      BY <1>5, <2>2 DEF Supported
    <2>3. CASE \E h \in Handlers : loc[h].lost = d
      BY <1>1, <2>3 DEF Supported
    <2> QED
      BY <1>6, <2>1, <2>2, <2>3 DEF Supported
  <1>7. ASSUME NEW i \in DOMAIN updates', updates'[i].added
        PROVE  \/ updates'[i].chan \in member'
               \/ \E j \in DOMAIN updates' : j > i /\ updates'[j].chan = updates'[i].chan /\ ~ updates'[j].added
    <2>1. CASE i = n
      BY <1>1, <1>5, <1>7, <2>1
    <2>2. CASE i # n
      <3>1. i \in DOMAIN updates /\ updates'[i] = updates[i] /\ i < n
        BY <1>5, <2>2
      <3>2. CASE updates[i].chan \in member
        BY <1>1, <1>5, <3>1, <3>2
      <3>3. CASE \E j \in DOMAIN updates : j > i /\ updates[j].chan = updates[i].chan /\ ~ updates[j].added
        BY <1>5, <3>1, <3>3
      <3> QED
        BY <1>7, <3>1, <3>2, <3>3 DEF Alone
    <2> QED
      BY <2>1, <2>2
  <1>8. \A h \in Handlers : loc'[h].pc # "idle" => Safe(loc[h])'
    <2> SUFFICES ASSUME NEW h \in Handlers, loc'[h].pc # "idle"
                 PROVE  Safe(loc[h])'
      OBVIOUS
    <2>1. Safe(loc[h])
      BY <1>1 DEF Alone
    <2> QED
      BY <1>1, <1>6, <2>1 DEF Safe, Fits
  <1> QED
    BY <1>1, <1>6, <1>7, <1>8 DEF Alone

LEMMA AloneInit ==
  ASSUME Init
  PROVE  ~ mixed /\ Alone
  <1>1. /\ row = [u \in Users |-> IF u \in scene.known THEN Registered(u) ELSE None]
        /\ pending = [c \in Channels |-> None] /\ fsm = [u \in Users |-> Cleared]
        /\ loc = [h \in Handlers |-> Idle] /\ updates = <<>> /\ mixed = FALSE
    BY DEF Init, SessionsInit, ChannelsInit
  <1>2. ASSUME NEW u \in Users, row[u] # None
        PROVE  row[u]["chan"] = None /\ row[u]["queue"] \in QueuesOf[row[u]["region"]]
    <2>1. row[u] = Registered(u)
      BY <1>1, <1>2
    <2>2. PICK q \in QueuesOf[Home] : q = CHOOSE p \in QueuesOf[Home] : TRUE
      BY SessionsAssumption
    <2>3. PICK r : r = [Fresh EXCEPT !.id = 1, !.region = Home, !.queue = q]
      OBVIOUS
    <2>4. row[u] = r
      BY <2>1, <2>2, <2>3 DEF Registered
    <2>5. {"id", "region", "queue", "chan"} \subseteq Columns /\ Fresh \in [Columns -> Values] /\ Fresh["chan"] = None
      BY FreshIs DEF Rows
    <2>6. r["queue"] = q /\ r["region"] = Home /\ r["chan"] = None
      BY <2>3, <2>5
    <2> QED
      BY <2>2, <2>4, <2>6
  <1>3. \A h \in Handlers : loc[h].pc = "idle"
    BY <1>1, IdleIs
  <1>4. \A u \in Users : Ready(fsm[u])
    BY <1>1, ClearedIsReady
  <1>5. Good(row, pending)
    BY <1>1, <1>2 DEF Good
  <1>6. \A c \in Channels : c # None
    BY SessionsAssumption
  <1>7. \A c \in Channels : ~ Uses(row, pending, c)
    BY <1>1, <1>2, <1>6 DEF Uses
  <1>8. DOMAIN updates = {}
    BY <1>1
  <1> QED
    BY <1>1, <1>3, <1>4, <1>5, <1>7, <1>8 DEF Alone

LEMMA AloneNext ==
  ASSUME Inv, mixed \/ Alone, [Next]_vars
  PROVE  (mixed \/ Alone)'
  <1>1. Base /\ Jobs /\ Daily
    BY DEF Inv
  <1>2. CASE DailyStep
    BY <1>1, <1>2, AsideAlone, DailyKeeps DEF Aside
  <1>3. CASE Member
    <2>1. UNCHANGED mixed
      BY <1>3 DEF Member, Promote, Demote
    <2> QED
      BY <1>1, <1>3, <2>1, MemberAlone
  <1>4. CASE Opening
    <2>0. PICK h \in Handlers, u \in Users : \E l : Opened(h, u, l)
      BY <1>4 DEF Opening
    <2>1. PICK l : Opened(h, u, l)
      BY <2>0
    <2>2. mixed' = (mixed \/ Busy)
      BY <2>1 DEF Opened, Begins
    <2>3. CASE mixed \/ Busy
      BY <2>2, <2>3
    <2>4. CASE ~ mixed /\ ~ Busy
      BY <1>1, <2>1, <2>4, OpenedAlone
    <2> QED
      BY <2>3, <2>4
  <1>5. CASE Hearing
    <2>0. PICK h \in Handlers : \E u, c, l : HeardAdded(h, u, c, l) \/ HeardRemoved(h, u, c, l)
      BY <1>5 DEF Hearing
    <2>1. PICK u, c, l : HeardAdded(h, u, c, l) \/ HeardRemoved(h, u, c, l)
      BY <2>0
    <2>2. mixed' = (mixed \/ Busy)
      BY <2>1 DEF HeardAdded, HeardRemoved, Heard, Begins
    <2>3. CASE mixed \/ Busy
      BY <2>2, <2>3
    <2>4. CASE ~ mixed /\ ~ Busy
      BY <1>1, <2>1, <2>4, HeardAlone
    <2> QED
      BY <2>3, <2>4
  <1>6. CASE Going
    <2>1. UNCHANGED mixed
      BY <1>6 DEF Going, Flush, Answer, Commit
    <2> QED
      BY <1>1, <1>6, <2>1, FlushAlone, AnswerAlone, CommitAlone DEF Going
  <1>7. CASE Failing
    <2>1. UNCHANGED mixed
      BY <1>7 DEF Failing, Fail
    <2> QED
      BY <1>1, <1>7, <2>1, FailAlone DEF Failing
  <1>8. CASE UNCHANGED vars
    <2>1. UNCHANGED <<row, pending, fsm, loc, mixed, member, updates, unheard>>
      BY <1>8 DEF vars, sessionVars, dbVars, accountVars, channelVars
    <2>2. \A c \in Channels : Supported(c)' <=> Supported(c)
      BY <2>1 DEF Supported
    <2>3. \A h \in Handlers : Safe(loc[h]) => Safe(loc[h])'
      BY <2>1, <2>2 DEF Safe, Fits
    <2> QED
      BY <2>1, <2>2, <2>3 DEF Alone
  <1> QED
    BY <1>1, <1>2, <1>3, <1>4, <1>5, <1>6, <1>7, <1>8, NextCases

LEMMA AloneHolds == Spec => [](Base /\ (mixed \/ Alone))
  <1>1. Init => Inv /\ (mixed \/ Alone)
    BY InvInit, AloneInit
  <1>2. Inv /\ (mixed \/ Alone) /\ [Next]_vars => Inv' /\ (mixed \/ Alone)'
    BY InvNext, AloneNext
  <1>3. Inv => Base
    BY DEF Inv
  <1> QED
    BY <1>1, <1>2, <1>3, PTL DEF Spec

\* As long as updates are handled one at a time, every step of the wizard finds the
\* region and the queue it asks for, and every committed row has a queue of its region:
\* what the handler does to the row and to the conversation are two commits, and either
\* can fail (region.py, start.py).
THEOREM WizardHasItsData == Spec => []WizardIsReady
  <1>1. Base /\ (mixed \/ Alone) => WizardIsReady
    BY DEF Alone, Good, Ready, WizardIsReady
  <1> QED
    BY <1>1, AloneHolds, PTL

\* A channel becomes a user's only if that user has added the bot to it, however the
\* handlers overlap; and it is connected to one account as long as updates are handled
\* one at a time (chat_member.py:42).
THEOREM ChannelHasOneOwner == Spec => []OneOwner
  <1>1. ASSUME Base, mixed \/ Alone
        PROVE  OneOwner
    <2>1. \A u \in Users : row[u] # None /\ row[u].chan # None => <<u, row[u].chan>> \in addedBy
      BY <1>1 DEF Base
    <2>2. ASSUME ~ mixed, NEW c \in Channels
          PROVE  Cardinality(Owners(c)) <= 1
      <3>1. c # None
        BY SessionsAssumption
      <3>2. \A u, v \in Owners(c) : u = v
        BY <1>1, <2>2, <3>1 DEF Alone, Good, Owners
      <3>3. CASE Owners(c) = {}
        BY <3>3, FS_EmptySet
      <3>4. CASE Owners(c) # {}
        <4>1. PICK u : Owners(c) = {u}
          BY <3>2, <3>4
        <4> QED
          BY <4>1, FS_Singleton
      <3> QED
        BY <3>3, <3>4
    <2> QED
      BY <2>1, <2>2 DEF OneOwner
  <1> QED
    BY <1>1, AloneHolds, PTL

\* A user's channel is one the bot can publish in, as long as updates are handled one at
\* a time: every removal is in the queue, in the hands of a handler, or lost with a
\* handler that failed (chat_member.py).
THEOREM NoChannelIsAGhost == Spec => []NoGhostChannel
  <1>1. ASSUME Base, mixed \/ Alone
        PROVE  NoGhostChannel
    <2> SUFFICES ASSUME ~ mixed, NEW u \in Users, row[u] # None, row[u].chan # None
                 PROVE  Supported(row[u].chan)
      BY DEF NoGhostChannel, Supported
    <2>1. row[u].chan \in Channels /\ Uses(row, pending, row[u].chan)
      BY <1>1 DEF Base, Uses
    <2> QED
      BY <1>1, <2>1 DEF Alone
  <1> QED
    BY <1>1, AloneHolds, PTL
=============================================================================
