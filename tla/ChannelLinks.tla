----------------------------- MODULE ChannelLinks -----------------------------
(***************************************************************************)
(* How a channel of Telegram becomes the channel of a user and stops being *)
(* it: handlers/chat_member.py hears that the bot was made administrator   *)
(* of a channel or was removed from it and keeps the channel pending;      *)
(* handlers/channel connects it, names it, pauses it and switches it off.  *)
(* Telegram delivers the two kinds of updates independently.               *)
(***************************************************************************)
EXTENDS Sessions

VARIABLES
  member,   \* channels the bot is an administrator of, in Telegram
  updates,  \* my_chat_member updates on their way
  \* history
  addedBy,  \* pairs of a user and a channel he has added the bot to
  unheard   \* channels of a removal whose handler failed

channelVars == <<member, updates, addedBy, unheard>>

ChannelsInit ==
  /\ member = {}
  /\ updates = <<>>
  /\ addedBy = {}
  /\ unheard = {}
-----------------------------------------------------------------------------
(* Telegram, and what the bot hears from it                                *)

\* An administrator of the channel adds the bot or removes it.
Promote(u, c) ==
  /\ c \notin member
  /\ u \in scene.cast
  /\ Spend("telegram")
  /\ member' = member \cup {c}
  /\ updates' = Append(updates, [chan |-> c, by |-> u, added |-> TRUE])
  /\ addedBy' = addedBy \cup {<<u, c>>}
  /\ UNCHANGED <<dbVars, fsm, loc, touched, switchedOff, mixed, unheard>>

Demote(c) ==
  /\ c \in member
  /\ Spend("telegram")
  /\ member' = member \ {c}
  /\ updates' = Append(updates, [chan |-> c, by |-> None, added |-> FALSE])
  /\ UNCHANGED <<dbVars, fsm, loc, touched, switchedOff, mixed, addedBy, unheard>>

\* get_user_by_channel_id: one of those whose channel it is.
Owners(c) == {u \in Users : row[u] # None /\ row[u].chan = c}

\* A row of pending_channels that a session has written is locked until its commit.
Locked(c) == \E h \in Handlers : c \in DOMAIN loc[h].pending

\* Handled whenever the loop gets to it, beside other updates.
Hear(h, u, l) ==
  /\ loc[h].pc = "idle"
  /\ Meet(scene)
  /\ loc' = [loc EXCEPT ![h] = [l EXCEPT !.user = u]]
  /\ mixed' = (mixed \/ Busy)
  /\ touched' = IF row[u] = None THEN touched ELSE touched \cup {u}
  /\ updates' = Tail(updates)
  /\ UNCHANGED <<dbVars, fsm, switchedOff, member, addedBy, unheard>>

\* Mutant: nobody looks for the owner.
OffersAnyway(c, u) == TRUE

\* A channel of somebody else is not offered.
Offers(c, u) == \A o \in Owners(c) : o = u

\* _handle_bot_added: save_pending_channel, an upsert.
HandleBotAdded(h) ==
  /\ updates # <<>> /\ Head(updates).added
  /\ LET c == Head(updates).chan
         u == Head(updates).by
     IN  /\ ~ Locked(c)
         /\ Hear(h, u, [Idle EXCEPT !.pc = "commit", !.pending = IF Offers(c, u) THEN [d \in {c} |-> u] ELSE Nothing])

\* channel_id, channel_title and channel_status of a channel that is given up.
GivenUp == [chan |-> None, title |-> None, status |-> "disconnected"]

\* Mutant: the pending row is left.
KeepsPending(c) == Nothing

DropsPending(c) == [d \in {c} |-> None]

\* _handle_bot_removed: the pending row goes, and the owner loses the channel.
HandleBotRemoved(h) ==
  /\ updates # <<>> /\ ~ Head(updates).added
  /\ LET c == Head(updates).chan
     IN  /\ ~ Locked(c)
         /\ \E u \in IF Owners(c) = {} THEN Users ELSE Owners(c) :
              Hear(h, u, [(IF Owners(c) = {} THEN [Idle EXCEPT !.pc = "commit"]
                           ELSE Change(u, GivenUp, Nothing))
                          EXCEPT !.pending = DropsPending(c), !.lost = c])
-----------------------------------------------------------------------------
(* Connecting a channel                                                    *)

Press(h, u, l) == Open(h, u, "channel", l) /\ UNCHANGED channelVars

\* get_pending_channel, with both the user and the channel.
PendingFor(u, c) == pending[c] = u

Linked(c) == [chan |-> c, title |-> c, status |-> "active"]

\* channel_confirm, connect_channel and replace_channel do the same.
Connect(h, u, c) ==
  /\ row[u] # None
  /\ PendingFor(u, c)
  /\ ~ Locked(c)
  /\ Press(h, u, [Change(u, Linked(c), [state |-> "title"])
                  EXCEPT !.pending = DropsPending(c)])
  /\ UNCHANGED fsm

\* keep_current and cancel_connect.
KeepCurrent(h, u) ==
  LET mine == {c \in Channels : pending[c] = u}
  IN  /\ \A c \in mine : ~ Locked(c)
      /\ Press(h, u, [Idle EXCEPT !.pc = "commit", !.pending = [c \in mine |-> None]])
      /\ UNCHANGED fsm

ChannelDisable(h, u) ==
  /\ row[u] # None
  /\ Press(h, u, Change(u, GivenUp, Nothing))
  /\ UNCHANGED fsm

ChannelReconnect(h, u) ==
  /\ row[u] # None
  /\ Press(h, u, Change(u, [status |-> "active"], Nothing))
  /\ UNCHANGED fsm

Pause(h, u, p) ==
  /\ row[u] # None
  /\ Press(h, u, IF row[u].chan = None THEN [Idle EXCEPT !.pc = "commit"]
                 ELSE Change(u, [paused |-> p], Nothing))
  /\ UNCHANGED fsm

ChannelPause(h, u) == Pause(h, u, TRUE)

ChannelResume(h, u) == Pause(h, u, FALSE)
-----------------------------------------------------------------------------
(* Naming it                                                               *)

\* apply_channel_branding: the channel that was loaded gets the title the user
\* chose; set_chat_title can fail.
Branding(r) == IF r.chan = None THEN {Nothing} ELSE {Nothing, [title |-> r.chan]}

HandleTitle(h, u) ==
  /\ fsm[u].state = "title"
  /\ Press(h, u, Talk([state |-> "choice"]))
  /\ UNCHANGED fsm

AddDesc(h, u) == Press(h, u, Talk([state |-> "description"])) /\ UNCHANGED fsm

\* The conversation is over before the channel gets its name.
SkipDesc(h, u) ==
  /\ \E new \in IF row[u] = None THEN {Nothing} ELSE Branding(row[u]) :
       Press(h, u, IF row[u] = None THEN [Idle EXCEPT !.pc = "commit"] ELSE Change(u, new, Nothing))
  /\ fsm' = [fsm EXCEPT ![u] = Cleared]

HandleDescription(h, u) ==
  /\ fsm[u].state = "description"
  /\ IF row[u] = None THEN Press(h, u, Talk(Cleared))
     ELSE \E new \in Branding(row[u]) : Press(h, u, Change(u, new, Cleared))
  /\ UNCHANGED fsm

\* channel_edit_title and channel_edit_description.
EditBranding(h, u) ==
  /\ row[u] # None /\ row[u].chan # None
  /\ Press(h, u, Talk([state |-> "editing"]))
  /\ UNCHANGED fsm

HandleEdit(h, u) ==
  /\ fsm[u].state = "editing"
  /\ IF row[u] = None THEN Press(h, u, Talk(Cleared))
     ELSE \E new \in Branding(row[u]) : Press(h, u, Change(u, new, Cleared))
  /\ UNCHANGED fsm

Format(h, u, l) == Open(h, u, "format", l) /\ UNCHANGED channelVars

\* The texts of the publications: asked for, reset; and a text to publish
\* once, which leaves the row alone.
FormatAsk(h, u) == Format(h, u, Talk([state |-> "text"])) /\ UNCHANGED fsm

HandleText(h, u) ==
  /\ fsm[u].state = "text"
  /\ Format(h, u, IF row[u] = None THEN Talk(Cleared) ELSE Change(u, [chOther |-> TRUE], Cleared))
  /\ UNCHANGED fsm

TestCustom(h, u) == Format(h, u, Talk([state |-> "test"])) /\ UNCHANGED fsm

HandleCustomTest(h, u) ==
  /\ fsm[u].state = "test"
  /\ Format(h, u, Talk(Cleared))
  /\ UNCHANGED fsm

FormatToggle(h, u) ==
  /\ row[u] # None
  /\ Format(h, u, Change(u, Flip(row[u], "chOther"), Nothing))
  /\ UNCHANGED fsm

FormatReset(h, u) ==
  /\ row[u] # None
  /\ Format(h, u, Change(u, [chOther |-> FALSE], Nothing))
  /\ UNCHANGED fsm

ChannelsNext ==
  \/ \E u \in Users, c \in Channels : Promote(u, c)
  \/ \E c \in Channels : Demote(c)
  \/ \E h \in Handlers : HandleBotAdded(h) \/ HandleBotRemoved(h)
  \/ \E h \in Handlers, u \in Users :
       \/ \E c \in Channels : Connect(h, u, c)
       \/ KeepCurrent(h, u) \/ ChannelDisable(h, u) \/ ChannelReconnect(h, u) \/ ChannelPause(h, u)
       \/ ChannelResume(h, u)
       \/ HandleTitle(h, u) \/ AddDesc(h, u) \/ SkipDesc(h, u) \/ HandleDescription(h, u)
       \/ EditBranding(h, u) \/ HandleEdit(h, u) \/ FormatAsk(h, u) \/ HandleText(h, u)
       \/ TestCustom(h, u) \/ HandleCustomTest(h, u)
       \/ FormatToggle(h, u) \/ FormatReset(h, u)
-----------------------------------------------------------------------------
(* Properties                                                              *)

\* A channel becomes a user's only if that user has added the bot to it, whatever
\* buttons are pressed and however the handlers of the two users overlap; and it is
\* connected to one account only (chat_member.py:42), as long as updates are handled one
\* at a time.
OneOwner ==
  /\ \A u \in Users : row[u] # None /\ row[u].chan # None => <<u, row[u].chan>> \in addedBy
  /\ mixed \/ \A c \in Channels : Cardinality(Owners(c)) <= 1

\* A user's channel is one the bot can publish in, or the bot is about to hear that
\* it is not, or the handler that heard it failed.
NoGhostChannel ==
  mixed \/ \A u \in Users : row[u] # None /\ row[u].chan # None =>
             \/ row[u].chan \in member \cup unheard
             \/ \E i \in DOMAIN updates : updates[i].chan = row[u].chan /\ ~ updates[i].added
             \/ \E h \in Handlers : loc[h].lost = row[u].chan
=============================================================================
