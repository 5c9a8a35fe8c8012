----------------------------- MODULE UserHandlers -----------------------------
(***************************************************************************)
(* The handlers of a user's record and of his channel work on the same     *)
(* rows, through the same sessions and in the same conversation.           *)
(***************************************************************************)
EXTENDS Accounts, ChannelLinks

vars == <<sessionVars, accountVars, channelVars>>

Init == SessionsInit /\ AccountsInit /\ ChannelsInit

\* A removal that was heard by a handler that fails, or whose commit finds no row, is
\* not heard again.
Proceed ==
  /\ \E h \in Handlers :
       \/ (Flush(h) \/ Answer(h) \/ Commit(h)) /\ UNCHANGED unheard
       \/ Fail(h) /\ unheard' = IF loc[h].lost = None THEN unheard ELSE unheard \cup {loc[h].lost}
  /\ UNCHANGED <<accountVars, member, updates, addedBy>>

\* Nobody presses a button and no update arrives: the bot waits.  No handler does:
\* none waits for a row for good.
Rest ==
  /\ ~ Busy
  /\ batch = {} /\ stamp = None
  /\ UNCHANGED vars

Next ==
  \/ AccountsNext /\ UNCHANGED channelVars
  \/ ChannelsNext /\ UNCHANGED accountVars
  \/ Proceed
  \/ Rest

Spec == Init /\ [][Next]_vars
=============================================================================
