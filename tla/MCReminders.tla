----------------------------- MODULE MCReminders -----------------------------
(* Constants for checking Reminders with TLC. *)
EXTENDS Reminders

\* Everybody wants everything, with the bot and in the channel.
ReachAll == [u \in Users |-> [k \in EventKinds |-> [m \in Leads |-> Chats]]]
AskedAll == [u \in Users |-> EventKinds \X Leads]

\* An outage in the evening and one in the morning, which may move.
MovingOutage == {{3, 10, 11, 12}, {3, 12}}

Night == 5..6

\* Any two of what can happen.
RoughBudget == [k \in Events |-> 2]
=============================================================================
