------------------------------ MODULE AutoDelete ------------------------------
(***************************************************************************)
(* Messages that go after a while: middlewares/auto_cleanup.py queues the  *)
(* commands of a user and the bot's answers, and the loop of services/     *)
(* auto_cleanup.py, one in each replica, deletes those that are due.  The  *)
(* queue is a table; a loop works on the rows it has locked, and its       *)
(* transaction is rolled back when it fails or is killed.  A row belongs   *)
(* to a profile and is deleted with it (ON DELETE CASCADE).                *)
(***************************************************************************)
EXTENDS Lifecycle

CONSTANTS
  Messages,
  Cleaners,  \* replicas
  Own,       \* the one whose process is modelled
  Cleanup,   \* its loop
  Delay,     \* AUTO_DELETE_DELAY_MINUTES, in ticks
  Claims     \* rows that are claimed at once

ASSUME AutoDeleteAssumption ==
  Own \in Cleaners /\ Cleanup \in Loops /\ Delay \in Nat \ {0} /\ Delay <= Longest /\ Claims \in Nat \ {0}

VARIABLES
  chat,    \* chat[m]: "unsent", "shown", "gone" or "kept" (the bot may not delete it)
  due,     \* due[m]: ticks until its row is due, None when there is no row
  owner,   \* owner[m]: user_id of its row, if it has one
  wanted,  \* edits and messages whose row is not committed yet
  claim,   \* claim[c]: rows c has locked
  tried,   \* tried[c]: those of them it has tried to delete
  handled, \* handled[c]: processed_ids
  queued,  \* queued[m]: ticks since m was first queued, None before (history)
  orphans  \* messages whose rows went with a profile, not queued since (history)

cleanVars == <<chat, due, owner, wanted, claim, tried, handled, queued, orphans>>

CleanInit ==
  /\ chat = [m \in Messages |-> "unsent"]
  /\ due = [m \in Messages |-> None]
  /\ wanted = {}
  /\ claim = [c \in Cleaners |-> {}]
  /\ tried = [c \in Cleaners |-> {}]
  /\ handled = [c \in Cleaners |-> {}]
  /\ owner = [m \in Messages |-> None]
  /\ queued = [m \in Messages |-> None]
  /\ orphans = {}

Locked(m) == \E c \in Cleaners : m \in claim[c]
-----------------------------------------------------------------------------
(* The middlewares                                                         *)

\* The bot sends a message or edits one, and the response middleware will queue it; or
\* the user sends a command, which is queued when it is handled.
Say(m) ==
  /\ phase = "up"
  /\ chat[m] \in {"unsent", "shown"}
  /\ m \notin wanted
  /\ Spend("message")
  /\ chat' = [chat EXCEPT ![m] = "shown"]
  /\ wanted' = wanted \cup {m}
  /\ UNCHANGED <<processVars, stamp, said, blind, due, owner, claim, tried, handled, queued, orphans>>

NewDue(m) == IF due[m] = None \/ due[m] > Delay THEN Delay ELSE due[m]

\* queue_message_for_delete and enqueue_auto_delete for the user u, which waits for a
\* locked row and keeps the owner of one that is there; an error is logged and forgotten.
Enqueue(m, u) ==
  /\ m \in wanted
  /\ wanted' = wanted \ {m}
  /\ \/ /\ ~ Locked(m)
        /\ due' = [due EXCEPT ![m] = NewDue(m)]
        /\ owner' = [owner EXCEPT ![m] = IF due[m] = None THEN u ELSE @]
        /\ queued' = [queued EXCEPT ![m] = IF @ = None \/ m \in orphans THEN 0 ELSE @]
        /\ orphans' = orphans \ {m}
        /\ UNCHANGED left
     \/ Spend("error") /\ UNCHANGED <<due, owner, queued, orphans>>
  /\ UNCHANGED <<processVars, stamp, said, blind, chat, claim, tried, handled>>

\* There was no profile to queue it for.
NotQueued(m) ==
  /\ m \in wanted
  /\ wanted' = wanted \ {m}
  /\ UNCHANGED <<lifeVars, chat, due, owner, claim, tried, handled, queued, orphans>>

\* The rows of users are now these; the deletion of one waits for the loops that have
\* locked rows of his.
Cascade(users) ==
  LET lost == {m \in Messages : due[m] # None /\ owner[m] \notin users}
  IN  /\ \A m \in lost : ~ Locked(m)
      /\ due' = [m \in Messages |-> IF m \in lost THEN None ELSE due[m]]
      /\ orphans' = orphans \cup lost
      /\ UNCHANGED <<chat, owner, wanted, claim, tried, handled, queued>>

\* A tick of the clock for the queue.
TickQueue ==
  /\ due' = [m \in Messages |-> IF due[m] \in {None, 0} THEN due[m] ELSE due[m] - 1]
  /\ queued' = [m \in Messages |-> Older(queued[m])]
  /\ UNCHANGED <<chat, owner, wanted, claim, tried, handled, orphans>>
-----------------------------------------------------------------------------
(* The loops                                                               *)

\* The others' processes are up.
Works(c) == c # Own \/ loop[Cleanup] = "run"

Claimable == {m \in Messages : due[m] = 0 /\ ~ Locked(m)}

\* claim_due_auto_delete, with a limit; which of the rows is left open.
Claim(c) ==
  /\ Works(c) /\ (c = Own => go[Module[Cleanup]])
  /\ claim[c] = {}
  /\ \E some \in SUBSET Claimable :
       /\ some # {}
       /\ Cardinality(some) <= Claims /\ (some = Claimable \/ Cardinality(some) = Claims)
       /\ claim' = [claim EXCEPT ![c] = some]
  /\ UNCHANGED <<lifeVars, chat, due, owner, wanted, tried, handled, queued, orphans>>

\* Mutant: what was tried is done with.
Handled(deleted) == TRUE

Processed(deleted) == deleted

\* _try_delete: deleted, gone already or not allowed, or another error.
TryDelete(c) ==
  /\ Works(c)
  /\ \E m \in claim[c] \ tried[c], deleted \in BOOLEAN :
       /\ IF deleted
          THEN /\ \E end \in {"gone", "kept"} : chat' = [chat EXCEPT ![m] = IF @ = "shown" THEN end ELSE @]
               /\ UNCHANGED left
          ELSE Spend("error") /\ UNCHANGED chat
       /\ tried' = [tried EXCEPT ![c] = @ \cup {m}]
       /\ handled' = [handled EXCEPT ![c] = IF Processed(deleted) THEN @ \cup {m} ELSE @]
  /\ UNCHANGED <<processVars, stamp, said, blind, due, owner, wanted, claim, queued, orphans>>

Release(c) ==
  /\ claim' = [claim EXCEPT ![c] = {}]
  /\ tried' = [tried EXCEPT ![c] = {}]
  /\ handled' = [handled EXCEPT ![c] = {}]

\* remove_auto_delete_entries and the commit, or an error and the rollback.
CommitDeletes(c) ==
  /\ Works(c) /\ claim[c] # {} /\ tried[c] = claim[c]
  /\ \/ due' = [m \in Messages |-> IF m \in handled[c] THEN None ELSE due[m]] /\ UNCHANGED left
     \/ Spend("error") /\ UNCHANGED due
  /\ Release(c)
  /\ UNCHANGED <<processVars, stamp, said, blind, chat, owner, wanted, queued, orphans>>

\* The process ends, or its loop is cancelled or fails: the transaction is rolled back.
RollBack == Release(Own) /\ UNCHANGED <<chat, due, owner, queued, orphans>>

CleanNext ==
  \/ \E m \in Messages : Say(m)
  \/ \E c \in Cleaners : Claim(c) \/ TryDelete(c) \/ CommitDeletes(c)
-----------------------------------------------------------------------------
(* Properties                                                              *)

\* A message that was queued and is still shown has its row: whatever fails, whichever
\* replica is killed in between, somebody will try again; and however often it was
\* edited, it is due no later than a delay after it was first queued.  The exception is
\* a profile that is deleted: its rows go with it, and what they were for stays in the
\* chat until it is edited for a profile of later.
NoneForgotten ==
  \A m \in Messages \ orphans : queued[m] # None /\ chat[m] = "shown" =>
    /\ due[m] # None
    /\ due[m] > 0 => due[m] + queued[m] <= Delay
=============================================================================
