------------------------------ MODULE ChartCache ------------------------------
(***************************************************************************)
(* What is done with a file that was fetched: the checker compares it and  *)
(* draws its chart before it tells anybody, the handlers show it.  A chart *)
(* is looked for in memory, in Redis, drawn, or taken from the source, and *)
(* kept under a label made of the date it shows (build_chart_fingerprint). *)
(***************************************************************************)
EXTENDS SourceCache

rest == <<lastCall, cleanedAt, handled, now, head, was, cache>>

\* The reply, with its picture.
Tell(c, r, pic) ==
  /\ reply' = [stage |-> r.stage, of |-> r.of, label |-> r.label, pic |-> pic]
  /\ Goes(c, Idle)

\* The date in the file itself, and the date of its commit.
FileDate(v) == <<"file", v>>
Label(r) == IF r.src = None THEN FileDate(r.of) ELSE <<"commit", r.src>>

At(label) == {i \in DOMAIN l1 : l1[i].label = label}

\* _l1_store_async: the entry goes to the end; at the cap the first one goes first.
Stored(entries, label, at, pic) ==
  LET room == IF Len(entries) >= MaxImages THEN Tail(entries) ELSE entries
      Other(e) == e.label # label
  IN Append(SelectSeq(room, Other), [label |-> label, at |-> at, pic |-> pic])

MovedToEnd(i) == LET Other(e) == e.label # l1[i].label IN Append(SelectSeq(l1, Other), l1[i])
-----------------------------------------------------------------------------
\* The checker: nothing new, or the new hash is stored and the chart is drawn; the L1
\* entry it clears is one that has no date, which none has.
Compare(c) ==
  LET r == ask[c] IN
  /\ r.pc = "got" /\ r.stage = "check"
  /\ IF r.of \in {None, known}
     THEN Goes(c, Idle) /\ UNCHANGED <<l2, known>>
     ELSE /\ l2' = [k \in DOMAIN l2 \ {FileDate(r.of)} |-> l2[k]]
          /\ known' = r.of
          /\ Goes(c, [r EXCEPT !.pc = "render"])
  /\ UNCHANGED <<rest, breakerVars, lastCheck, checkedAt, begun, failed, left, date, etag, l1, onDemand, reply, crossed>>

\* _prerender_chart ends; the notifications begin.
Prerender(c) ==
  LET r == ask[c] IN
  /\ r.pc = "render"
  /\ \/ /\ l2' = (FileDate(r.of) :> [of |-> r.of, label |-> FileDate(r.of)]) @@ l2
        /\ UNCHANGED left
     \/ Spend("error") /\ UNCHANGED l2
  /\ AskDate(c, r)
  /\ UNCHANGED <<rest, breakerVars, lastCheck, checkedAt, begun, failed, date, etag, l1, onDemand, known, reply>>

\* schedule_check after its fetches: after the one from the cache it asks the source;
\* after that it shows what the cache holds, or clears the cooldown.
Refreshed(c) ==
  LET r == ask[c] IN
  /\ r.pc = "got" /\ r.stage \in {"old", "new"}
  /\ IF r.stage = "new" /\ r.of = None
     THEN Uncool(r.user) /\ Goes(c, Idle) /\ UNCHANGED breakerVars
     ELSE /\ IF r.stage = "old" THEN Fetch(c, r, "new", TRUE) ELSE Fetch(c, r, "show", FALSE)
          /\ UNCHANGED <<lastCheck, failed>>
  /\ UNCHANGED <<rest, checkedAt, begun, left, date, etag, l1, l2, onDemand, known, reply, crossed>>

\* _send_schedule_photo: an error, or fetch_schedule_image.
Show(c) ==
  LET r == ask[c] IN
  /\ r.pc = "got" /\ r.stage = "show"
  /\ IF r.of = None THEN Goes(c, Idle) /\ UNCHANGED crossed ELSE AskDate(c, r)
  /\ UNCHANGED <<rest, breakerVars, lastCheck, checkedAt, begun, failed, left, date, etag, l1, l2, onDemand, known, reply>>

charting == <<rest, breakerVars, lastCheck, checkedAt, begun, failed, date, etag, onDemand, known, crossed>>

\* fetch_schedule_image with its date: in "on demand" mode it draws; else it looks in
\* memory.
LookInMemory(c) ==
  LET r == [ask[c] EXCEPT !.label = Label(ask[c]), !.at = now, !.src = None, !.sure = FALSE]
      fresh == {i \in At(r.label) : now - l1[i].at < ImageTtl}
  IN
  /\ r.pc = "dated"
  /\ IF onDemand THEN Goes(c, [r EXCEPT !.pc = "sketch"]) /\ UNCHANGED <<l1, reply>>
     ELSE IF fresh = {} THEN Goes(c, [r EXCEPT !.pc = "redis"]) /\ UNCHANGED <<l1, reply>>
     ELSE \E i \in fresh : Tell(c, r, l1[i].pic) /\ l1' = MovedToEnd(i)
  /\ UNCHANGED <<charting, left, l2>>

\* An error of Redis is a miss.
LookInRedis(c) ==
  LET r == ask[c]
      key == r.label IN
  /\ r.pc = "redis"
  /\ \/ /\ key \in DOMAIN l2
        /\ l1' = Stored(l1, r.label, r.at, l2[key])
        /\ Tell(c, r, l2[key])
        /\ UNCHANGED left
     \/ /\ IF key \in DOMAIN l2 THEN Spend("error") ELSE UNCHANGED left
        /\ Goes(c, [r EXCEPT !.pc = "draw"])
        /\ UNCHANGED <<l1, reply>>
  /\ UNCHANGED <<charting, l2>>

\* generate_schedule_chart, in a thread; what is drawn "on demand" is not kept.
Draw(c) ==
  LET r == ask[c]
      pic == [of |-> r.of, label |-> r.label] IN
  /\ \/ r.pc = "draw" /\ Goes(c, [r EXCEPT !.pc = "keep", !.pic = pic]) /\ UNCHANGED <<left, reply>>
     \/ r.pc = "draw" /\ Spend("error") /\ Goes(c, [r EXCEPT !.pc = "github"]) /\ UNCHANGED reply
     \/ r.pc = "sketch" /\ Tell(c, r, pic) /\ UNCHANGED left
     \/ r.pc = "sketch" /\ Spend("error") /\ Tell(c, r, None)
  /\ UNCHANGED <<charting, l1, l2>>

\* The picture the source has drawn, which shows a date of its own.
GitHubImage(c) ==
  LET r == ask[c] IN
  /\ r.pc = "github"
  /\ \/ Goes(c, [r EXCEPT !.pc = "keep", !.pic = [of |-> head, label |-> None]]) /\ UNCHANGED <<left, reply>>
     \/ Spend("error") /\ Tell(c, r, None)
  /\ UNCHANGED <<charting, l1, l2>>

\* It is stored in Redis, if that works, and in memory, and sent.
Keep(c) ==
  LET r == ask[c] IN
  /\ r.pc = "keep"
  /\ \/ l2' = (r.label :> r.pic) @@ l2 /\ UNCHANGED left
     \/ Spend("error") /\ UNCHANGED l2
  /\ l1' = Stored(l1, r.label, r.at, r.pic)
  /\ Tell(c, r, r.pic)
  /\ UNCHANGED charting

\* The administrator changes the mode.
SetMode ==
  /\ Spend("mode")
  /\ onDemand' = ~ onDemand
  /\ UNCHANGED <<rest, breakerVars, lastCheck, checkedAt, begun, failed, date, etag, l1, l2, known, ask, reply, crossed>>

\* The source gets a new version.
NewVersion ==
  /\ Spend("commit")
  /\ head' = head + 1
  /\ UNCHANGED <<gateVars, breakerVars, now, was, cache, date, etag, l1, l2, onDemand, known, ask, reply, crossed>>

SourceNext ==
  \/ SetMode \/ NewVersion
  \/ \E c \in Callers :
       \/ CheckFetch(c) \/ LimitedFetch(c) \/ EndLimited(c) \/ MenuSchedule(c) \/ ScheduleCheck(c)
       \/ \E u \in Users : Press(c, u)
       \/ Serve(c) \/ Arrive(c) \/ DateAnswer(c)
       \/ Compare(c) \/ Prerender(c) \/ Refreshed(c) \/ Show(c)
       \/ LookInMemory(c) \/ LookInRedis(c) \/ Draw(c) \/ GitHubImage(c) \/ Keep(c)
-----------------------------------------------------------------------------
(* Properties                                                              *)

\* scheduler.py: the chart is drawn "before notifications are sent so that every user in
\* the blast receives the same pre-rendered image": the picture that goes with a change
\* is not a chart of what was before.
PictureOfTheChange ==
  reply # None /\ reply.stage = "check" /\ reply.pic # None => reply.pic.of >= reply.of
=============================================================================
