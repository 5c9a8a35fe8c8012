----------------------------- MODULE SourceCache -----------------------------
(***************************************************************************)
(* The client of the schedules' source (services/api.py) and what it keeps *)
(* of the answers: the file of a region, the date of its last commit, and  *)
(* the charts in memory and in Redis (services/chart_cache.py).  One       *)
(* region and one queue are modelled; the source numbers the versions of   *)
(* the file.  A request reads nothing again after its answer: whatever was *)
(* stored in between is overwritten.                                       *)
(***************************************************************************)
EXTENDS CircuitBreaker

CONSTANTS
  Ttl,       \* effective_ttl of a file, in ticks
  DateTtl,   \* QUEUE_SOURCE_UPDATE_TTL
  ImageTtl,  \* CACHE_TTL
  MaxImages  \* MAX_CACHE_SIZE

ASSUME CacheAssumption ==
  /\ Ttl \in Nat \ {0} /\ DateTtl \in Nat \ {0} /\ ImageTtl \in Nat /\ MaxImages \in Nat \ {0}
  /\ None \notin [at : Nat, of : Nat]

VARIABLES
  head,      \* version of the file at the source
  was,       \* was[t + 1]: head when the clock reached t (history)
  cache,     \* _schedule_cache: [at, of], or None
  date,      \* _queue_source_update_cache: [at, of], or None
  etag,      \* _queue_source_update_etags
  l1,        \* _image_cache: [label, at, pic], the least recently used first
  l2,        \* Redis: the pictures by label
  onDemand,  \* _chart_render_on_demand
  known,     \* version whose hash the checker has stored
  ask,       \* ask[c]: what request c is at
  reply,     \* the last reply with a schedule: [stage, of, label, pic] (history)
  crossed    \* two requests for a date have overlapped (history)

sourceVars == <<head, was, cache, date, etag, l1, l2, onDemand, known, ask, reply, crossed>>

\* pc: "idle", "asked" (a press that passed the throttle), "get" (a fetch), "got",
\* "date" (a request for the date), "dated", "redis", "draw", "sketch" (drawn on demand),
\* "keep", "github", "render" (the checker's chart).
Idle ==
  [pc |-> "idle", stage |-> None, user |-> None, at |-> 0, served |-> None, of |-> None, stale |-> FALSE,
   src |-> None, etag |-> None, sure |-> FALSE, label |-> None, pic |-> None]

SourceInit ==
  /\ head = 1
  /\ was = <<1>>
  /\ cache = None
  /\ date = None
  /\ etag = None
  /\ l1 = <<>>
  /\ l2 = << >>
  /\ onDemand = FALSE
  /\ known = 1
  /\ ask = [c \in Callers |-> Idle]
  /\ reply = None
  /\ crossed = FALSE

Goes(c, r) == ask' = [ask EXCEPT ![c] = r]
-----------------------------------------------------------------------------
(* The file                                                                *)

\* fetch_schedule_data as far as its request: the cache answers, or the breaker refuses
\* and what is cached answers however old, or a request begins.
Fetch(c, r, stage, force) ==
  LET fresh == ~ force /\ cache # None /\ now - cache.at < Ttl
      begin == [r EXCEPT !.stage = stage, !.at = now, !.served = None]
      cached == IF cache = None THEN None ELSE cache.of
  IN IF fresh
     THEN Goes(c, [begin EXCEPT !.pc = "got", !.of = cached, !.stale = FALSE]) /\ UNCHANGED breakerVars
     ELSE /\ BeginCall
          /\ Goes(c, IF Allowed THEN [begin EXCEPT !.pc = "get"]
                     ELSE [begin EXCEPT !.pc = "got", !.of = cached, !.stale = TRUE])

\* The checker's round.
CheckFetch(c) ==
  /\ ask[c].pc = "idle"
  /\ Spend("check")
  /\ \E force \in BOOLEAN : Fetch(c, Idle, "check", force)
  /\ UNCHANGED <<gateVars, now, head, was, cache, date, etag, l1, l2, onDemand, known, reply, crossed>>

\* The morning's flush, which insists, and a handler of the power monitor, which does not,
\* have thirty seconds.
LimitedFetch(c) ==
  /\ ask[c].pc = "idle"
  /\ Spend("limited")
  /\ \E force \in BOOLEAN : Fetch(c, Idle, "limited", force)
  /\ UNCHANGED <<gateVars, now, head, was, cache, date, etag, l1, l2, onDemand, known, reply, crossed>>

\* They go on with their answer; or their time is over, less than a tick perhaps, and
\* wait_for has cancelled the call.
EndLimited(c) ==
  /\ ask[c].stage = "limited"
  /\ \/ ask[c].pc = "got" /\ UNCHANGED breakerVars
     \/ ask[c].pc = "get" /\ CutCall
  /\ Goes(c, Idle)
  /\ UNCHANGED <<gateVars, now, left, head, was, cache, date, etag, l1, l2, onDemand, known, reply, crossed>>

\* The menu's buttons.
Press(c, u) ==
  /\ ask[c].pc = "idle"
  /\ Spend("press")
  /\ \E passes \in BOOLEAN :
       /\ Throttle(u, passes)
       /\ IF passes THEN Goes(c, [Idle EXCEPT !.pc = "asked", !.user = u]) ELSE UNCHANGED ask
  /\ UNCHANGED <<breakerVars, lastCheck, checkedAt, begun, failed, now, head, was, cache, date, etag, l1, l2, onDemand,
                 known, reply, crossed>>

\* menu_schedule, cmd_schedule and test_schedule show the schedule; schedule_check is
\* refused by the cooldown or looks at the cache first.
MenuSchedule(c) ==
  /\ ask[c].pc = "asked"
  /\ Spend("show")
  /\ Fetch(c, ask[c], "show", FALSE)
  /\ UNCHANGED <<gateVars, now, head, was, cache, date, etag, l1, l2, onDemand, known, reply, crossed>>

ScheduleCheck(c) ==
  /\ ask[c].pc = "asked"
  /\ \E begins \in BOOLEAN :
       /\ Cool(ask[c].user, begins)
       /\ IF begins THEN Fetch(c, ask[c], "old", FALSE) ELSE Goes(c, Idle) /\ UNCHANGED breakerVars
  /\ UNCHANGED <<lastCall, cleanedAt, handled, now, left, head, was, cache, date, etag, l1, l2, onDemand, known,
                 reply, crossed>>

\* The source answers; the answer is on its way.
Serve(c) ==
  /\ ask[c].pc \in {"get", "date"} /\ ask[c].served = None
  /\ Goes(c, [ask[c] EXCEPT !.served = head])
  /\ UNCHANGED <<gateVars, breakerVars, now, left, head, was, cache, date, etag, l1, l2, onDemand, known, reply, crossed>>

\* Mutant: the entry is stamped when it is stored.
StampAtEnd(r) == now

StampOf(r) == r.at

\* _do_fetch ends: with the file; with another status or a file that cannot be read,
\* which is no failure for the breaker; or with an error, after its retries.
Arrive(c) ==
  LET r == ask[c] IN
  /\ r.pc = "get"
  /\ \/ /\ r.served # None
        /\ cache' = [at |-> StampOf(r), of |-> r.served]
        /\ Goes(c, [r EXCEPT !.pc = "got", !.of = r.served, !.served = None, !.stale = FALSE])
        /\ Succeed
        /\ UNCHANGED left
     \/ /\ Spend("error")
        /\ Goes(c, [r EXCEPT !.pc = "got", !.of = None, !.served = None])
        /\ Succeed \/ FailCall
        /\ UNCHANGED cache
  /\ UNCHANGED <<gateVars, now, head, was, date, etag, l1, l2, onDemand, known, reply, crossed>>
-----------------------------------------------------------------------------
(* The date of the last commit                                             *)

InFlight == {c \in Callers : ask[c].pc = "date"}

\* get_queue_source_updated_at as far as its request.
AskDate(c, r) ==
  LET cached == IF date = None THEN None ELSE date.of IN
  IF date # None /\ now - date.at < DateTtl
  THEN Goes(c, [r EXCEPT !.pc = "dated", !.at = now, !.src = cached, !.sure = TRUE]) /\ UNCHANGED crossed
  ELSE /\ Goes(c, [r EXCEPT !.pc = "date", !.at = now, !.src = cached, !.etag = etag, !.served = None])
       /\ crossed' = (crossed \/ InFlight # {})

Unmodified(r) == r.src

\* Its answer: 304 and the date of the entry that was read before the request, the
\* date, or anything else and that date, which is not stored.
DateAnswer(c) ==
  LET r == ask[c]
      answer == IF r.served = r.etag THEN Unmodified(r) ELSE r.served
  IN
  /\ r.pc = "date"
  /\ \/ /\ r.served # None
        /\ date' = [at |-> now, of |-> answer]
        /\ IF r.served = r.etag THEN etag' = etag ELSE etag' = r.served
        /\ Goes(c, [r EXCEPT !.pc = "dated", !.src = answer, !.sure = TRUE, !.served = None, !.etag = None])
        /\ UNCHANGED left
     \/ /\ Spend("error")
        /\ Goes(c, [r EXCEPT !.pc = "dated", !.sure = FALSE, !.served = None, !.etag = None])
        /\ UNCHANGED <<date, etag>>
  /\ UNCHANGED <<gateVars, breakerVars, now, head, was, cache, l1, l2, onDemand, known, reply, crossed>>
=============================================================================
