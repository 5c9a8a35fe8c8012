---------------------------- MODULE BreakerProofs ----------------------------
(***************************************************************************)
(* Proof that a source whose calls fail is spared.  The breaker looks at   *)
(* its state when a call begins and changes it when one ends, so the calls *)
(* on their way are part of the invariant: a closed breaker has let        *)
(* through the failures it has counted and those; one that is open, what   *)
(* the bound allowed when it opened; one that is half open, that and       *)
(* those, a Reset later at least; and each of them those that were         *)
(* cancelled.                                                              *)
(***************************************************************************)
EXTENDS SourceClientProofs

\* Requests for the file that are on their way.
Getting == {c \in Callers : ask[c].pc = "get"}

\* ask is indexed by the callers, and a request has a pc.
Shape == DOMAIN ask = Callers /\ \A c \in Callers : "pc" \in DOMAIN ask[c]

\* What a step of the source does to the breaker: nothing; or a call begins, ends, or is
\* cancelled.
Quiet == UNCHANGED breakerVars /\ Getting' = Getting

Begins(c) ==
  /\ c \notin Getting
  /\ BeginCall
  /\ Getting' = IF Allowed THEN Getting \cup {c} ELSE Getting

Ends(c) ==
  /\ c \in Getting
  /\ Succeed \/ FailCall
  /\ Getting' = Getting \ {c}

Breaks(c) ==
  /\ c \in Getting
  /\ CutCall
  /\ Getting' = Getting \ {c}

Moves == Quiet \/ \E c \in Callers : Begins(c) \/ Ends(c) \/ Breaks(c)

-----------------------------------------------------------------------------
(* The steps of the source                                                 *)

LEMMA Gone ==
  ASSUME Shape, NEW c \in Callers, NEW q, "pc" \in DOMAIN q, Goes(c, q)
  PROVE  /\ Shape'
         /\ q.pc = "get" => Getting' = Getting \cup {c}
         /\ q.pc # "get" => Getting' = Getting \ {c}
  BY DEF Shape, Goes, Getting

\* fetch_schedule_data begins a call or answers at once.
LEMMA Fetched ==
  ASSUME Shape, NEW c \in Callers, NEW r, "pc" \in DOMAIN r, NEW stage, NEW force,
         Fetch(c, r, stage, force), c \notin Getting
  PROVE  Shape' /\ (Quiet \/ Begins(c))
  <1> DEFINE fresh == ~ force /\ cache # None /\ now - cache.at < Ttl
             begin == [r EXCEPT !.stage = stage, !.at = now, !.served = None]
             cached == IF cache = None THEN None ELSE cache.of
             known1 == [begin EXCEPT !.pc = "got", !.of = cached, !.stale = FALSE]
             known2 == [begin EXCEPT !.pc = "got", !.of = cached, !.stale = TRUE]
             asked == [begin EXCEPT !.pc = "get"]
  <1>1. "pc" \in DOMAIN begin
    OBVIOUS
  <1>2. /\ "pc" \in DOMAIN known1 /\ known1.pc = "got"
        /\ "pc" \in DOMAIN known2 /\ known2.pc = "got"
        /\ "pc" \in DOMAIN asked /\ asked.pc = "get"
    BY <1>1
  <1>3. \/ Goes(c, known1) /\ UNCHANGED breakerVars
        \/ BeginCall /\ Goes(c, IF Allowed THEN asked ELSE known2)
    BY DEF Fetch
  <1> HIDE DEF known1, known2, asked
  <1>4. CASE Goes(c, known1) /\ UNCHANGED breakerVars
    BY <1>2, <1>4, Gone DEF Quiet
  <1>5. CASE BeginCall /\ Allowed /\ Goes(c, asked)
    BY <1>2, <1>5, Gone DEF Begins
  <1>6. CASE BeginCall /\ ~ Allowed /\ Goes(c, known2)
    BY <1>2, <1>6, Gone DEF Begins
  <1> QED
    BY <1>3, <1>4, <1>5, <1>6

\* A request for a date is none for the file.
LEMMA Asked ==
  ASSUME Shape, NEW c \in Callers, NEW r, "pc" \in DOMAIN r, AskDate(c, r)
  PROVE  Shape' /\ Getting' = Getting \ {c}
  <1> DEFINE cached == IF date = None THEN None ELSE date.of
             dated == [r EXCEPT !.pc = "dated", !.at = now, !.src = cached, !.sure = TRUE]
             asked == [r EXCEPT !.pc = "date", !.at = now, !.src = cached, !.etag = etag, !.served = None]
  <1>1. /\ "pc" \in DOMAIN dated /\ dated.pc = "dated"
        /\ "pc" \in DOMAIN asked /\ asked.pc = "date"
    OBVIOUS
  <1>2. Goes(c, dated) \/ Goes(c, asked)
    BY DEF AskDate
  <1> HIDE DEF dated, asked
  <1> QED
    BY <1>1, <1>2, Gone

\* A step of a request that neither begins nor ends a request for the file.
LEMMA Passing ==
  ASSUME Shape, NEW c \in Callers, ask[c].pc # "get", UNCHANGED breakerVars,
         UNCHANGED ask \/ \E q : "pc" \in DOMAIN q /\ q.pc # "get" /\ Goes(c, q)
  PROVE  Shape' /\ Quiet
  <1>1. CASE UNCHANGED ask
    BY <1>1 DEF Shape, Quiet, Getting
  <1>2. CASE \E q : "pc" \in DOMAIN q /\ q.pc # "get" /\ Goes(c, q)
    <2>1. PICK q : "pc" \in DOMAIN q /\ q.pc # "get" /\ Goes(c, q)
      BY <1>2
    <2>2. Shape' /\ Getting' = Getting \ {c}
      BY <2>1, Gone
    <2> QED
      BY <2>2 DEF Quiet, Getting
  <1> QED
    BY <1>1, <1>2

LEMMA IdleShape == "pc" \in DOMAIN Idle /\ Idle.pc = "idle"
  BY DEF Idle

LEMMA FileMoves ==
  ASSUME Shape, NEW c \in Callers,
         \/ CheckFetch(c) \/ LimitedFetch(c) \/ EndLimited(c)
         \/ MenuSchedule(c) \/ ScheduleCheck(c)
         \/ \E u \in Users : Press(c, u)
         \/ Serve(c) \/ Arrive(c)
  PROVE  Shape' /\ Moves
  <1>0. "pc" \in DOMAIN ask[c]
    BY DEF Shape
  <1>1. CASE CheckFetch(c)
    <2>1. c \notin Getting /\ \E force \in BOOLEAN : Fetch(c, Idle, "check", force)
      BY <1>1 DEF CheckFetch, Getting
    <2> QED
      BY <2>1, IdleShape, Fetched DEF Moves
  <1>2. CASE MenuSchedule(c)
    <2>1. c \notin Getting /\ Fetch(c, ask[c], "show", FALSE)
      BY <1>2 DEF MenuSchedule, Getting
    <2> QED
      BY <1>0, <2>1, Fetched DEF Moves
  <1>3. CASE ScheduleCheck(c)
    <2>1. /\ c \notin Getting
          /\ Fetch(c, ask[c], "old", FALSE) \/ (Goes(c, Idle) /\ UNCHANGED breakerVars)
      BY <1>3 DEF ScheduleCheck, Getting
    <2>2. CASE Fetch(c, ask[c], "old", FALSE)
      BY <1>0, <2>1, <2>2, Fetched DEF Moves
    <2>3. CASE Goes(c, Idle) /\ UNCHANGED breakerVars
      BY <1>3, <2>3, IdleShape, Passing DEF Moves, ScheduleCheck
    <2> QED
      BY <2>1, <2>2, <2>3
  <1>4. CASE \E u \in Users : Press(c, u)
    <2>1. PICK u \in Users : Press(c, u)
      BY <1>4
    <2> DEFINE q == [Idle EXCEPT !.pc = "asked", !.user = u]
    <2>2. "pc" \in DOMAIN q /\ q.pc = "asked"
      BY IdleShape
    <2>3. /\ ask[c].pc # "get" /\ UNCHANGED breakerVars
          /\ UNCHANGED ask \/ Goes(c, q)
      BY <2>1 DEF Press
    <2> HIDE DEF q
    <2> QED
      BY <2>2, <2>3, Passing DEF Moves
  <1>5. CASE Serve(c)
    <2> DEFINE q == [ask[c] EXCEPT !.served = head]
    <2>1. "pc" \in DOMAIN q /\ q.pc = ask[c].pc
      BY <1>0
    <2>2. Goes(c, q) /\ UNCHANGED breakerVars
      BY <1>5 DEF Serve
    <2> HIDE DEF q
    <2>3. Shape' /\ Getting' = Getting
      BY <2>1, <2>2, Gone DEF Getting
    <2> QED
      BY <2>2, <2>3 DEF Moves, Quiet
  <1>6. CASE Arrive(c)
    <2> DEFINE q1 == [ask[c] EXCEPT !.pc = "got", !.of = ask[c].served, !.served = None, !.stale = FALSE]
               q2 == [ask[c] EXCEPT !.pc = "got", !.of = None, !.served = None]
    <2>1. "pc" \in DOMAIN q1 /\ q1.pc = "got" /\ "pc" \in DOMAIN q2 /\ q2.pc = "got"
      BY <1>0
    <2>2. c \in Getting /\ (Goes(c, q1) \/ Goes(c, q2)) /\ (Succeed \/ FailCall)
      BY <1>6 DEF Arrive, Getting
    <2> HIDE DEF q1, q2
    <2>3. Shape' /\ Getting' = Getting \ {c}
      BY <2>1, <2>2, Gone
    <2> QED
      BY <2>2, <2>3 DEF Moves, Ends
  <1>7. CASE LimitedFetch(c)
    <2>1. c \notin Getting /\ \E force \in BOOLEAN : Fetch(c, Idle, "limited", force)
      BY <1>7 DEF LimitedFetch, Getting
    <2> QED
      BY <2>1, IdleShape, Fetched DEF Moves
  <1>8. CASE EndLimited(c)
    <2>1. Shape' /\ Getting' = Getting \ {c}
      BY <1>8, IdleShape, Gone DEF EndLimited
    <2>2. CASE ask[c].pc = "got" /\ UNCHANGED breakerVars
      BY <2>1, <2>2 DEF Moves, Quiet, Getting
    <2>3. CASE ask[c].pc = "get" /\ CutCall
      BY <2>1, <2>3 DEF Moves, Breaks, Getting
    <2> QED
      BY <1>8, <2>2, <2>3 DEF EndLimited
  <1> QED
    BY <1>1, <1>2, <1>3, <1>4, <1>5, <1>6, <1>7, <1>8

LEMMA ChartMoves ==
  ASSUME Shape, NEW c \in Callers,
         \/ DateAnswer(c) \/ Compare(c) \/ Prerender(c) \/ Refreshed(c) \/ Show(c)
         \/ LookInMemory(c) \/ LookInRedis(c) \/ Draw(c) \/ GitHubImage(c) \/ Keep(c)
  PROVE  Shape' /\ Moves
  <1>0. "pc" \in DOMAIN ask[c]
    BY DEF Shape
  <1> USE DEF rest, charting
  <1>1. CASE DateAnswer(c)
    <2> DEFINE answer == IF ask[c].served = ask[c].etag THEN Unmodified(ask[c]) ELSE ask[c].served
               q1 == [ask[c] EXCEPT !.pc = "dated", !.src = answer, !.sure = TRUE, !.served = None, !.etag = None]
               q2 == [ask[c] EXCEPT !.pc = "dated", !.sure = FALSE, !.served = None, !.etag = None]
    <2>1. "pc" \in DOMAIN q1 /\ q1.pc = "dated" /\ "pc" \in DOMAIN q2 /\ q2.pc = "dated"
      BY <1>0
    <2>2. ask[c].pc # "get" /\ (Goes(c, q1) \/ Goes(c, q2)) /\ UNCHANGED breakerVars
      BY <1>1 DEF DateAnswer
    <2> HIDE DEF q1, q2
    <2> QED
      BY <2>1, <2>2, Passing DEF Moves
  <1>2. CASE Compare(c)
    <2> DEFINE q == [ask[c] EXCEPT !.pc = "render"]
    <2>1. "pc" \in DOMAIN q /\ q.pc = "render"
      BY <1>0
    <2>2. ask[c].pc # "get" /\ (Goes(c, Idle) \/ Goes(c, q)) /\ UNCHANGED breakerVars
      BY <1>2 DEF Compare
    <2> HIDE DEF q
    <2> QED
      BY <2>1, <2>2, IdleShape, Passing DEF Moves
  <1>3. CASE Prerender(c)
    <2>1. ask[c].pc # "get" /\ AskDate(c, ask[c]) /\ UNCHANGED breakerVars
      BY <1>3 DEF Prerender
    <2> QED
      BY <1>0, <2>1, Asked DEF Moves, Quiet, Getting
  <1>4. CASE Refreshed(c)
    <2>1. /\ c \notin Getting
          /\ \/ Goes(c, Idle) /\ UNCHANGED breakerVars
             \/ Fetch(c, ask[c], "new", TRUE) \/ Fetch(c, ask[c], "show", FALSE)
      BY <1>4 DEF Refreshed, Getting
    <2>2. CASE Goes(c, Idle) /\ UNCHANGED breakerVars
      BY <2>1, <2>2, IdleShape, Passing DEF Moves, Getting
    <2>3. CASE Fetch(c, ask[c], "new", TRUE) \/ Fetch(c, ask[c], "show", FALSE)
      BY <1>0, <2>1, <2>3, Fetched DEF Moves
    <2> QED
      BY <2>1, <2>2, <2>3
  <1>5. CASE Show(c)
    <2>1. ask[c].pc # "get" /\ (Goes(c, Idle) \/ AskDate(c, ask[c])) /\ UNCHANGED breakerVars
      BY <1>5 DEF Show
    <2>2. CASE Goes(c, Idle)
      BY <2>1, <2>2, IdleShape, Passing DEF Moves
    <2>3. CASE AskDate(c, ask[c])
      BY <1>0, <2>1, <2>3, Asked DEF Moves, Quiet, Getting
    <2> QED
      BY <2>1, <2>2, <2>3
  <1>6. CASE LookInMemory(c)
    <2> DEFINE r == [ask[c] EXCEPT !.label = Label(ask[c]), !.at = now, !.src = None, !.sure = FALSE]
               q1 == [r EXCEPT !.pc = "sketch"]
               q2 == [r EXCEPT !.pc = "redis"]
    <2>1. "pc" \in DOMAIN q1 /\ q1.pc = "sketch" /\ "pc" \in DOMAIN q2 /\ q2.pc = "redis"
      BY <1>0
    <2>2. ask[c].pc # "get" /\ (Goes(c, q1) \/ Goes(c, q2) \/ Goes(c, Idle)) /\ UNCHANGED breakerVars
      BY <1>6 DEF LookInMemory, Tell
    <2> HIDE DEF q1, q2
    <2> QED
      BY <2>1, <2>2, IdleShape, Passing DEF Moves
  <1>7. CASE LookInRedis(c) \/ Draw(c) \/ GitHubImage(c) \/ Keep(c)
    <2> DEFINE drawn == [ask[c] EXCEPT !.pc = "draw"]
               kept == [ask[c] EXCEPT !.pc = "keep", !.pic = [of |-> ask[c].of, label |-> ask[c].label]]
               away == [ask[c] EXCEPT !.pc = "github"]
               found == [ask[c] EXCEPT !.pc = "keep", !.pic = [of |-> head, label |-> None]]
    <2>1. /\ "pc" \in DOMAIN drawn /\ drawn.pc = "draw"
          /\ "pc" \in DOMAIN kept /\ kept.pc = "keep"
          /\ "pc" \in DOMAIN away /\ away.pc = "github"
          /\ "pc" \in DOMAIN found /\ found.pc = "keep"
      BY <1>0
    <2>2. /\ ask[c].pc # "get" /\ UNCHANGED breakerVars
          /\ Goes(c, drawn) \/ Goes(c, kept) \/ Goes(c, away) \/ Goes(c, found) \/ Goes(c, Idle)
      <3>1. CASE LookInRedis(c)
        BY <3>1 DEF LookInRedis, Tell
      <3>2. CASE Draw(c)
        BY <3>2 DEF Draw, Tell
      <3>3. CASE GitHubImage(c) \/ Keep(c)
        BY <3>3 DEF GitHubImage, Keep, Tell
      <3> QED
        BY <1>7, <3>1, <3>2, <3>3
    <2> HIDE DEF drawn, kept, away, found
    <2> QED
      BY <2>1, <2>2, IdleShape, Passing DEF Moves
  <1> QED
    BY <1>1, <1>2, <1>3, <1>4, <1>5, <1>6, <1>7

LEMMA SourceMoves == Shape /\ SourceNext => Shape' /\ Moves
  <1> SUFFICES ASSUME Shape, SourceNext
               PROVE  Shape' /\ Moves
    OBVIOUS
  <1>1. CASE SetMode \/ NewVersion
    BY <1>1 DEF SetMode, NewVersion, Shape, Moves, Quiet, Getting
  <1>2. CASE \E c \in Callers :
               \/ CheckFetch(c) \/ LimitedFetch(c) \/ EndLimited(c)
               \/ MenuSchedule(c) \/ ScheduleCheck(c)
               \/ \E u \in Users : Press(c, u)
               \/ Serve(c) \/ Arrive(c)
    BY <1>2, FileMoves
  <1>3. CASE \E c \in Callers :
               \/ DateAnswer(c) \/ Compare(c) \/ Prerender(c) \/ Refreshed(c) \/ Show(c)
               \/ LookInMemory(c) \/ LookInRedis(c) \/ Draw(c) \/ GitHubImage(c) \/ Keep(c)
    BY <1>3, ChartMoves
  <1> QED
    BY <1>1, <1>2, <1>3 DEF SourceNext
-----------------------------------------------------------------------------
(* The breaker                                                             *)

Flying == Cardinality(Getting)
Most == Cardinality(Callers)

\* The calls let through until t, those on their way by then, and those cancelled.
Spared(t) == FailMax - 1 + Most * (1 + (t - goodAt) \div Reset) + cut

BreakerType ==
  /\ now \in Nat /\ failures \in Nat /\ calls \in Nat
  /\ openedAt \in Nat /\ goodAt \in Nat /\ goodAt <= now /\ cut \in Nat
  /\ state \in {"closed", "open", "half_open"}

BreakerInv ==
  /\ Shape
  /\ BreakerType
  /\ state = "closed" => failures < FailMax /\ calls <= failures + Flying + cut
  /\ state # "closed" => goodAt <= openedAt /\ openedAt <= now
  /\ state = "open" => calls <= Spared(openedAt)
  /\ state = "half_open" => calls <= Spared(openedAt) + Flying /\ openedAt + Reset <= now

LEMMA Counted == /\ Most \in Nat /\ Flying \in Nat /\ Flying <= Most /\ IsFiniteSet(Getting)
  BY FS_CardinalityType, FS_Subset, BreakerAssumption DEF BreakerAssumption, Most, Flying, Getting

LEMMA CountedNext == Flying' \in Nat /\ Flying' <= Most
  BY FS_CardinalityType, FS_Subset, BreakerAssumption DEF BreakerAssumption, Most, Flying, Getting

LEMMA Divided ==
  ASSUME NEW a \in Nat, NEW b \in Nat, NEW d \in Nat \ {0}, a <= b
  PROVE  /\ a \div d \in Nat /\ b \div d \in Nat /\ a \div d <= b \div d
         /\ a + d <= b => a \div d + 1 <= b \div d
  OBVIOUS

LEMMA Times ==
  ASSUME NEW k \in Nat, NEW x \in Nat, NEW y \in Nat
  PROVE  /\ k * (1 + x) \in Nat /\ k <= k * (1 + x)
         /\ x <= y => k * (1 + x) <= k * (1 + y)
         /\ x + 1 <= y => k * (1 + x) + k <= k * (1 + y)
  OBVIOUS

\* More may have been let through later; a Reset later, one more call of each.
LEMMA Grows ==
  ASSUME BreakerType, NEW s \in Nat, NEW t \in Nat, goodAt <= s, s <= t
  PROVE  /\ Spared(s) \in Nat /\ Spared(t) \in Nat /\ FailMax - 1 + Most + cut <= Spared(s)
         /\ Spared(s) <= Spared(t)
         /\ s + Reset <= t => Spared(s) + Most <= Spared(t)
  <1> DEFINE x == (s - goodAt) \div Reset
             y == (t - goodAt) \div Reset
  <1>1. FailMax \in Nat \ {0} /\ Reset \in Nat \ {0} /\ Most \in Nat
    BY BreakerAssumption, Counted DEF BreakerAssumption
  <1>2. s - goodAt \in Nat /\ t - goodAt \in Nat /\ s - goodAt <= t - goodAt
    BY DEF BreakerType
  <1>3. x \in Nat /\ y \in Nat /\ x <= y /\ (s + Reset <= t => x + 1 <= y)
    <2>1. s + Reset <= t => (s - goodAt) + Reset <= t - goodAt
      BY <1>1 DEF BreakerType
    <2> QED
      BY <1>1, <1>2, <2>1, Divided
  <1>4. /\ Spared(s) = FailMax - 1 + Most * (1 + x) + cut
        /\ Spared(t) = FailMax - 1 + Most * (1 + y) + cut
    BY DEF Spared
  <1> HIDE DEF x, y
  <1>5. /\ Most * (1 + x) \in Nat /\ Most <= Most * (1 + x) /\ Most * (1 + y) \in Nat
        /\ Most * (1 + x) <= Most * (1 + y)
        /\ s + Reset <= t => Most * (1 + x) + Most <= Most * (1 + y)
    BY <1>1, <1>3, Times
  <1> DEFINE p == Most * (1 + x)
             q == Most * (1 + y)
  <1>6. /\ p \in Nat /\ q \in Nat /\ Most <= p /\ p <= q /\ (s + Reset <= t => p + Most <= q)
        /\ Spared(s) = FailMax - 1 + p + cut /\ Spared(t) = FailMax - 1 + q + cut
    BY <1>4, <1>5
  <1> HIDE DEF p, q
  <1> QED
    BY <1>1, <1>6 DEF BreakerType

LEMMA BreakerStarts == Init => BreakerInv
  <1> SUFFICES ASSUME Init
               PROVE  BreakerInv
    OBVIOUS
  <1>1. /\ now = 0 /\ state = "closed" /\ failures = 0 /\ openedAt = 0 /\ calls = 0 /\ goodAt = 0
        /\ cut = 0 /\ ask = [c \in Callers |-> Idle]
    BY DEF Init, GatesInit, BreakerInit, SourceInit
  <1>2. Shape
    BY <1>1, IdleShape DEF Shape
  <1> QED
    BY <1>1, <1>2, Counted, BreakerAssumption DEF BreakerInv, BreakerType, BreakerAssumption

LEMMA BeginKeeps ==
  ASSUME BreakerInv, NEW c \in Callers, Begins(c), Shape', now' = now
  PROVE  BreakerInv'
  <1>1. BreakerType /\ IsFiniteSet(Getting) /\ Flying \in Nat /\ Reset \in Nat \ {0} /\ FailMax \in Nat \ {0}
    BY Counted, BreakerAssumption DEF BreakerInv, BreakerAssumption
  <1>2. UNCHANGED <<failures, openedAt, goodAt, cut>> /\ state' = State
        /\ calls' = IF Allowed THEN calls + 1 ELSE calls
    BY DEF Begins, BeginCall
  <1>3. Spared(openedAt)' = Spared(openedAt)
    BY <1>2 DEF Spared, Most
  <1>4. CASE Allowed
    <2>1. Flying' = Flying + 1
      BY <1>1, <1>4, FS_AddElement DEF Begins, Flying
    <2>2. calls' = calls + 1 /\ BreakerType'
      BY <1>1, <1>2, <1>4 DEF BreakerType, State
    <2>3. CASE state = "closed"
      BY <1>1, <1>2, <2>1, <2>2, <2>3 DEF BreakerInv, State, BreakerType
    <2>4. CASE state # "closed"
      <3>1. /\ state' = "half_open" /\ goodAt <= openedAt /\ openedAt + Reset <= now /\ openedAt <= now
            /\ calls <= Spared(openedAt) + Flying
        <4>1. goodAt <= openedAt /\ openedAt <= now /\ Spared(openedAt) \in Nat
          BY <1>1, <2>4, Grows DEF BreakerInv, BreakerType
        <4>2. CASE state = "open"
          BY <1>1, <1>2, <1>4, <4>1, <4>2 DEF BreakerInv, BreakerType, State, Allowed
        <4>3. CASE state = "half_open"
          BY <1>1, <1>2, <4>1, <4>3 DEF BreakerInv, BreakerType, State
        <4> QED
          BY <1>1, <2>4, <4>2, <4>3 DEF BreakerType
      <3>2. Spared(openedAt) \in Nat
        BY <1>1, <3>1, Grows DEF BreakerType
      <3>3. calls' <= Spared(openedAt)' + Flying'
        BY <1>1, <1>3, <2>1, <2>2, <3>1, <3>2 DEF BreakerType
      <3> QED
        BY <1>2, <2>2, <3>1, <3>3 DEF BreakerInv
    <2> QED
      BY <2>3, <2>4
  <1>5. CASE ~ Allowed
    <2>1. Flying' = Flying /\ calls' = calls /\ state' = "open" /\ state = "open"
      BY <1>1, <1>2, <1>5 DEF Begins, Flying, Allowed, State
    <2> QED
      BY <1>1, <1>2, <1>3, <2>1 DEF BreakerInv, BreakerType
  <1> QED
    BY <1>4, <1>5

LEMMA EndKeeps ==
  ASSUME BreakerInv, NEW c \in Callers, Ends(c), Shape', now' = now
  PROVE  BreakerInv'
  <1>1. /\ BreakerType /\ IsFiniteSet(Getting) /\ Flying \in Nat /\ Most \in Nat /\ Flying <= Most
        /\ Reset \in Nat \ {0} /\ FailMax \in Nat \ {0}
    BY Counted, BreakerAssumption DEF BreakerInv, BreakerAssumption
  <1>2. Flying' = Flying - 1 /\ Flying' \in Nat
    BY <1>1, FS_RemoveElement, CountedNext DEF Ends, Flying
  <1>3. CASE Succeed
    BY <1>1, <1>2, <1>3 DEF Succeed, BreakerInv, BreakerType
  <1>4. CASE FailCall
    <2>1. failures' = failures + 1 /\ UNCHANGED <<calls, goodAt, cut>>
      BY <1>4 DEF FailCall
    <2>2. CASE state = "half_open" \/ failures' >= FailMax
      <3>1. state' = "open" /\ openedAt' = now
        BY <1>4, <2>2 DEF FailCall, Opening
      <3>2. BreakerType'
        BY <1>1, <2>1, <3>1 DEF BreakerType
      <3>3. Spared(openedAt)' = Spared(now) /\ FailMax - 1 + Most + cut <= Spared(now) /\ Spared(now) \in Nat
        BY <1>1, <2>1, <3>1, Grows DEF BreakerType, Spared, Most
      <3>4. calls <= Spared(now)
        <4>1. CASE state = "closed"
          BY <1>1, <3>3, <4>1 DEF BreakerInv, BreakerType
        <4>2. CASE state # "closed"
          <5>1. /\ goodAt <= openedAt /\ openedAt <= now /\ Spared(openedAt) \in Nat
                /\ Spared(openedAt) <= Spared(now)
                /\ openedAt + Reset <= now => Spared(openedAt) + Most <= Spared(now)
            BY <1>1, <4>2, Grows DEF BreakerInv, BreakerType
          <5>2. CASE state = "open"
            BY <1>1, <3>3, <5>1, <5>2 DEF BreakerInv, BreakerType
          <5>3. CASE state = "half_open"
            BY <1>1, <3>3, <5>1, <5>3 DEF BreakerInv, BreakerType
          <5> QED
            BY <1>1, <4>2, <5>2, <5>3 DEF BreakerType
        <4> QED
          BY <4>1, <4>2
      <3> QED
        BY <1>1, <2>1, <3>1, <3>2, <3>3, <3>4 DEF BreakerInv, BreakerType
    <2>3. CASE ~ (state = "half_open" \/ failures' >= FailMax)
      <3>1. UNCHANGED <<state, openedAt>> /\ state # "half_open" /\ failures' < FailMax
        BY <1>1, <1>4, <2>1, <2>3 DEF FailCall, BreakerType
      <3>2. Spared(openedAt)' = Spared(openedAt)
        BY <2>1, <3>1 DEF Spared, Most
      <3> QED
        BY <1>1, <1>2, <2>1, <3>1, <3>2 DEF BreakerInv, BreakerType
    <2> QED
      BY <2>2, <2>3
  <1> QED
    BY <1>3, <1>4 DEF Ends

\* The bounds grow with what is cancelled.
LEMMA BreakKeeps ==
  ASSUME BreakerInv, NEW c \in Callers, Breaks(c), Shape', now' = now
  PROVE  BreakerInv'
  <1>1. /\ BreakerType /\ IsFiniteSet(Getting) /\ Flying \in Nat
        /\ UNCHANGED <<state, failures, openedAt, calls, goodAt>> /\ cut' = cut + 1
    BY Counted DEF BreakerInv, Breaks, CutCall
  <1>2. Flying' = Flying - 1 /\ Flying' \in Nat /\ BreakerType'
    BY <1>1, FS_RemoveElement, CountedNext DEF Breaks, Flying, BreakerType
  <1>3. state # "closed" => Spared(openedAt) \in Nat /\ Spared(openedAt)' = Spared(openedAt) + 1
    <2> SUFFICES ASSUME state # "closed"
                 PROVE  Spared(openedAt) \in Nat /\ Spared(openedAt)' = Spared(openedAt) + 1
      OBVIOUS
    <2> DEFINE most == Most * (1 + (openedAt - goodAt) \div Reset)
    <2>1. /\ openedAt - goodAt \in Nat /\ FailMax \in Nat \ {0} /\ Reset \in Nat \ {0}
          /\ Most \in Nat /\ cut \in Nat /\ cut' = cut + 1
      BY <1>1, Counted, BreakerAssumption DEF BreakerInv, BreakerType, BreakerAssumption
    <2>2. most \in Nat
      BY <2>1, Divided, Times
    <2>3. Spared(openedAt) = FailMax - 1 + most + cut /\ Spared(openedAt)' = FailMax - 1 + most + cut'
      BY <1>1 DEF Spared, Most
    <2> HIDE DEF most
    <2> QED
      BY <2>1, <2>2, <2>3
  <1> QED
    BY <1>1, <1>2, <1>3 DEF BreakerInv, BreakerType

LEMMA BreakerHolds == BreakerInv /\ [Next]_vars => BreakerInv'
  <1> SUFFICES ASSUME BreakerInv, [Next]_vars
               PROVE  BreakerInv'
    OBVIOUS
  <1>1. ASSUME UNCHANGED <<now, breakerVars, ask>>
        PROVE  BreakerInv'
    BY <1>1 DEF BreakerInv, BreakerType, Shape, Spared, Most, Flying, Getting, breakerVars
  <1>2. CASE SourceNext
    <2>1. Shape' /\ Moves /\ now' = now
      BY <1>2, SourceMoves, SourceKeepsTime DEF BreakerInv
    <2>2. CASE Quiet
      BY <2>1, <2>2 DEF Quiet, BreakerInv, BreakerType, Spared, Most, Flying, breakerVars
    <2> QED
      BY <2>1, <2>2, BeginKeeps, EndKeeps, BreakKeeps DEF Moves
  <1>3. CASE LimiterNext /\ UNCHANGED <<breakerVars, sourceVars>>
    BY <1>1, <1>3 DEF LimiterNext, Acquire, Awake, sourceVars
  <1>4. CASE Tick
    <2>1. now' = now + 1 /\ UNCHANGED <<breakerVars, ask>>
      BY <1>4 DEF Tick
    <2> QED
      BY <2>1, BreakerAssumption
      DEF BreakerInv, BreakerType, Shape, Spared, Most, Flying, Getting, breakerVars, BreakerAssumption
  <1>5. CASE Rest \/ UNCHANGED vars
    BY <1>1, <1>5 DEF Rest, vars, sourceVars
  <1> QED
    BY <1>2, <1>3, <1>4, <1>5 DEF Next

\* For any number of requests, however they overlap: since a call last ended without an
\* exception, the source has got no more calls than FailingSourceIsSpared allows, those
\* that were cancelled among them.
THEOREM FailingSourceStaysSpared == Spec => []FailingSourceIsSpared
  <1>1. BreakerInv => FailingSourceIsSpared
    <2> SUFFICES ASSUME BreakerInv
                 PROVE  calls <= Spared(now)
      BY DEF FailingSourceIsSpared, Spared, Most
    <2>1. /\ BreakerType /\ Flying \in Nat /\ Most \in Nat /\ Flying <= Most
          /\ FailMax \in Nat \ {0} /\ Reset \in Nat \ {0}
      BY Counted, BreakerAssumption DEF BreakerInv, BreakerAssumption
    <2>2. Spared(now) \in Nat /\ FailMax - 1 + Most + cut <= Spared(now)
      BY <2>1, Grows DEF BreakerType
    <2>3. CASE state = "closed"
      BY <2>1, <2>2, <2>3 DEF BreakerInv, BreakerType
    <2>4. CASE state # "closed"
      <3>1. /\ Spared(openedAt) \in Nat /\ Spared(openedAt) <= Spared(now)
            /\ openedAt + Reset <= now => Spared(openedAt) + Most <= Spared(now)
        BY <2>1, <2>4, Grows DEF BreakerInv, BreakerType
      <3> QED
        BY <2>1, <2>2, <2>4, <3>1 DEF BreakerInv, BreakerType
    <2> QED
      BY <2>3, <2>4
  <1> QED
    BY <1>1, BreakerStarts, BreakerHolds, PTL DEF Spec
=============================================================================
