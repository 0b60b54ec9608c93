----------------------------- MODULE PoseBudget -----------------------------
(***************************************************************************)
(* How far a pilot's reported poses may travel: the game loop's clock with *)
(* its catch-up after a stall (server/core/GameEngine.ts stepClock,        *)
(* shared/gameClock.ts), the spans in which it could read no pose, and the *)
(* travel credit that server/core/PlayerMotionService.ts grants for them.  *)
(*                                                                         *)
(* Time is counted in small units, FrameMs of them to a simulated frame,   *)
(* and a distance is the time the fastest legal flight takes to cover it.  *)
(* A pilot flies along a line.  Epochs and the messages that carry them    *)
(* are the subject of PilotMotion: here a corrected client adopts the      *)
(* server's pose at once, and what it had sent before is dropped.  Rails,  *)
(* walls and the decaying speed of a knockback are left out.               *)
(*                                                                         *)
(* The loop drains the socket whenever it polls, and a stall ends with the *)
(* clock's overdue timer: timers run before the poll.                      *)
(***************************************************************************)
EXTENDS Integers, Sequences, FiniteSets, FiniteSetsExt

CONSTANTS
    FrameMs,        \* GAME_TICK_MS
    CatchUp,        \* MAX_CATCH_UP_TICKS
    Lead,           \* PLAYER_MOTION.poseLeadFrames
    MinSpan,        \* BLOCKED_SPAN_MIN_MS, in frames
    Retention,      \* BLOCKED_SPAN_RETENTION_MS
    HandoffTimeout, \* PLAYER_MOTION.handoffTimeoutMs
    Tolerance,      \* PLAYER_MOTION.poseTolerance
    Paces,          \* what a client may fly in a unit of time; 1 is legal
    Horizon,        \* bound on time
    MaxOddities     \* bound on stalls, holds, illegal paces, lives and impulses

MaxDebt == CatchUp * FrameMs
LeadTime == Lead * FrameMs

ASSUME PoseAssumption ==
    /\ FrameMs \in Nat \ {0} /\ CatchUp \in Nat \ {0} /\ Lead \in Nat
    /\ MinSpan \in Nat /\ Retention \in Nat /\ Tolerance \in Nat
    /\ HandoffTimeout \in Nat /\ HandoffTimeout >= LeadTime
    /\ Paces \subseteq Nat /\ Horizon \in Nat /\ MaxOddities \in Nat

VARIABLES
    now,
    \* the clock
    loop,           \* see Loops
    lastTick,       \* lastTickAtMs
    lastFinished,   \* lastTickFinishedAtMs
    due,            \* nextTickDueAtMs
    blockedFrom,    \* stepClock's blockedFrom, while the frames are replayed
    debt,           \* tickAccumulatorMs
    gameTime,       \* frames simulated
    discarded,      \* GameLoopHealth.discardedDebtMs
    spans,          \* blockedSpans
    \* the pilot's session
    place,          \* actor.position
    mode,           \* mode, as far as the anchor goes
    poseAt,         \* poseAt; anchorAt is the same time in a handoff
    poseCredit, burstCredit, burstAt,
    \* the client and its link
    ship,           \* where the client flies
    holding,        \* the link holds what the client sends
    link,           \* held reports
    arrived,        \* reports in the server's socket
    \* history
    travelled,      \* accepted travel
    grants,         \* new lives and impulses
    oddities,       \* what has happened out of the ordinary
    heldFrom,       \* when the link last began to hold
    honest,         \* the client never flew too fast, and its link kept to Bearable
    corrected       \* a pose was rejected

clockVars == <<loop, lastTick, lastFinished, due, blockedFrom, debt, gameTime, discarded, spans>>
creditVars == <<mode, poseAt, poseCredit, burstCredit, burstAt>>
sessionVars == <<place, creditVars>>
flightVars == <<ship, holding, link, arrived>>
poseHistory == <<travelled, grants, oddities, heldFrom, honest, corrected>>
poseVars == <<now, clockVars, sessionVars, flightVars, poseHistory>>

\* Reading sockets and waiting; held up by something; replaying frames; and
\* replaying them slowly, so that time passes.
Loops == {"polling", "stuck", "replaying", "slow"}

Lesser(a, b) == IF a < b THEN a ELSE b
Greater(a, b) == IF a > b THEN a ELSE b

\* startGameLoop, and the registration of a session in its first moment.
PoseInit ==
    /\ now = 0
    /\ loop = "polling"
    /\ lastTick = 0 /\ lastFinished = 0 /\ due = FrameMs /\ blockedFrom = 0
    /\ debt = 0 /\ gameTime = 0 /\ discarded = 0
    /\ spans = {}
    /\ place = 0 /\ mode = "free" /\ poseAt = 0
    /\ poseCredit = LeadTime /\ burstCredit = 0 /\ burstAt = 0
    /\ ship = 0 /\ holding = FALSE /\ link = <<>> /\ arrived = <<>>
    /\ travelled = 0 /\ grants = 0 /\ oddities = 0 /\ heldFrom = 0 /\ honest = TRUE /\ corrected = FALSE

-----------------------------------------------------------------------------
(* The clock.                                                              *)

\* Mutant: catching up forgets the part of a frame that is left.
ConsumedWhole(owed) ==
    [frames |-> Lesser(owed, MaxDebt) \div FrameMs, rest |-> 0,
     dropped |-> owed - Lesser(owed, MaxDebt)]

\* consumeTickAccumulator: whole frames, what is left, and what is given up.
Consumed(owed) ==
    LET bounded == Lesser(owed, MaxDebt)
    IN [frames |-> bounded \div FrameMs, rest |-> bounded % FrameMs, dropped |-> owed - bounded]

\* A fresh epoch at the server's pose, with the given credit: the client adopts
\* the pose and what it sent before is stale.
Opened(how, credit) ==
    /\ mode' = how
    /\ poseAt' = now
    /\ poseCredit' = Lesser(LeadTime, credit)
    /\ burstCredit' = 0
    /\ burstAt' = now
    /\ ship' = place /\ link' = <<>> /\ arrived' = <<>>

\* Something out of the ordinary: the model bounds how often.
Unusual == oddities < MaxOddities /\ oddities' = oddities + 1

\* stepClock, up to its frames, and the step() of the session service they make.
StartTick ==
    /\ loop \in {"polling", "stuck"}
    /\ loop = "polling" => arrived = <<>>
    /\ now >= due
    /\ LET drained == Consumed(debt + (now - lastTick)) IN
         /\ debt' = drained.rest
         /\ gameTime' = gameTime + drained.frames
         /\ discarded' = discarded + drained.dropped
         /\ IF drained.frames > 0 /\ mode = "handoff" /\ now - poseAt >= HandoffTimeout
            THEN Opened("handoff", LeadTime)
            ELSE UNCHANGED <<creditVars, ship, link, arrived>>
    /\ blockedFrom' = Greater(lastFinished, due)
    /\ lastTick' = now
    /\ due' = now + FrameMs
    /\ loop' = "replaying"
    /\ UNCHANGED <<now, lastFinished, spans, place, holding, poseHistory>>

\* recordBlockedSpan: jitter of less than two frames is no blocked loop.
Recorded(from, to) ==
    IF to - from < MinSpan * FrameMs THEN spans
    ELSE {span \in spans : span.to >= to - Retention} \cup {[from |-> from, to |-> to]}

\* The rest of stepClock.
FinishTick ==
    /\ loop \in {"replaying", "slow"}
    /\ spans' = Recorded(blockedFrom, now)
    /\ lastFinished' = now
    /\ loop' = "polling"
    /\ UNCHANGED <<now, lastTick, due, blockedFrom, debt, gameTime, discarded, sessionVars,
                   flightVars, poseHistory>>

\* A collection, a slow callback, a suspended machine.
Block ==
    /\ \/ loop = "polling" /\ arrived = <<>> /\ loop' = "stuck"
       \/ loop = "replaying" /\ loop' = "slow"
    /\ Unusual
    /\ UNCHANGED <<now, lastTick, lastFinished, due, blockedFrom, debt, gameTime, discarded, spans,
                   sessionVars, flightVars, travelled, grants, heldFrom, honest, corrected>>

Unblock ==
    /\ loop = "stuck"
    /\ now < due
    /\ loop' = "polling"
    /\ UNCHANGED <<now, lastTick, lastFinished, due, blockedFrom, debt, gameTime, discarded, spans,
                   sessionVars, flightVars, poseHistory>>

-----------------------------------------------------------------------------
(* The client and its link.                                                *)

\* A unit of time passes, in which the client flies and, at the end of a frame,
\* reports.  A loop that polls runs its timer when it is due.
Pass(pace) ==
    /\ now < Horizon
    /\ loop # "replaying"
    /\ loop = "polling" => now < due /\ arrived = <<>>
    /\ now' = now + 1
    /\ ship' = ship + pace
    /\ honest' = (honest /\ pace <= 1)
    /\ IF pace = 1 THEN UNCHANGED oddities ELSE Unusual
    /\ IF now' % FrameMs # 0 THEN UNCHANGED <<link, arrived>>
       ELSE IF holding
       THEN link' = Append(link, ship') /\ UNCHANGED arrived
       ELSE arrived' = Append(arrived, ship') /\ UNCHANGED link
    /\ UNCHANGED <<clockVars, sessionVars, holding, travelled, grants, heldFrom, corrected>>

Hold ==
    /\ ~holding
    /\ Unusual
    /\ holding' = TRUE
    /\ heldFrom' = now
    /\ UNCHANGED <<now, clockVars, sessionVars, ship, link, arrived, travelled, grants, honest,
                   corrected>>

\* What a link may do to a client without costing it a correction: hold its
\* reports for less than the catch-up, at a time the loop keeps up.
Bearable ==
    /\ now - heldFrom < MaxDebt - FrameMs
    /\ loop = "polling"
    /\ \A span \in spans : span.to <= heldFrom

\* Reports that were held arrive together.
Release ==
    /\ holding
    /\ holding' = FALSE
    /\ arrived' = arrived \o link
    /\ link' = <<>>
    /\ honest' = (honest /\ Bearable)
    /\ UNCHANGED <<now, clockVars, sessionVars, ship, travelled, grants, oddities, heldFrom, corrected>>

-----------------------------------------------------------------------------
(* The session.                                                            *)

\* blockedMsBetween: the longest single span, never their sum.
BlockedBetween(from, to) ==
    Lesser(to - from,
          Max({0} \cup {Lesser(span.to, to) - Greater(span.from, from) : span \in spans}))

\* Mutant: blocked time is silence like any other.
GrantedIgnoringBlocks(elapsed, blocked) == Lesser(MaxDebt, elapsed)

\* Silence is credited up to the client's own catch-up, blocked time in full.
Granted(elapsed, blocked) == Lesser(MaxDebt, elapsed - blocked) + blocked

\* Mutant: a correction grants the lead again.
KeptWhole(credit) == LeadTime

\* "Rejected commands cannot mint more movement credit."
Kept(credit) == credit

\* acceptFreePose on the oldest report in the socket.
ReadPose ==
    /\ loop = "polling"
    /\ arrived # <<>>
    /\ LET elapsed  == now - poseAt
           blocked  == BlockedBetween(poseAt, now)
           burst    == IF now - burstAt > LeadTime THEN 0 ELSE burstCredit
           credit   == poseCredit + burst + Granted(elapsed, blocked)
           moved    == IF Head(arrived) > place THEN Head(arrived) - place ELSE place - Head(arrived)
           left     == credit - moved
           lead     == Lesser(LeadTime, left)
           reserve  == Greater(burst, MaxDebt + blocked)
           excess   == Lesser(reserve, left - lead)
       IN \/ /\ moved <= credit
             /\ mode = "handoff" => moved <= elapsed + Tolerance
             /\ poseCredit' = lead
             /\ burstCredit' = excess
             /\ burstAt' = IF burst <= 0 /\ excess > 0 THEN now ELSE burstAt
             /\ poseAt' = now
             /\ mode' = "free"
             /\ place' = Head(arrived)
             /\ travelled' = travelled + moved
             /\ arrived' = Tail(arrived)
             /\ UNCHANGED <<ship, link, corrected>>
          \/ /\ moved > credit \/ (mode = "handoff" /\ moved > elapsed + Tolerance)
             /\ Opened("handoff", Kept(credit))
             /\ corrected' = TRUE
             /\ UNCHANGED <<place, travelled>>
    /\ UNCHANGED <<now, clockVars, holding, grants, oddities, heldFrom, honest>>

\* invalidateLife and applyExternalImpulse open an epoch with the lead of a new one.
Regrant(how) ==
    /\ loop = "polling"
    /\ Unusual
    /\ grants' = grants + 1
    /\ Opened(how, LeadTime)
    /\ UNCHANGED <<now, clockVars, place, holding, travelled, heldFrom, honest, corrected>>

-----------------------------------------------------------------------------
PoseNext ==
    \/ StartTick \/ FinishTick \/ Block \/ Unblock
    \/ \E pace \in Paces : Pass(pace)
    \/ Hold \/ Release
    \/ ReadPose
    \/ \E how \in {"handoff", "free"} : Regrant(how)

PoseSpec == PoseInit /\ [][PoseNext]_poseVars

-----------------------------------------------------------------------------
(* Properties.                                                             *)

\* Type invariant of the clock, the session and the client.
PoseTypeOK ==
    /\ now \in Nat /\ loop \in Loops
    /\ lastTick \in Nat /\ lastFinished \in Nat /\ due \in Nat /\ blockedFrom \in Nat
    /\ debt \in Nat /\ gameTime \in Nat /\ discarded \in Nat
    /\ spans \subseteq [from : Nat, to : Nat]
    /\ place \in Nat /\ mode \in {"free", "handoff"}
    /\ poseAt \in 0 .. now /\ burstAt \in Nat
    /\ poseCredit \in 0 .. LeadTime /\ burstCredit \in Nat
    /\ ship \in Nat /\ holding \in BOOLEAN /\ link \in Seq(Nat) /\ arrived \in Seq(Nat)
    /\ travelled \in Nat /\ grants \in Nat /\ oddities \in Nat /\ heldFrom \in Nat
    /\ honest \in BOOLEAN /\ corrected \in BOOLEAN

\* "Displacement is still bounded by server-time credit": however reports are
\* held, released and rejected, and however long the loop is blocked, a session
\* never travels further than the fastest flight in the time it has existed, and
\* one lead per epoch the server opened on its own account.
TravelWithinServerTime == travelled <= now + LeadTime * (1 + grants)

\* A pilot who flies legally over a bearable link is never corrected, however
\* long the loop is blocked and however slowly it catches up.
LegalFlightIsAccepted == honest => ~corrected

\* Every moment between two ticks is simulated, owed or reported as discarded,
\* and what is owed stays below a frame.
TimeIsAccounted == gameTime * FrameMs + debt + discarded = lastTick /\ debt < FrameMs

\* The clock's marks and the spans of blocked time are in the past, and what a session
\* has travelled and may still travel on credit is paid for by the time of its last pose.
PoseInv ==
    /\ PoseTypeOK
    /\ TimeIsAccounted
    /\ lastTick <= now /\ lastFinished <= now
    /\ loop \in {"replaying", "slow"} => blockedFrom <= now
    /\ \A span \in spans : span.from <= span.to /\ span.to <= now
    /\ travelled + poseCredit + burstCredit <= poseAt + LeadTime * (1 + grants)
=============================================================================
