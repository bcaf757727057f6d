-------------------------------- MODULE Idle --------------------------------
(***************************************************************************)
(* The two idle detectors of a session: idle.UserProcessor, a processor    *)
(* whose timer calls back when the user has been silent, and               *)
(* observe.IdleFrameObserver, a watchdog goroutine over the frames that    *)
(* are pushed anywhere in the pipeline (processors/idle/user_idle.go,      *)
(* observe/idle.go).                                                       *)
(*                                                                         *)
(* Time is counted in ticks and passes only when no timer is due and no    *)
(* goroutine has anything to do: goroutines are fast, timers exact.  What  *)
(* happens at one instant happens in any order.                            *)
(***************************************************************************)
EXTENDS InboxOps

CONSTANTS
  Timeout,   \* of both detectors
  LastTick,  \* end of the clock
  Frequency, \* frames that may be pushed at one instant
  Position   \* where the processor is: "behind" the processors that emit
             \* the user's and the bot's frames, or "first" in the pipeline

VARIABLES
  now,        \* the clock
  busy,       \* frames pushed at this instant
  userInbox,  \* the inbox of the UserProcessor
  timers,     \* deadlines of its timers that run
  firing,     \* timers that have run out and wait to queue fireFrame
  retryCount,
  begun,      \* its started flag
  watch,      \* the goroutine of the observer: "new", "runs", "done"
  watchTimer, \* deadline of its timer
  resetC,     \* its channel of one place is full
  lastActive, \* history: last activity of the user, or of the bot towards him
  lastSeen,   \* history: last activity the UserProcessor has taken
  lastReset,  \* history: last frame of a reset kind, seen by the observer
  drained,    \* history: an Interruption dropped the last fireFrame
  givenUp     \* history: the callback said to stop monitoring

userState == <<timers, retryCount, begun, givenUp>>
watchVars == <<watch, watchTimer, resetC, lastReset>>
vars == <<now, busy, userInbox, firing, userState, watchVars, lastActive, lastSeen, drained>>

Never == -Timeout

Item(kind) == [kind |-> kind, dir |-> "down", ctrl |-> "none"]

Asleep ==
  /\ now = 0 /\ busy = 0 /\ userInbox = EmptyInbox /\ timers = {} /\ firing = 0
  /\ retryCount = 0 /\ begun = FALSE /\ watch = "new" /\ watchTimer = 0 /\ resetC = FALSE
  /\ lastActive = Never /\ lastSeen = Never /\ lastReset = 0
  /\ drained = FALSE /\ givenUp = FALSE

Init == Asleep

-----------------------------------------------------------------------------
(* Frames *)

(* UserStartedSpeaking, Transcription and BotStoppedSpeaking come from      *)
(* processors further down, which emit them downstream: the UserProcessor   *)
(* takes them if it is behind those.                                        *)
ActivityKinds == {"UserStartedSpeaking", "Transcription", "BotStoppedSpeaking"}

(* DefaultIdleResetKinds *)
ResetKinds == {"BotSpeaking", "UserStartedSpeaking", "BotStartedSpeaking"}

Reaches(kind) == kind \in {"Start", "Interruption"} \/ Position = "behind"

(* OnFrame: a send that does not wait. *)
OnFrame(kind) ==
  /\ resetC' = (resetC \/ kind \in ResetKinds)
  /\ lastReset' = IF kind \in ResetKinds THEN now ELSE lastReset

FramePushed(kind) ==
  /\ busy < Frequency /\ busy' = busy + 1
  /\ ~Reaches(kind) \/ ~Blocks(userInbox, Item(kind))
  /\ userInbox' = IF Reaches(kind) THEN Enqueue(userInbox, Item(kind)) ELSE userInbox
  /\ OnFrame(kind)
  /\ lastActive' = IF kind \in ActivityKinds \cup {"Start"} THEN now ELSE lastActive
  /\ UNCHANGED <<now, firing, userState, watch, watchTimer, lastSeen, drained>>

-----------------------------------------------------------------------------
(* UserProcessor *)

ArmTimer_KeepsOld == timers' = timers \cup {now + Timeout}

(* armTimer stops the timer that runs and starts another. *)
ArmTimer == timers' = {now + Timeout}

(* A timer runs out; its goroutine then queues fireFrame to the processor   *)
(* itself (QueueSelf), which waits for room in the data lane.               *)
TimerFires ==
  \E deadline \in timers :
    /\ now >= deadline
    /\ timers' = timers \ {deadline}
    /\ firing' = firing + 1
    /\ UNCHANGED <<now, busy, userInbox, retryCount, begun, givenUp, watchVars,
                   lastActive, lastSeen, drained>>

QueueSelf ==
  /\ firing > 0 /\ ~Blocks(userInbox, Item("UserIdleFire"))
  /\ userInbox' = Enqueue(userInbox, Item("UserIdleFire"))
  /\ firing' = firing - 1
  /\ UNCHANGED <<now, busy, userState, watchVars, lastActive, lastSeen, drained>>

Fire_NeverRearms ==
  \E goOn \in BOOLEAN :
    /\ retryCount' = IF goOn THEN retryCount + 1 ELSE 0
    /\ givenUp' = ~goOn
    /\ drained' = (drained /\ ~goOn)
    /\ UNCHANGED timers

(* The callback decides whether monitoring goes on. *)
Fire ==
  \E goOn \in BOOLEAN :
    /\ retryCount' = IF goOn THEN retryCount + 1 ELSE 0
    /\ givenUp' = ~goOn
    /\ drained' = (drained /\ ~goOn)
    /\ IF goOn THEN ArmTimer ELSE UNCHANGED timers

UserTakes(kinds) == ~IsEmpty(userInbox) /\ Front(userInbox).kind \in kinds

TakesOnly ==
  /\ userInbox' = PopFront(userInbox)
  /\ UNCHANGED <<now, busy, firing, watchVars, lastActive>>

UserFire ==
  /\ UserTakes({"UserIdleFire"})
  /\ Fire /\ TakesOnly
  /\ UNCHANGED <<begun, lastSeen>>

UserStart ==
  /\ UserTakes({"Start"})
  /\ begun' = TRUE
  /\ ArmTimer /\ givenUp' = FALSE /\ drained' = FALSE
  /\ lastSeen' = now
  /\ TakesOnly
  /\ UNCHANGED retryCount

UserActivity ==
  /\ UserTakes(ActivityKinds)
  /\ IF begun
     THEN /\ retryCount' = 0 /\ ArmTimer /\ givenUp' = FALSE /\ drained' = FALSE
          /\ lastSeen' = now
     ELSE UNCHANGED <<userState, drained, lastSeen>>
  /\ TakesOnly /\ UNCHANGED begun

UserOther ==
  /\ UserTakes({"BotSpeaking", "BotStartedSpeaking"})
  /\ TakesOnly /\ UNCHANGED <<userState, drained, lastSeen>>

(* An Interruption drains the inbox first, a fireFrame included. *)
UserInterrupted ==
  /\ UserTakes({"Interruption"})
  /\ userInbox' = DrainInterruptible(PopFront(userInbox))
  /\ drained' = (drained \/ \E k \in DOMAIN userInbox.down :
                               userInbox.down[k].kind = "UserIdleFire")
  /\ UNCHANGED <<now, busy, firing, userState, watchVars, lastActive, lastSeen>>

UserStep == TimerFires \/ QueueSelf \/ UserFire \/ UserStart \/ UserActivity
            \/ UserOther \/ UserInterrupted

-----------------------------------------------------------------------------
(* IdleFrameObserver: select takes any case that is ready. *)

WatchOnly == UNCHANGED <<now, busy, userInbox, firing, userState, lastActive, lastSeen,
                         lastReset, drained>>

WatchStart ==
  /\ watch = "new" /\ watch' = "runs"
  /\ watchTimer' = now + Timeout
  /\ UNCHANGED resetC /\ WatchOnly

WatchReset_KeepsTimer ==
  /\ watch = "runs" /\ resetC /\ resetC' = FALSE
  /\ UNCHANGED <<watch, watchTimer>> /\ WatchOnly

WatchReset ==
  /\ watch = "runs" /\ resetC /\ resetC' = FALSE
  /\ watchTimer' = now + Timeout
  /\ UNCHANGED watch /\ WatchOnly

OnIdle ==
  /\ watch = "runs" /\ now >= watchTimer
  /\ watch' = "done"
  /\ UNCHANGED <<watchTimer, resetC>> /\ WatchOnly

(* Stop, when the task has ended. *)
WatchStop ==
  /\ watch = "runs" /\ watch' = "done"
  /\ UNCHANGED <<watchTimer, resetC>> /\ WatchOnly

WatchStep == WatchStart \/ WatchReset \/ OnIdle

-----------------------------------------------------------------------------
NothingDue ==
  /\ IsEmpty(userInbox) /\ firing = 0 /\ \A deadline \in timers : now < deadline
  /\ watch = "runs" => ~resetC /\ now < watchTimer

Tick ==
  /\ now < LastTick /\ NothingDue
  /\ now' = now + 1 /\ busy' = 0
  /\ UNCHANGED <<userInbox, firing, userState, watchVars, lastActive, lastSeen, drained>>

Next ==
  \/ \E kind \in ActivityKinds \cup ResetKinds \cup {"Start", "Interruption"} :
       FramePushed(kind)
  \/ UserStep \/ WatchStep \/ WatchStop
  \/ Tick

Spec == Init /\ [][Next]_vars

-----------------------------------------------------------------------------
(* Neither detector fires early.  The callback of the UserProcessor comes   *)
(* only after a full Timeout without an activity frame that the processor   *)
(* has taken, or at the instant of such a frame, if it overtook a fireFrame *)
(* that was queued already (user_idle.go:58); the watchdog gives up only    *)
(* after a full Timeout without a reset frame, or at an instant at which a  *)
(* reset waits that select did not choose (observe/idle.go:54-71).          *)
NeitherFiresEarly ==
  [][/\ UserFire => now - lastSeen >= Timeout \/ lastSeen = now
     /\ OnIdle => resetC \/ now - lastReset >= Timeout]_vars

(* Monitoring goes on: while the callback has not said otherwise, a timer   *)
(* runs or a fireFrame is under way, unless an Interruption has dropped the *)
(* last one (user_idle.go:82-84, runtime.go:504).                           *)
MonitoringGoesOn ==
  begun /\ ~givenUp /\ ~drained =>
    \/ timers # {} \/ firing > 0
    \/ \E k \in DOMAIN userInbox.down : userInbox.down[k].kind = "UserIdleFire"

(* user_idle.go:14: the callback is invoked "when the user has been silent  *)
(* for Timeout after conversation activity".                                *)
UserWasSilent ==
  [][UserFire => now - lastActive >= Timeout \/ lastActive = now]_vars
=============================================================================
