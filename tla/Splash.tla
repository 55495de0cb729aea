-------------------------------- MODULE Splash --------------------------------
(***************************************************************************)
(* The fullscreen window that locks a rig's desktop (sled/splash.py), the  *)
(* orchestrator's mode and status of the rig it polls                      *)
(* (orchestrator/routers/rigs.py), and the player who unlocks it locally.  *)
(*                                                                         *)
(* Every poll runs in a thread of its own and polls overlap; the window is *)
(* drawn by the Tk thread, which runs the callbacks the polls queue, key   *)
(* presses and timers one at a time.  A poll thread is cut where it waits  *)
(* for the network, writes a log line or hands a callback to Tk, which it  *)
(* waits for: what one poll wrote first, it may queue last.                *)
(***************************************************************************)
EXTENDS Integers, Sequences

CONSTANTS
  Polls,       \* bound: the polls under way at the same time
  Statuses,    \* the statuses the orchestrator may give the rig
  MaxHides,    \* bound: delayed hides pending at the same time
  MaxPending   \* bound: callbacks queued when the next poll starts

Modes == {"lockout", "freeuse"}
ASSUME SplashAssumption ==
  /\ {"idle", "racing"} \subseteq Statuses
  /\ Statuses \subseteq {"idle", "setup", "ready", "syncing", "racing"}
  /\ MaxHides \in Nat \ {0} /\ MaxPending \in Nat

VARIABLES
  rig_mode, rig_status,  \* the orchestrator's record of the rig
  report,            \* attempts left to report a local unlock
  polls,             \* the poll threads
  current_mode, current_status, locally_unlocked, hide_scheduled,
  callbacks,         \* after(0, ...) callbacks the Tk thread has to run
  hides,             \* after(1500, _hide_for_racing) pending
  visible,           \* the window
  applied_mode,      \* history: the mode Tk has last applied
  by_status          \* history: a status has shown the window, and a race is due

recordVars == <<rig_mode, rig_status>>
readVars == <<current_mode, current_status, locally_unlocked>>
windowVars == <<visible, by_status>>
vars == <<recordVars, report, polls, readVars, hide_scheduled, callbacks, hides,
          windowVars, applied_mode>>

NoPoll == [at |-> "none"]
PollStates ==
  {NoPoll}
    \cup [at : {"mode", "clear_flag", "write_mode", "queue_mode"},
          mode : Modes, status : Statuses]
    \cup [at : {"status", "write_status", "queue_status"}, status : Statuses]
Callbacks == [set : {"mode"}, to : Modes] \cup [set : {"status"}, to : Statuses]

TypeOK ==
  /\ rig_mode \in Modes /\ rig_status \in Statuses
  /\ report \in 0..2
  /\ polls \in [Polls -> PollStates]
  /\ current_mode \in Modes /\ current_status \in Statuses
  /\ locally_unlocked \in BOOLEAN /\ hide_scheduled \in BOOLEAN
  /\ callbacks \in Seq(Callbacks)
  /\ hides \in 0..MaxHides
  /\ visible \in BOOLEAN /\ applied_mode \in Modes
  /\ by_status \in {"no", "shown", "due"}

Init ==
  /\ rig_mode = "lockout" /\ rig_status = "idle"
  /\ report = 0
  /\ polls = [p \in Polls |-> NoPoll]
  /\ current_mode = "lockout" /\ current_status = "idle"
  /\ locally_unlocked = FALSE /\ hide_scheduled = FALSE
  /\ callbacks = <<>> /\ hides = 0
  /\ visible = TRUE
  /\ applied_mode = "lockout" /\ by_status = "no"
------------------------------------------------------------------------------
(***************************************************************************)
(* The orchestrator.                                                       *)
(***************************************************************************)
\* The dashboard's lock button.
AdminSetsMode(m) ==
  /\ rig_mode' = m
  /\ UNCHANGED <<rig_status, report, polls, readVars, hide_scheduled, callbacks,
                 hides, windowVars, applied_mode>>

\* Commands and heartbeats.
StatusChanges(s) ==
  /\ rig_status' = s
  /\ UNCHANGED <<rig_mode, report, polls, readVars, hide_scheduled, callbacks,
                 hides, windowVars, applied_mode>>

\* The reaper or a restart forgets the rig, until it registers again.  The
\* answer in between, locked and "unknown", is to the window the same as idle.
RigForgotten ==
  /\ rig_mode' = "lockout" /\ rig_status' = "idle"
  /\ UNCHANGED <<report, polls, readVars, hide_scheduled, callbacks, hides,
                 windowVars, applied_mode>>

\* Faulty variant: attempts are not counted.
ReportForEver ==
  /\ rig_mode' \in {rig_mode, "freeuse"}
  /\ report' \in {0, report - 1}
  /\ UNCHANGED <<rig_status, polls, readVars, hide_scheduled, callbacks, hides,
                 windowVars, applied_mode>>
\* An attempt to report the unlock: it arrives or not, and is repeated once
\* if no answer comes back.
ReportAttempt ==
  /\ report > 0
  /\ rig_mode' \in {rig_mode, "freeuse"}
  /\ report' \in {0, report - 1}
  /\ UNCHANGED <<rig_status, polls, readVars, hide_scheduled, callbacks, hides,
                 windowVars, applied_mode>>
------------------------------------------------------------------------------
(***************************************************************************)
(* A poll, from its thread's start to the callbacks it queues.             *)
(***************************************************************************)
\* A poll goes out and the orchestrator reads the record for its answer, which
\* takes its time to come.  A poll that fails leaves no trace.
PollAnswered(p) ==
  /\ polls[p] = NoPoll /\ Len(callbacks) <= MaxPending
  /\ polls' = [polls EXCEPT ![p] =
                 [at |-> "mode", mode |-> rig_mode, status |-> rig_status]]
  /\ UNCHANGED <<recordVars, report, readVars, hide_scheduled, callbacks, hides,
                 windowVars, applied_mode>>

ToStatus(poll) == [at |-> "status", status |-> poll.status]

\* Faulty variant: an unlocked rig takes no mode at all.
AcceptsWhenNotUnlocked(m) == m # current_mode /\ ~locally_unlocked
\* An unlocked rig takes only a lockout.
Accepts(m) == m # current_mode /\ (locally_unlocked => m = "lockout")

CompareMode(p) ==
  /\ polls[p].at = "mode"
  /\ polls' = [polls EXCEPT ![p] =
                 IF ~Accepts(@.mode) THEN ToStatus(@)
                 ELSE [@ EXCEPT !.at = IF locally_unlocked THEN "clear_flag"
                                                           ELSE "write_mode"]]
  /\ UNCHANGED <<recordVars, report, readVars, hide_scheduled, callbacks, hides,
                 windowVars, applied_mode>>

ClearUnlocked(p) ==
  /\ polls[p].at = "clear_flag"
  /\ locally_unlocked' = FALSE
  /\ polls' = [polls EXCEPT ![p].at = "write_mode"]
  /\ UNCHANGED <<recordVars, report, current_mode, current_status, hide_scheduled,
                 callbacks, hides, windowVars, applied_mode>>

WriteMode(p) ==
  /\ polls[p].at = "write_mode"
  /\ current_mode' = polls[p].mode
  /\ polls' = [polls EXCEPT ![p].at = "queue_mode"]
  /\ UNCHANGED <<recordVars, report, current_status, locally_unlocked,
                 hide_scheduled, callbacks, hides, windowVars, applied_mode>>

QueueMode(p) ==
  /\ polls[p].at = "queue_mode"
  /\ callbacks' = Append(callbacks, [set |-> "mode", to |-> polls[p].mode])
  /\ polls' = [polls EXCEPT ![p] = ToStatus(@)]
  /\ UNCHANGED <<recordVars, report, readVars, hide_scheduled, hides, windowVars,
                 applied_mode>>

CompareStatus(p) ==
  /\ polls[p].at = "status"
  /\ polls' = [polls EXCEPT ![p] =
                 IF polls[p].status # current_status
                   THEN [@ EXCEPT !.at = "write_status"] ELSE NoPoll]
  /\ UNCHANGED <<recordVars, report, readVars, hide_scheduled, callbacks, hides,
                 windowVars, applied_mode>>

WriteStatus(p) ==
  /\ polls[p].at = "write_status"
  /\ current_status' = polls[p].status
  /\ polls' = [polls EXCEPT ![p].at = "queue_status"]
  /\ UNCHANGED <<recordVars, report, current_mode, locally_unlocked,
                 hide_scheduled, callbacks, hides, windowVars, applied_mode>>

QueueStatus(p) ==
  /\ polls[p].at = "queue_status"
  /\ callbacks' = Append(callbacks, [set |-> "status", to |-> polls[p].status])
  /\ polls' = [polls EXCEPT ![p] = NoPoll]
  /\ UNCHANGED <<recordVars, report, readVars, hide_scheduled, hides, windowVars,
                 applied_mode>>
------------------------------------------------------------------------------
(***************************************************************************)
(* The Tk thread.                                                          *)
(***************************************************************************)
Hide == visible' = FALSE /\ by_status' = "no"
Restore(by) == visible' = TRUE /\ by_status' = by

Applying(what) ==
  /\ callbacks # <<>> /\ Head(callbacks).set = what
  /\ callbacks' = Tail(callbacks)

ApplyMode ==
  /\ Applying("mode")
  /\ IF Head(callbacks).to = "freeuse" THEN Hide ELSE Restore("no")
  /\ applied_mode' = Head(callbacks).to
  /\ UNCHANGED <<recordVars, report, polls, readVars, hide_scheduled, hides>>

\* Racing hides the window 1.5 s later, unless that is already due.
ApplyRacing ==
  /\ Applying("status") /\ Head(callbacks).to = "racing"
  /\ hides < MaxHides
  /\ hides' = IF hide_scheduled THEN hides ELSE hides + 1
  /\ hide_scheduled' = TRUE
  /\ by_status' = IF by_status = "no" THEN "no" ELSE "due"
  /\ UNCHANGED <<recordVars, report, polls, readVars, visible, applied_mode>>

\* Faulty variant: nothing takes back that a hide is due.
StillScheduled == hide_scheduled
\* Any other status takes it back.
Scheduled == FALSE

\* The statuses that show the window of a locked rig; a sync is not one.
ShownWhen == {"idle", "setup", "ready"}

ApplyOther ==
  /\ Applying("status") /\ Head(callbacks).to # "racing"
  /\ hide_scheduled' = Scheduled
  /\ IF current_mode = "lockout" /\ Head(callbacks).to \in ShownWhen
       THEN Restore("shown")
       ELSE /\ by_status' = IF by_status = "due" THEN "shown" ELSE by_status
            /\ UNCHANGED visible
  /\ UNCHANGED <<recordVars, report, polls, readVars, hides, applied_mode>>

\* Faulty variant: hides whatever the status has become.
HideAnyway ==
  /\ hides > 0 /\ hides' = hides - 1
  /\ Hide /\ UNCHANGED hide_scheduled
  /\ UNCHANGED <<recordVars, report, polls, readVars, callbacks, applied_mode>>
HideForRacing ==
  /\ hides > 0 /\ hides' = hides - 1
  /\ IF current_status = "racing"
       THEN Hide /\ UNCHANGED hide_scheduled
       ELSE hide_scheduled' = FALSE /\ UNCHANGED windowVars
  /\ UNCHANGED <<recordVars, report, polls, readVars, callbacks, applied_mode>>

\* Escape five times, five clicks into the corner, or a hotkey.  Bound: no
\* second unlock while the first is still being reported.
EnterUnlockedMode ==
  /\ visible /\ report = 0
  /\ current_mode' = "freeuse" /\ locally_unlocked' = TRUE
  /\ Hide
  /\ report' = 2
  /\ UNCHANGED <<recordVars, polls, current_status, hide_scheduled, callbacks,
                 hides, applied_mode>>

Orchestrator ==
  \/ \E m \in Modes \ {rig_mode} : AdminSetsMode(m)
  \/ \E s \in Statuses \ {rig_status} : StatusChanges(s)
  \/ RigForgotten \/ ReportAttempt
PollThread(p) ==
  \/ CompareMode(p) \/ ClearUnlocked(p) \/ WriteMode(p) \/ QueueMode(p)
  \/ CompareStatus(p) \/ WriteStatus(p) \/ QueueStatus(p)
TkThread == ApplyMode \/ ApplyRacing \/ ApplyOther

Next ==
  \/ Orchestrator \/ TkThread \/ HideForRacing \/ EnterUnlockedMode
  \/ \E p \in Polls : PollAnswered(p) \/ PollThread(p)

Spec == Init /\ [][Next]_vars

\* Tk runs its callbacks and timers, threads go on, and not every poll fails.
Fairness ==
  /\ WF_vars(TkThread \/ HideForRacing)
  /\ SF_vars(\E p \in Polls : PollAnswered(p))
  /\ \A p \in Polls : WF_vars(PollThread(p))
FairSpec == Spec /\ Fairness
------------------------------------------------------------------------------
(***************************************************************************)
(* Properties.                                                             *)
(***************************************************************************)
\* Tk has nothing left to do, and no poll is about to hand it anything.
Settled ==
  /\ callbacks = <<>> /\ hides = 0
  /\ \A p \in Polls : polls[p].at \notin {"queue_mode", "queue_status"}

\* Two polls have queued a freeuse and a lockout in the order opposite to the
\* one they wrote them in: Tk applied the freeuse last.
Crossed == Settled /\ current_mode = "lockout" /\ applied_mode = "freeuse"

\* However stale answers, unlocks and delayed hides are mixed, and in whatever
\* order two polls queue a race and its end: once nothing is pending, the
\* desktop of a locked rig is covered unless a race, or a sync that followed
\* one, is on.  Only a crossed freeuse leaves it open (splash.py:549-629).
LockedIsCovered ==
  (/\ Settled /\ ~Crossed
   /\ current_mode = "lockout" /\ current_status \in {"idle", "setup", "ready"})
    => visible

\* The hide of a race is never lost, whatever delayed hides were skipped and
\* in whatever order polls write and queue: once nothing is pending, a window
\* that an earlier status has shown is not over a race that was applied after
\* it (splash.py:565-610).  A status that another poll queues behind the race
\* it wrote before does stay over it; the order is all that tells them apart.
RaceIsUncovered ==
  Settled /\ current_status = "racing" => by_status # "due"

\* A rig the admin locks gets locked, and shows its window again if it is
\* idle, whatever stale answers arrive, whatever the player unlocked, whatever
\* race hid it and whenever that ended, unless the admin or the unlock's report
\* changes the mode again, or a freeuse is applied across the lockout: no
\* later poll differs then (splash.py:519-539, 589-597).
LockoutTakesHold ==
  rig_mode = "lockout"
    ~> \/ rig_mode # "lockout"
       \/ current_mode = "lockout" /\ (visible \/ Crossed \/ rig_status # "idle")
==============================================================================
