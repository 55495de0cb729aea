----------------------------- MODULE SplashProofs -----------------------------
(***************************************************************************)
(* What the lock window guarantees for any number of polls in flight, of   *)
(* statuses, of pending hides and of queued callbacks: a locked desktop is *)
(* covered and a race uncovered as soon as Tk has nothing left to do, in   *)
(* whatever order the polls hand it what they have written.                *)
(***************************************************************************)
EXTENDS Splash, TLAPS

\* Callbacks that show the window of a locked rig.
Covers(c) ==
  \/ c.set = "mode" /\ c.to = "lockout"
  \/ c.set = "status" /\ c.to \in ShownWhen

\* A callback a poll has written the value of and is about to queue.
InHand(ps, c) ==
  \E p \in Polls :
    \/ ps[p].at = "queue_mode" /\ c = [set |-> "mode", to |-> ps[p].mode]
    \/ ps[p].at = "queue_status" /\ c = [set |-> "status", to |-> ps[p].status]
Queued(q, c) == \E i \in 1..Len(q) : q[i] = c
Pending(q, ps, c) == Queued(q, c) \/ InHand(ps, c)

RaceCall == [set |-> "status", to |-> "racing"]

\* The window of a locked rig is shown, or what shows it is still to come,
\* in no particular order, or a crossed freeuse has taken it away.
CoverInv ==
  current_mode = "lockout" /\ current_status \in ShownWhen =>
    \/ visible \/ applied_mode = "freeuse"
    \/ \E c \in Callbacks : Covers(c) /\ Pending(callbacks, polls, c)

\* While a status shows the window, a hide that is noted as due is due; and it
\* is noted if a race came later, unless another race is still to come.
HideInv ==
  /\ by_status # "no" /\ hide_scheduled => hides > 0
  /\ current_status = "racing" /\ by_status = "due" =>
       hide_scheduled \/ Pending(callbacks, polls, RaceCall)

IInv == TypeOK /\ CoverInv /\ HideInv
------------------------------------------------------------------------------
(***************************************************************************)
(* What is pending.                                                        *)
(***************************************************************************)
\* Queueing adds a callback behind the others.
LEMMA AppendQueued ==
  ASSUME NEW S, NEW q \in Seq(S), NEW c \in S
  PROVE  /\ Append(q, c) \in Seq(S)
         /\ Queued(Append(q, c), c)
         /\ \A d : Queued(q, d) => Queued(Append(q, c), d)
<1>1. /\ Append(q, c) \in Seq(S)
      /\ Len(Append(q, c)) = Len(q) + 1 /\ Len(q) \in Nat
      /\ Append(q, c)[Len(q) + 1] = c
      /\ \A j \in 1..Len(q) : Append(q, c)[j] = q[j]
  OBVIOUS
<1> QED
  BY <1>1 DEF Queued

\* What is queued is the head or stays queued behind it.
LEMMA TailQueued ==
  ASSUME NEW S, NEW q \in Seq(S), q # <<>>
  PROVE  /\ Tail(q) \in Seq(S) /\ Head(q) \in S
         /\ \A d : Queued(q, d) => d = Head(q) \/ Queued(Tail(q), d)
<1> DEFINE rest == Tail(q)
<1>1. /\ rest \in Seq(S) /\ Head(q) \in S /\ Head(q) = q[1]
      /\ Len(rest) = Len(q) - 1 /\ Len(q) \in Nat \ {0}
      /\ \A j \in 1..(Len(q) - 1) : rest[j] = q[j + 1]
  OBVIOUS
<1> HIDE DEF rest
<1>2. ASSUME NEW d, NEW i \in 1..Len(q), q[i] = d, d # Head(q)
      PROVE  Queued(rest, d)
  <2>1. i - 1 \in 1..(Len(q) - 1) /\ i - 1 \in 1..Len(rest) /\ (i - 1) + 1 = i
    BY <1>1, <1>2
  <2>2. rest[i - 1] = d
    BY <1>1, <1>2, <2>1
  <2> QED
    BY <2>1, <2>2 DEF Queued
<1>3. \A d : Queued(q, d) => d = Head(q) \/ Queued(rest, d)
  BY <1>2 DEF Queued
<1> QED
  BY <1>1, <1>3 DEF rest

\* A step of one poll leaves in the others' hands what they hold.
LEMMA OthersKeep ==
  ASSUME TypeOK, NEW p \in Polls, NEW next, polls' = [polls EXCEPT ![p] = next],
         NEW c, InHand(polls, c),
         polls[p].at = "queue_mode" => c # [set |-> "mode", to |-> polls[p].mode],
         polls[p].at = "queue_status" => c # [set |-> "status", to |-> polls[p].status]
  PROVE  InHand(polls', c)
<1>1. PICK q \in Polls :
        \/ polls[q].at = "queue_mode" /\ c = [set |-> "mode", to |-> polls[q].mode]
        \/ polls[q].at = "queue_status" /\ c = [set |-> "status", to |-> polls[q].status]
  BY DEF InHand
<1>2. q # p /\ polls'[q] = polls[q]
  BY <1>1 DEF TypeOK
<1> QED
  BY <1>1, <1>2 DEF InHand

\* The poll under way in each step of its thread.
ModePolls == [at : {"mode", "clear_flag", "write_mode", "queue_mode"},
              mode : Modes, status : Statuses]
StatusPolls == [at : {"status", "write_status", "queue_status"}, status : Statuses]

LEMMA PollForm ==
  ASSUME TypeOK, NEW p \in Polls
  PROVE  /\ polls[p].at \in {"mode", "clear_flag", "write_mode", "queue_mode"} =>
              polls[p] \in ModePolls /\ ToStatus(polls[p]) \in StatusPolls
         /\ polls[p].at \in {"status", "write_status", "queue_status"} =>
              polls[p] \in StatusPolls
         /\ NoPoll \in PollStates /\ ModePolls \subseteq PollStates
         /\ StatusPolls \subseteq PollStates
BY DEF TypeOK, PollStates, NoPoll, ToStatus, ModePolls, StatusPolls

\* A step of a poll's thread, whatever it writes besides.
LEMMA PollsType ==
  ASSUME TypeOK, NEW p \in Polls, NEW next \in PollStates,
         polls' = [polls EXCEPT ![p] = next]
  PROVE  polls' \in [Polls -> PollStates] /\ polls'[p] = next
BY DEF TypeOK
------------------------------------------------------------------------------
(***************************************************************************)
(* The invariant.                                                          *)
(***************************************************************************)
LEMMA InitInv == SplashAssumption /\ Init => IInv
<1> SUFFICES ASSUME SplashAssumption, Init PROVE IInv
  OBVIOUS
<1>1. TypeOK
  <2>1. /\ rig_mode \in Modes /\ rig_status \in Statuses
        /\ current_mode \in Modes /\ current_status \in Statuses
        /\ applied_mode \in Modes
    BY DEF SplashAssumption, Modes, Init
  <2>2. polls \in [Polls -> PollStates] /\ callbacks \in Seq(Callbacks)
    BY DEF PollStates, Init
  <2>3. report \in 0..2 /\ hides \in 0..MaxHides
    BY DEF SplashAssumption, Init
  <2> QED
    BY <2>1, <2>2, <2>3, Zenon DEF TypeOK, Init
<1> QED
  BY <1>1 DEF IInv, CoverInv, HideInv, Init

\* Steps of the orchestrator and most of a poll touch neither the window nor
\* what it is drawn from, nor what is pending.
LEMMA ElsewhereInv ==
  ASSUME IInv, TypeOK',
         UNCHANGED <<current_mode, current_status, hide_scheduled, callbacks,
                     hides, windowVars, applied_mode>>,
         \A c : InHand(polls, c) => InHand(polls', c)
  PROVE  IInv'
<1>1. \A c : Pending(callbacks, polls, c) => Pending(callbacks', polls', c)
  BY DEF Pending
<1> QED
  BY <1>1 DEF IInv, CoverInv, HideInv, windowVars

LEMMA OrchestratorInv == ASSUME SplashAssumption, IInv, Orchestrator PROVE IInv'
<1>1. TypeOK' /\ polls' = polls
  BY DEF IInv, TypeOK, Orchestrator, AdminSetsMode, StatusChanges, RigForgotten,
     ReportAttempt, recordVars, readVars, windowVars, SplashAssumption, Modes
<1> QED
  BY <1>1, ElsewhereInv DEF Orchestrator, AdminSetsMode, StatusChanges,
     RigForgotten, ReportAttempt, readVars

\* The steps of a poll that write nothing the window is drawn from.
LEMMA PollReadsInv ==
  ASSUME IInv, NEW p \in Polls,
         PollAnswered(p) \/ CompareMode(p) \/ ClearUnlocked(p) \/ CompareStatus(p)
  PROVE  IInv'
<1>1. PICK next \in PollStates : polls' = [polls EXCEPT ![p] = next]
  <2>1. CASE PollAnswered(p)
    <3>1. [at |-> "mode", mode |-> rig_mode, status |-> rig_status] \in PollStates
      BY DEF IInv, TypeOK, PollStates
    <3> QED
      BY <2>1, <3>1 DEF PollAnswered
  <2>2. CASE CompareMode(p)
    <3>1. polls[p] \in ModePolls /\ ToStatus(polls[p]) \in PollStates
          /\ ModePolls \subseteq PollStates
      BY <2>2, PollForm DEF CompareMode, IInv
    <3>2. \A s \in {"clear_flag", "write_mode"} : [polls[p] EXCEPT !.at = s] \in ModePolls
      BY <3>1 DEF ModePolls
    <3> QED
      BY <2>2, <3>1, <3>2 DEF CompareMode
  <2>3. CASE ClearUnlocked(p)
    <3>1. polls[p] \in ModePolls /\ ModePolls \subseteq PollStates
      BY <2>3, PollForm DEF ClearUnlocked, IInv
    <3>2. [polls[p] EXCEPT !.at = "write_mode"] \in ModePolls
      BY <3>1 DEF ModePolls
    <3> QED
      BY <2>3, <3>1, <3>2 DEF ClearUnlocked
  <2>4. CASE CompareStatus(p)
    <3>1. polls[p] \in StatusPolls /\ NoPoll \in PollStates
          /\ StatusPolls \subseteq PollStates
      BY <2>4, PollForm DEF CompareStatus, IInv
    <3>2. [polls[p] EXCEPT !.at = "write_status"] \in StatusPolls
      BY <3>1 DEF StatusPolls
    <3> QED
      BY <2>4, <3>1, <3>2 DEF CompareStatus
  <2> QED
    BY <2>1, <2>2, <2>3, <2>4
<1>2. polls[p].at \notin {"queue_mode", "queue_status"}
  BY DEF PollAnswered, CompareMode, ClearUnlocked, CompareStatus, NoPoll
<1>3. \A c : InHand(polls, c) => InHand(polls', c)
  BY <1>1, <1>2, OthersKeep DEF IInv
<1>4. /\ UNCHANGED <<recordVars, report, current_mode, current_status,
                     hide_scheduled, callbacks, hides, windowVars, applied_mode>>
      /\ locally_unlocked' \in BOOLEAN
  BY DEF PollAnswered, CompareMode, ClearUnlocked, CompareStatus, IInv, TypeOK,
     readVars
<1>5. TypeOK'
  BY <1>1, <1>4, PollsType DEF IInv, TypeOK, recordVars, windowVars
<1> QED
  BY <1>3, <1>4, <1>5, ElsewhereInv

\* A lockout that is written is in hand, to show the window.
LEMMA WriteModeInv ==
  ASSUME IInv, NEW p \in Polls, WriteMode(p)
  PROVE  IInv'
<1> DEFINE next == [polls[p] EXCEPT !.at = "queue_mode"]
           c == [set |-> "mode", to |-> polls[p].mode]
<1>1. /\ next \in PollStates /\ next.at = "queue_mode" /\ next.mode = polls[p].mode
      /\ polls[p].mode \in Modes
  BY PollForm DEF WriteMode, IInv, ModePolls
<1>2. polls' = [polls EXCEPT ![p] = next] /\ polls[p].at = "write_mode"
  BY DEF WriteMode
<1>3. /\ current_mode' = polls[p].mode
      /\ UNCHANGED <<recordVars, report, current_status, locally_unlocked,
                     hide_scheduled, callbacks, hides, windowVars, applied_mode>>
  BY DEF WriteMode
<1>4. c \in Callbacks /\ (polls[p].mode = "lockout" => Covers(c))
  BY <1>1 DEF Callbacks, Covers
<1> HIDE DEF next
<1>5. polls' \in [Polls -> PollStates] /\ polls'[p] = next
  BY <1>1, <1>2, PollsType DEF IInv
<1>6. TypeOK'
  BY <1>1, <1>3, <1>5 DEF IInv, TypeOK, recordVars, windowVars
<1>7. InHand(polls', c) /\ \A d : InHand(polls, d) => InHand(polls', d)
  BY <1>1, <1>2, <1>5, OthersKeep DEF InHand, IInv
<1> HIDE DEF c
<1>8. CoverInv'
  BY <1>3, <1>4, <1>7 DEF CoverInv, Pending
<1> QED
  BY <1>3, <1>6, <1>7, <1>8 DEF IInv, HideInv, Pending, windowVars

\* So is a status that shows it, and a race.
LEMMA WriteStatusInv ==
  ASSUME IInv, NEW p \in Polls, WriteStatus(p)
  PROVE  IInv'
<1> DEFINE next == [polls[p] EXCEPT !.at = "queue_status"]
           c == [set |-> "status", to |-> polls[p].status]
<1>1. /\ next \in PollStates /\ next.at = "queue_status"
      /\ next.status = polls[p].status /\ polls[p].status \in Statuses
  BY PollForm DEF WriteStatus, IInv, StatusPolls
<1>2. polls' = [polls EXCEPT ![p] = next] /\ polls[p].at = "write_status"
  BY DEF WriteStatus
<1>3. /\ current_status' = polls[p].status
      /\ UNCHANGED <<recordVars, report, current_mode, locally_unlocked,
                     hide_scheduled, callbacks, hides, windowVars, applied_mode>>
  BY DEF WriteStatus
<1>4. /\ c \in Callbacks /\ (polls[p].status \in ShownWhen => Covers(c))
      /\ polls[p].status = "racing" => c = RaceCall
  BY <1>1 DEF Callbacks, Covers, RaceCall
<1> HIDE DEF next
<1>5. polls' \in [Polls -> PollStates] /\ polls'[p] = next
  BY <1>1, <1>2, PollsType DEF IInv
<1>6. TypeOK'
  BY <1>1, <1>3, <1>5 DEF IInv, TypeOK, recordVars, windowVars
<1>7. InHand(polls', c) /\ \A d : InHand(polls, d) => InHand(polls', d)
  BY <1>1, <1>2, <1>5, OthersKeep DEF InHand, IInv
<1> HIDE DEF c
<1>8. CoverInv'
  BY <1>3, <1>4, <1>7 DEF CoverInv, Pending
<1> QED
  BY <1>3, <1>4, <1>6, <1>7, <1>8 DEF IInv, HideInv, Pending, windowVars

\* Queueing a callback leaves pending what was.
LEMMA QueueInv ==
  ASSUME IInv, NEW p \in Polls, QueueMode(p) \/ QueueStatus(p)
  PROVE  IInv'
<1>1. PICK c \in Callbacks, next \in PollStates :
        /\ callbacks' = Append(callbacks, c) /\ polls' = [polls EXCEPT ![p] = next]
        /\ polls[p].at = "queue_mode" => c = [set |-> "mode", to |-> polls[p].mode]
        /\ polls[p].at = "queue_status" => c = [set |-> "status", to |-> polls[p].status]
  <2>1. CASE QueueMode(p)
    <3>1. polls[p] \in ModePolls /\ ToStatus(polls[p]) \in PollStates
      BY <2>1, PollForm DEF QueueMode, IInv
    <3>2. [set |-> "mode", to |-> polls[p].mode] \in Callbacks
      BY <3>1 DEF ModePolls, Callbacks
    <3> QED
      BY <2>1, <3>1, <3>2 DEF QueueMode
  <2>2. CASE QueueStatus(p)
    <3>1. polls[p] \in StatusPolls /\ NoPoll \in PollStates
      BY <2>2, PollForm DEF QueueStatus, IInv
    <3>2. [set |-> "status", to |-> polls[p].status] \in Callbacks
      BY <3>1 DEF StatusPolls, Callbacks
    <3> QED
      BY <2>2, <3>1, <3>2 DEF QueueStatus
  <2> QED
    BY <2>1, <2>2
<1>2. UNCHANGED <<recordVars, report, readVars, hide_scheduled, hides, windowVars,
                  applied_mode>>
  BY DEF QueueMode, QueueStatus
<1>3. /\ callbacks' \in Seq(Callbacks) /\ Queued(callbacks', c)
      /\ \A d : Queued(callbacks, d) => Queued(callbacks', d)
  BY <1>1, AppendQueued DEF IInv, TypeOK
<1>4. polls' \in [Polls -> PollStates]
  BY <1>1, PollsType DEF IInv
<1>5. TypeOK'
  BY <1>2, <1>3, <1>4 DEF IInv, TypeOK, recordVars, readVars, windowVars
<1>6. ASSUME NEW d, InHand(polls, d), d # c PROVE InHand(polls', d)
  <2>1. TypeOK /\ polls' = [polls EXCEPT ![p] = next]
    BY <1>1 DEF IInv
  <2>2. /\ polls[p].at = "queue_mode" => d # [set |-> "mode", to |-> polls[p].mode]
        /\ polls[p].at = "queue_status" => d # [set |-> "status", to |-> polls[p].status]
    BY <1>1, <1>6
  <2> QED
    BY <1>6, <2>1, <2>2, OthersKeep, Zenon
<1>7. \A d : Pending(callbacks, polls, d) => Pending(callbacks', polls', d)
  BY <1>3, <1>6 DEF Pending
<1> QED
  BY <1>2, <1>5, <1>7 DEF IInv, CoverInv, HideInv, readVars, windowVars

\* What is common to the steps that take a callback from the queue.
LEMMA ApplyForm ==
  ASSUME IInv, NEW what, Applying(what), UNCHANGED polls
  PROVE  /\ callbacks' \in Seq(Callbacks)
         /\ Head(callbacks) \in Callbacks /\ Head(callbacks).set = what
         /\ \A d : Pending(callbacks, polls, d) =>
              d = Head(callbacks) \/ Pending(callbacks', polls', d)
<1>1. /\ callbacks # <<>> /\ callbacks \in Seq(Callbacks)
      /\ Head(callbacks).set = what /\ callbacks' = Tail(callbacks)
  BY DEF IInv, TypeOK, Applying
<1> QED
  BY <1>1, TailQueued DEF Pending

LEMMA ApplyModeInv == ASSUME IInv, ApplyMode PROVE IInv'
<1> DEFINE h == Head(callbacks)
<1>1. /\ callbacks' \in Seq(Callbacks) /\ h \in Callbacks /\ h.set = "mode"
      /\ \A d : Pending(callbacks, polls, d) => d = h \/ Pending(callbacks', polls', d)
  BY ApplyForm DEF ApplyMode
<1>2. h.to \in {"lockout", "freeuse"} /\ h # RaceCall
  BY <1>1 DEF Callbacks, Modes, RaceCall
<1>3. /\ UNCHANGED <<current_mode, current_status, hide_scheduled, hides>>
      /\ applied_mode' = h.to /\ by_status' = "no"
      /\ visible' = (h.to = "lockout")
  BY <1>2 DEF ApplyMode, Hide, Restore, readVars
<1> HIDE DEF h
<1>4. TypeOK'
  BY <1>1, <1>2, <1>3 DEF ApplyMode, IInv, TypeOK, Modes, recordVars, readVars
<1>5. CoverInv'
  BY <1>2, <1>3 DEF CoverInv
<1> QED
  BY <1>3, <1>4, <1>5 DEF IInv, HideInv

LEMMA ApplyRacingInv == ASSUME SplashAssumption, IInv, ApplyRacing PROVE IInv'
<1> DEFINE h == Head(callbacks)
<1>1. /\ callbacks' \in Seq(Callbacks) /\ h \in Callbacks /\ h.set = "status"
      /\ \A d : Pending(callbacks, polls, d) => d = h \/ Pending(callbacks', polls', d)
  BY ApplyForm DEF ApplyRacing
<1>2. h.to = "racing" /\ ~Covers(h)
  BY <1>1 DEF ApplyRacing, Covers, ShownWhen
<1>3. /\ UNCHANGED <<current_mode, current_status, visible, applied_mode>>
      /\ hide_scheduled' = TRUE
      /\ hides' = IF hide_scheduled THEN hides ELSE hides + 1
      /\ by_status' = IF by_status = "no" THEN "no" ELSE "due"
      /\ hides < MaxHides
  BY DEF ApplyRacing, readVars
<1> HIDE DEF h
<1>4. hides' \in 0..MaxHides /\ by_status' \in {"no", "shown", "due"}
  BY <1>3 DEF IInv, TypeOK, SplashAssumption
<1>5. TypeOK'
  BY <1>1, <1>3, <1>4 DEF ApplyRacing, IInv, TypeOK, recordVars, readVars
<1>6. CoverInv'
  BY <1>1, <1>2, <1>3 DEF IInv, CoverInv
<1>7. HideInv'
  <2>1. hides \in Nat
    BY DEF IInv, TypeOK
  <2> QED
    BY <1>3, <2>1 DEF IInv, HideInv
<1> QED
  BY <1>5, <1>6, <1>7 DEF IInv

\* The status that shows a locked rig's window shows it; any other leaves it.
LEMMA ApplyOtherInv == ASSUME IInv, ApplyOther PROVE IInv'
<1> DEFINE h == Head(callbacks)
<1>1. /\ callbacks' \in Seq(Callbacks) /\ h \in Callbacks /\ h.set = "status"
      /\ \A d : Pending(callbacks, polls, d) => d = h \/ Pending(callbacks', polls', d)
  BY ApplyForm DEF ApplyOther
<1>2. Covers(h) <=> h.to \in ShownWhen
  BY <1>1 DEF Covers
<1>3. /\ UNCHANGED <<current_mode, current_status, hides, applied_mode>>
      /\ hide_scheduled' = FALSE
      /\ \/ /\ current_mode = "lockout" /\ h.to \in ShownWhen
            /\ visible' = TRUE /\ by_status' = "shown"
         \/ /\ ~(current_mode = "lockout" /\ h.to \in ShownWhen)
            /\ visible' = visible
            /\ by_status' = IF by_status = "due" THEN "shown" ELSE by_status
  BY DEF ApplyOther, Restore, Scheduled, readVars
<1> HIDE DEF h
<1>4. visible' \in BOOLEAN /\ by_status' \in {"no", "shown"}
  BY <1>3 DEF IInv, TypeOK
<1>5. TypeOK'
  BY <1>1, <1>3, <1>4 DEF ApplyOther, IInv, TypeOK, recordVars, readVars
<1>6. CoverInv'
  BY <1>1, <1>2, <1>3 DEF IInv, CoverInv
<1>7. HideInv'
  BY <1>3, <1>4 DEF HideInv
<1> QED
  BY <1>5, <1>6, <1>7 DEF IInv

\* The delayed hide looks at the status again: it uncovers races only.
LEMMA HideForRacingInv == ASSUME SplashAssumption, IInv, HideForRacing PROVE IInv'
<1>1. /\ hides > 0 /\ hides' = hides - 1
      /\ UNCHANGED <<current_mode, current_status, callbacks, polls, applied_mode>>
      /\ \/ /\ current_status = "racing" /\ UNCHANGED hide_scheduled
            /\ visible' = FALSE /\ by_status' = "no"
         \/ /\ current_status # "racing" /\ hide_scheduled' = FALSE
            /\ UNCHANGED <<visible, by_status>>
  BY DEF HideForRacing, Hide, readVars, windowVars
<1>2. TypeOK'
  <2>1. hides' \in 0..MaxHides
    BY <1>1 DEF IInv, TypeOK, SplashAssumption
  <2>2. visible' \in BOOLEAN /\ hide_scheduled' \in BOOLEAN
        /\ by_status' \in {"no", "shown", "due"}
    BY <1>1, Zenon DEF IInv, TypeOK
  <2> QED
    BY <1>1, <2>1, <2>2 DEF HideForRacing, IInv, TypeOK, recordVars, readVars
<1>3. CoverInv'
  BY <1>1 DEF IInv, CoverInv, ShownWhen
<1> QED
  BY <1>1, <1>2, <1>3 DEF IInv, HideInv

LEMMA UnlockInv == ASSUME IInv, EnterUnlockedMode PROVE IInv'
<1>1. /\ current_mode' = "freeuse" /\ visible' = FALSE /\ by_status' = "no"
      /\ locally_unlocked' = TRUE /\ report' = 2
      /\ UNCHANGED <<rig_mode, rig_status, polls, current_status, hide_scheduled,
                     callbacks, hides, applied_mode>>
  BY DEF EnterUnlockedMode, Hide, recordVars
<1>2. TypeOK'
  <2>1. current_mode' \in Modes /\ report' \in 0..2
    BY <1>1 DEF Modes
  <2> QED
    BY <1>1, <2>1, Zenon DEF IInv, TypeOK
<1> QED
  BY <1>1, <1>2 DEF IInv, CoverInv, HideInv

LEMMA NextInv == SplashAssumption /\ IInv /\ [Next]_vars => IInv'
<1> SUFFICES ASSUME SplashAssumption, IInv, [Next]_vars PROVE IInv'
  OBVIOUS
<1>1. CASE Orchestrator
  BY <1>1, OrchestratorInv
<1>2. CASE TkThread
  BY <1>2, ApplyModeInv, ApplyRacingInv, ApplyOtherInv DEF TkThread
<1>3. CASE HideForRacing
  BY <1>3, HideForRacingInv
<1>4. CASE EnterUnlockedMode
  BY <1>4, UnlockInv
<1>5. CASE \E p \in Polls : PollAnswered(p) \/ PollThread(p)
  BY <1>5, PollReadsInv, WriteModeInv, WriteStatusInv, QueueInv DEF PollThread
<1>6. CASE UNCHANGED vars
  BY <1>6 DEF vars, recordVars, readVars, windowVars, IInv, TypeOK, CoverInv, HideInv
<1> QED
  BY <1>1, <1>2, <1>3, <1>4, <1>5, <1>6 DEF Next

LEMMA InvHolds == Spec => []IInv
BY SplashAssumption, InitInv, NextInv, PTL DEF Spec

\* Nothing is pending once all is settled.
LEMMA SettledPending == Settled => \A c : ~Pending(callbacks, polls, c)
<1> SUFFICES ASSUME Settled, NEW c PROVE ~Pending(callbacks, polls, c)
  OBVIOUS
<1>1. callbacks = <<>> /\ Len(callbacks) = 0
  BY DEF Settled
<1> QED
  BY <1>1 DEF Settled, Pending, Queued, InHand
------------------------------------------------------------------------------
\* Every reachable state is well typed, however many polls overlap and
\* however many callbacks they queue (splash.py:99-113).
THEOREM SplashTypeCorrect == Spec => []TypeOK
<1>1. IInv => TypeOK
  BY DEF IInv
<1> QED
  BY <1>1, InvHolds, PTL

\* Once nothing is pending the desktop of a locked rig is covered, whatever
\* stale answers, unlocks and delayed hides were mixed and in whatever order
\* polls queued what they wrote, unless a freeuse was applied across the
\* lockout (splash.py:549-629).
THEOREM LockedIsAlwaysCovered == Spec => []LockedIsCovered
<1>1. IInv => LockedIsCovered
  <2> SUFFICES ASSUME IInv, Settled, ~Crossed, current_mode = "lockout",
                      current_status \in {"idle", "setup", "ready"}
               PROVE  visible
    BY DEF LockedIsCovered
  <2>1. applied_mode # "freeuse"
    BY DEF Crossed
  <2> QED
    BY <2>1, SettledPending DEF IInv, CoverInv, ShownWhen
<1> QED
  BY <1>1, InvHolds, PTL

\* Once nothing is pending, a window an earlier status has shown is not over a
\* race that was applied after it, whatever hides were skipped and in whatever
\* order polls queued the race and its end (splash.py:565-610).
THEOREM RaceIsAlwaysUncovered == Spec => []RaceIsUncovered
<1>1. IInv => RaceIsUncovered
  <2> SUFFICES ASSUME IInv, Settled, current_status = "racing", by_status = "due"
               PROVE  FALSE
    BY DEF RaceIsUncovered
  <2>1. hides = 0 /\ ~Pending(callbacks, polls, RaceCall)
    BY SettledPending DEF Settled
  <2> QED
    BY <2>1 DEF IInv, HideInv
<1> QED
  BY <1>1, InvHolds, PTL
==============================================================================
