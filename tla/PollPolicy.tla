----------------------------- MODULE PollPolicy -----------------------------
(***************************************************************************)
(* How one device is polled in the background (coordinator.py): the step    *)
(* its advertisements put it on, the interval and its backoffs (a light     *)
(* that is on, failed polls, a slow device), the timer Home Assistant arms  *)
(* with it, and its availability.  Held polls are PollHold's: here a poll   *)
(* asked for or due waits while the device's commands run.  Jitter, RSSI    *)
(* and the diagnostics are left out; an entity listens throughout.          *)
(***************************************************************************)
EXTENDS Integers, FiniteSetsExt

CONSTANTS Base, MaxInterval, OnMax,   \* intervals, in seconds
          SlowMax,                    \* SLOW_POLL_MAX_STEPS
          AwayAfter,                  \* UNAVAILABLE_AFTER_FAILURES
          Relay                       \* a relay plug, or a light

VARIABLES c,       \* the coordinator
          env,     \* what Home Assistant hears of the device, and its power
          poll,    \* the poll that runs, and whether the device was present
                   \* as it began to read
          busy     \* a command to the device runs
vars == <<c, env, poll, busy>>

Steps == 0..10      \* bound: the doublings of an interval
Doublings[k \in Steps] == IF k = 0 THEN Base ELSE 2 * Doublings[k - 1]

ASSUME PolicyAssumption ==
    /\ {Base, MaxInterval, OnMax, AwayAfter} \subseteq Nat \ {0} /\ SlowMax \in Steps
    /\ Base <= OnMax /\ OnMax <= MaxInterval /\ Relay \in BOOLEAN
    /\ \E k \in Steps : Doublings[k] >= MaxInterval

None == 0       \* no interval
(* The doublings that reach a cap: more would only overflow.                *)
Reaching(cap) == Min({k \in Steps : Doublings[k] >= cap})
Lesser(a, b) == IF a < b THEN a ELSE b
Greater(a, b) == IF a > b THEN a ELSE b

Unpolled == {"off", "relay"}
(* _polls_enabled: Home Assistant sets the entry up again as its owner       *)
(* disables polling, so that stands for the coordinator's life.             *)
Enabled(k) == ~k.disabled /\ ~k.auth
Scheduled(k) == k.nominal # None /\ Enabled(k)

(* device_available.                                                        *)
Available(k, e) ==
    e.present \/ (Scheduled(k) /\ ~k.lost /\ k.failures < AwayAfter /\ k.recent)

-----------------------------------------------------------------------------
(* Intervals.                                                               *)

Floor(k) == IF k.slow = 0 THEN 0 ELSE Lesser(Doublings[k.slow], MaxInterval)
Floored(k, n) == Greater(n, Floor(k))
Healthy(k) == IF k.policy = "on" THEN Lesser(Doublings[k.on], OnMax) ELSE Base
(* The first failure keeps the base cadence, then it doubles up to the cap. *)
FailureInterval(k) ==
    Lesser(Doublings[Lesser(Greater(0, k.backoff - 1), Reaching(MaxInterval))], MaxInterval)

Paced(k, n) == [k EXCEPT !.nominal = Floored(k, n)]
(* A timer armed replaces a held scheduled poll, as does no interval.       *)
Unheld(k) == IF k.held = "due" THEN "none" ELSE k.held
Rearmed(k) == [k EXCEPT !.armed = TRUE, !.held = Unheld(k)]
Cleared(k) == [k EXCEPT !.nominal = None, !.armed = FALSE, !.held = Unheld(k)]

(* Mutant of Resumed: it gets the grace of failed polls.                    *)
ResumedAnew(k, e) == k

(* Polls that resume while no connectable scanner sees the device: lost     *)
(* until it is heard again.                                                 *)
Resumed(k, e) == [k EXCEPT !.lost = @ \/ (k.nominal = None /\ ~e.present)]
-----------------------------------------------------------------------------
(* The policy.                                                              *)

(* _async_policy_step.                                                      *)
Step(k, e) ==
    IF ~(Enabled(k) /\ e.present /\ e.fresh) THEN "fixed"
    ELSE IF Relay THEN "relay"
    ELSE IF e.power = "unknown" THEN "fixed" ELSE e.power
MovedTo(k, step) ==
    IF step = k.policy THEN k
    ELSE [k EXCEPT !.policy = step, !.on = 0, !.flip = @ /\ step \notin Unpolled]

(* Mutant of Rearming: polls that resume arm no timer.                      *)
RearmingNone(k) == k
(* No timer is armed while polls are halted.                                *)
Rearming(k) == IF Enabled(k) THEN Rearmed(k) ELSE k

(* _async_apply_policy, between polls: while they fail, a move between the  *)
(* polled steps keeps the failure backoff.                                  *)
Applied(k, e) ==
    LET heard == [k EXCEPT !.lost = @ /\ ~e.present]
        moved == MovedTo(heard, Step(k, e))
        nominal == Floored(k, IF k.nominal = None /\ k.failures > 0 THEN FailureInterval(k)
                              ELSE Base)
        paced == Paced(IF k.nominal = None THEN Resumed(moved, e) ELSE moved, nominal)
    IN  IF moved.policy = k.policy THEN heard
        ELSE IF moved.policy \in Unpolled THEN Cleared(moved)
        ELSE IF (k.nominal # None /\ k.failures > 0) \/ nominal = k.nominal THEN moved
        ELSE Rearming(paced)

(* _async_restart_on_backoff: a change starts a light's on-backoff over.    *)
Restarted(k) ==
    IF /\ k.policy = "on" /\ k.failures = 0 /\ Scheduled(k)
       /\ k.nominal > Floored(k, Base)
    THEN Rearmed(Paced([k EXCEPT !.on = 0], Base))
    ELSE [k EXCEPT !.on = 0]

-----------------------------------------------------------------------------
(* A poll's outcome.                                                        *)

(* Mutant of Failed: a failure gives the streak another reset.              *)
FailedAnew(k, e, slow) ==
    LET counted == [k EXCEPT !.failures = Lesser(AwayAfter, @ + 1), !.used = FALSE,
                             !.backoff = Lesser(Reaching(MaxInterval) + 1, @ + 1)]
        moved == MovedTo(counted, Step(k, e))
    IN  IF moved.policy \in Unpolled THEN Cleared(moved)
        ELSE Paced(Resumed(moved, e), FailureInterval(moved))

(* _async_note_failure: a slow one adds a slow step, any other a backoff    *)
(* step.  (Both counts stop where nothing tells them from more.)            *)
Failed(k, e, slow) ==
    LET counted == [k EXCEPT
            !.failures = Lesser(AwayAfter, @ + 1),
            !.backoff = IF slow THEN @ ELSE Lesser(Reaching(MaxInterval) + 1, @ + 1),
            !.slow = IF slow THEN Lesser(SlowMax, @ + 1) ELSE @]
        moved == MovedTo(counted, Step(k, e))
    IN  IF moved.policy \in Unpolled THEN Cleared(moved)
        ELSE Paced(Resumed(moved, e), FailureInterval(moved))
Absent(k, e) == Failed([k EXCEPT !.skipped = TRUE], e, FALSE)

(* A poll that read the device, or whose data are only presumed:            *)
(* _note_poll_speed, _async_note_success.                                   *)
Succeeded(k, e, optimistic, slow, changed) ==
    LET read == [k EXCEPT !.recent = @ \/ ~optimistic, !.failures = 0, !.backoff = 0,
                          !.skipped = FALSE, !.used = FALSE, !.lost = FALSE, !.cuts = 0,
                          !.slow = IF slow THEN Lesser(SlowMax, @ + 1) ELSE 0]
        moved == MovedTo(read, Step(k, e))
        stepped == [moved EXCEPT !.on =
                       IF changed \/ moved.policy # k.policy THEN 0
                       ELSE IF moved.policy = "on" THEN Lesser(Reaching(OnMax), @ + 1) ELSE @]
    IN  IF moved.policy \in Unpolled THEN Cleared(stepped)
        ELSE Paced(Resumed(stepped, e), Healthy(stepped))

(* Home Assistant arms its timer as a refresh ends, unless polling is       *)
(* disabled or the secret was rejected (one armed meanwhile then stays);    *)
(* the poll used up those held.                                             *)
Ended(k) ==
    LET unheld == [k EXCEPT !.held = "none"]
    IN  IF Scheduled(k) THEN Rearmed(unheld) ELSE unheld

-----------------------------------------------------------------------------
(* Polls.                                                                   *)

Idle == [phase |-> "none", how |-> "now", present |-> FALSE]
Reach(k, e) == e.present \/ k.landed

(* A poll starts, "due" or kept "apart" if commands hold it off, or "now"   *)
(* whatever they do: with nothing to reach the device by, it is skipped.    *)
Start(k, how) ==
    LET begun == [k EXCEPT !.auth = FALSE, !.armed = FALSE, !.held = "none"]
    IN  IF Reach(k, env)
        THEN c' = begun /\ poll' = [Idle EXCEPT !.phase = "queued", !.how = how]
        ELSE c' = Ended(Absent(begun, env)) /\ poll' = Idle

(* The timer fires: not while a poll runs; held while commands run.         *)
Due ==
    /\ c.armed
    /\ LET fired == [c EXCEPT !.armed = FALSE]
       IN  IF poll # Idle THEN c' = fired /\ UNCHANGED poll
           ELSE IF busy THEN c' = [fired EXCEPT !.held = IF @ = "apart" THEN @ ELSE "due"]
                             /\ UNCHANGED poll
           ELSE Start(fired, "due")
    /\ UNCHANGED <<env, busy>>
(* A held one is released, by the cap if commands still run.                *)
Release ==
    /\ poll = Idle /\ c.held # "none"
    /\ Start(c, IF busy THEN "now" ELSE c.held) /\ UNCHANGED <<env, busy>>
Manual == poll = Idle /\ Start(c, "now") /\ UNCHANGED <<env, busy>>

(* It has its place, and the gate admits it: it is held again for commands, *)
(* reads, or is skipped for a device nothing reaches by now.                *)
Admit ==
    /\ poll.phase = "queued" /\ UNCHANGED <<env, busy>>
    /\ IF busy /\ poll.how # "now"
       THEN /\ poll' = Idle
            /\ c' = [Ended(c) EXCEPT !.held = IF c.held = "apart" THEN "apart" ELSE poll.how]
       ELSE IF Reach(c, env)
       THEN poll' = [poll EXCEPT !.phase = "reading", !.present = env.present] /\ UNCHANGED c
       ELSE poll' = Idle /\ c' = Ended(Absent(c, env))

(* The read ends: with what the device said; failed, slowly or not, or for  *)
(* a link that was gone; or its secret rejected.                            *)
Read ==
    /\ poll.phase = "reading" /\ poll' = Idle /\ UNCHANGED busy
    /\ \/ \E power \in {env.power, "on", "off"}, optimistic, slow, changed \in BOOLEAN :
             /\ power # env.power => changed
             /\ env' = [env EXCEPT !.power = power]
             /\ c' = Ended(Succeeded(c, env', optimistic, slow, changed))
       \/ /\ poll.present
          /\ \E slow \in BOOLEAN : c' = Ended(Failed(c, env, slow))
          /\ UNCHANGED env
       \/ /\ ~poll.present
          /\ c' = Ended(Absent(c, env)) /\ UNCHANGED env
       \/ c' = Ended([c EXCEPT !.auth = TRUE]) /\ UNCHANGED env

-----------------------------------------------------------------------------
(* Commands.                                                                *)

StartCommand == ~busy /\ busy' = TRUE /\ UNCHANGED <<c, env, poll>>

(* async_handle_command_success: a failure backoff is reset once a streak.  *)
Landed(k, e) ==
    LET eased == Restarted(Applied([k EXCEPT !.recent = TRUE, !.landed = TRUE], e))
        reset == eased.failures > 0 /\ ~eased.used /\ Scheduled(eased)
                 /\ eased.nominal > Floored(eased, Base)
    IN  IF reset THEN Rearmed(Paced([eased EXCEPT !.used = TRUE, !.cuts = @ + 1], Base))
        ELSE eased

(* It ends, landed or not; either way the state is published.               *)
EndCommand ==
    /\ busy /\ busy' = FALSE /\ UNCHANGED poll
    /\ \/ \E power \in {env.power, "on", "off"} :
             /\ env' = [env EXCEPT !.power = power]
             /\ c' = Applied(Landed(c, env'), env')
       \/ c' = Applied(c, env) /\ UNCHANGED env

-----------------------------------------------------------------------------
(* Advertisements and time.                                                 *)

(* The reaction to an on/off change taken from an advertisement.            *)
Flipped(k, e, was, schedule) ==
    LET restarted == Restarted(Applied([k EXCEPT !.flip = FALSE], e))
    IN  [restarted EXCEPT !.flip = schedule /\ was = "off" /\ restarted.policy = "on"]

(* An advertisement with new content, from a connectable scanner or not,    *)
(* its on/off taken or not: a device back after skipped polls is polled.    *)
Hear ==
    \E connectable \in BOOLEAN, power \in {env.power, "on", "off"}, fresh \in BOOLEAN :
        LET e == [present |-> env.present \/ connectable, fresh |-> fresh, power |-> power]
            back == c.skipped /\ e.present
            asked == [c EXCEPT !.skipped = FALSE, !.held = "apart"]
            k == IF ~back THEN c ELSE IF c.policy \in Unpolled THEN asked ELSE Paced(asked, Base)
            flipped == power # env.power
        IN  /\ power # env.power => fresh
            /\ env' = e
            /\ c' = IF flipped THEN Applied(Flipped(k, e, env.power, ~back), e)
                    ELSE Applied(k, e)
            /\ UNCHANGED <<poll, busy>>

(* The turn-on poll is due: asked for like a scheduled one, unless halted.  *)
FlipDue ==
    /\ c.flip
    /\ c' = [c EXCEPT !.flip = FALSE,
                      !.held = IF Enabled(c) /\ @ = "none" THEN "due" ELSE @]
    /\ UNCHANGED <<env, poll, busy>>

(* The presence tick, which may take a repeated advertisement's on/off.     *)
Tick ==
    /\ \E power \in {env.power, "on", "off"} :
          LET e == [env EXCEPT !.power = power]
          IN  /\ power # env.power => env.fresh
              /\ env' = e
              /\ c' = IF power = env.power THEN Applied(c, e)
                      ELSE Applied(Flipped(c, e, env.power, TRUE), e)
    /\ UNCHANGED <<poll, busy>>

(* No connectable scanner hears it any more; it was last heard recently, or *)
(* not.                                                                     *)
Lose ==
    /\ env.present
    /\ env' = [env EXCEPT !.present = FALSE]
    /\ \E recent \in {c.recent, TRUE} :
          c' = Applied([c EXCEPT !.recent = recent], env')
    /\ UNCHANGED <<poll, busy>>

(* Time: the byte goes stale, the device unheard of too long, its link out  *)
(* of its warm window or released.                                          *)
Lapse ==
    /\ \/ env.fresh /\ env' = [env EXCEPT !.fresh = FALSE] /\ UNCHANGED c
       \/ c.recent /\ c' = [c EXCEPT !.recent = FALSE] /\ UNCHANGED env
       \/ c.landed /\ c' = [c EXCEPT !.landed = FALSE] /\ UNCHANGED env
    /\ UNCHANGED <<poll, busy>>

-----------------------------------------------------------------------------

PolicyInit ==
    /\ \E off \in BOOLEAN :
          c = [policy |-> "fixed", nominal |-> Base, disabled |-> off, armed |-> ~off,
               held |-> "none", flip |-> FALSE, on |-> 0, slow |-> 0, failures |-> 0,
               backoff |-> 0, used |-> FALSE, lost |-> FALSE, skipped |-> FALSE, auth |-> FALSE,
               recent |-> TRUE, landed |-> FALSE, cuts |-> 0]
    /\ env \in [present : {TRUE}, fresh : BOOLEAN, power : {"unknown"}]
    /\ poll = Idle /\ busy = FALSE

PolicyNext ==
    \/ Due \/ Release \/ Manual \/ Admit \/ Read
    \/ StartCommand \/ EndCommand
    \/ Hear \/ FlipDue \/ Tick \/ Lose \/ Lapse

PolicySpec == PolicyInit /\ [][PolicyNext]_vars

-----------------------------------------------------------------------------

(* A device whose polls are scheduled is polled again: a timer is armed, or *)
(* a poll runs or waits; and none is armed while the policy polls it not at *)
(* all.  No interval is shorter than a slow device's floor, nor longer than *)
(* the cap, whatever doubled it.                                            *)
PolledInTime ==
    /\ Scheduled(c) => c.armed \/ poll # Idle \/ c.held # "none"
    /\ c.nominal = None <=> c.policy \in Unpolled
    /\ c.nominal = None => ~c.armed
    /\ c.nominal # None => c.nominal \in Greater(Base, Floor(c))..MaxInterval

(* Commands cut the failure backoff of a streak of failed polls short once  *)
(* (async_handle_command_success: "repeated commands must not hold the      *)
(* device at the base cadence").                                            *)
CutOnce == c.cuts <= 1

(* A device no connectable scanner sees, once unavailable or not polled at  *)
(* all, is unavailable until it is heard, read, or reached by a command,    *)
(* through every resuming of its polls (device_available: "it stays so when *)
(* they resume before it is heard again"); save for polls halted by a       *)
(* rejected secret, which a manual refresh resumes without a mark.          *)
StaysAway ==
    [][~env'.present /\ Available(c', env') =>
          \/ Available(c, env) /\ Scheduled(c)
          \/ c'.recent /\ ~c.recent
          \/ poll.phase = "reading" /\ c'.failures = 0
          \/ c.auth /\ ~c'.auth]_vars

=============================================================================
