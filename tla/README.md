# Govee BLE Local: a formal model

This directory holds TLA+ specifications of the Home Assistant integration
`custom_components/govee_ble_local`, the TLC configurations that check them on
small instances, and TLAPS proofs of their invariants for every value of the
constants. Paths below without a directory are in
`src/custom_components/govee_ble_local/`.

The integration drives Govee lights and plugs over Bluetooth LE. A Bluetooth
proxy has about three connection slots, and a house has many more devices, so
most of the code decides *who may connect when*: polls give way to commands,
commands queue for radios with room, turn-offs of devices already off go last,
and links are let go. Everything runs on one event loop: handlers are atomic
between two `await`s, and what is hard is what happens between them.

## 1. The system

| Component | State it keeps | Operations | What makes it correct |
|---|---|---|---|
| **Connect gate** `connect_gate.py` | waiters, tickets (our connects) with their holders, avoided radios, radios in grace, release checks, deferred turn-offs, links being released, the tick | a call waits and is admitted (`async_slot`), its end, cancellation, `async_note_deferred_off`, `async_note_releasing`, `async_release_waiters`, the tick | no ticket is lost or leaked; no radio is overbooked; nobody waits for ever; polls yield to commands; no room is wasted |
| **Command burst** `coordinator.CommandBurst` | running commands and deferred turn-offs per device, `active`, its tail timer, command windows | command start/end, deferred start/end, tail, entry unload | a burst starts with a second device and always ends; no timer outlives the entries |
| **Poll hold-off** `coordinator.py` (`_async_hold_poll` and around) | commands running, hold-off, held polls (plain, apart), the cap, HA's poll timer, running poll, the tasks that poll | command start/end, timers, first/return/turn-on poll, manual refresh, policy steps, unload, stop | no poll under commands; a held poll always runs; one timer at most; nothing polls once HA stops |
| **Poll policy, backoff, availability** `coordinator.py` | policy step, on-backoff, failure streaks, slow steps, stamps of last contact | advertisement, poll outcome, command success, presence tick | intervals stay in bounds; an absent device is polled again on return; no backoff is reset twice in one streak |
| **Advertisements** `coordinator.async_handle_advertisement` | library state, broadcast header, presence | advert heard, scanners lost | on/off flips and returns are noticed once; the stored header does not flip-flop |
| **Link window** `coordinator._async_end_window` | window per device, person, `_release_after_poll`, settle timer, command-landed stamp | command start/end, settle, poll end, release | a link nobody will use is released; never under a poll or a newer command's window |
| **Turn-off deferral** `deferral.py` | waits per entity, removals, confirmed turn-offs being sent | turn-off, command changes, cap, hurry, drop, stop | a turn-off waits only for the commands it met; it is sent unless dropped; two never wait for each other |
| **Entity commands** `entity.py` | (uses the four above) | `_command`, `_run_client_command`, zone turn-offs, `async_request_call` | start and end counted once, also on failure and cancellation |
| **Light, zone and segment rules** `light.py`, `switch.py` | optimistic on/off | turn on/off of fixture, zone, segment | a segment write does not light a dark fixture silently |
| **Setup, unload, stop** `__init__.py` | entry state, on-unload jobs, self-test task | setup, first-poll stagger, unload, stop listener | waiting calls go before the link closes; the self-test restores first |
| **Segment count and registry** `__init__.py` | stored count, last answered read | coordinator push, setup | one bad read removes nothing; a count that holds is taken once |
| **Self-test and restore** `capture.py`, `services.py` | global lock, tracked task, logger level | run, restore, capture | restore always runs (unless the secret is refused); the logger is put back |
| **Log capture** `capture.LogCapture` | ring buffers, references | attach, detach | the shared handler leaves with its last user |
| **Config flow** `config_flow.py` | flow steps | discovery, user, reauth, reconfigure | one entry per address |
| **Diagnostics, sensors, buttons** | none of their own | read-only views | - |
| **Field-test harness** `tools/ha_field_test/` | journal on disk, console, signals | run, restore, recover | what was changed is restored, also after a crash |
| **Scripts** `scripts/`, `brands/` | files | generators | - |

How they interact: a service call enters `entity.py`; a turn-off of a device
already off first waits in the deferral (counted by the burst and by the gate);
the command is then counted as started (burst, hold-off, window), waits at the
gate, talks to the device, and is counted as ended, which arms the hold-off, the
settle of its window, and perhaps the burst's tail. A poll comes due from HA's
timer, at setup, when the device returns, after an advertised turn-on, or by
hand; it is held while commands hold polls off, waits for one of two poll places
and at the gate behind every command, looks at the commands again, and reads.

## 2. The modules

| Module | Models | Extends |
|---|---|---|
| `ConnectGate` | the whole `ConnectGate` class, except `async_link_up` (a query) and the log lines | Integers, FiniteSets |
| `ConnectGateProofs` | theorems of `ConnectGate` | `ConnectGate`, TLAPS |
| `CommandBurst` | the counts and the tail of `CommandBurst`; not its windows | Integers, FiniteSets |
| `CommandBurstProofs` | theorems of `CommandBurst` | `CommandBurst`, TLAPS |
| `PollHold` | the poll hold-off of every coordinator, composed with `CommandBurst` | `CommandBurst` |
| `PollHoldProofs` | theorems of `PollHold` | `PollHold`, `CommandBurstProofs` |
| `OffHold` | what the deferral promises of the turn-offs it holds (abstract) | - |
| `OffDeferral` | `OffDeferral` and the calls of `entity.py` that use it, composed with `CommandBurst`; implements `OffHold` | `CommandBurst`, Sequences |
| `OffDeferralProofs` | no lost wake-up; `OffDeferral` implements `OffHold`; the tracker's invariants and exact counts under the deferral's calls | `OffDeferral`, `CommandBurstProofs`, FiniteSetTheorems |
| `PollPolicy` | one device's poll policy, intervals, backoffs, timer and availability | Integers, FiniteSetsExt |
| `PollPolicyProofs` | theorems of `PollPolicy` | `PollPolicy`, NaturalsInduction, WellFoundedInduction, TLAPS |
| `SelfTest` | the self-test, its restore and its capture of the log, against unload and stop | SequencesExt |
| `SelfTestProofs` | theorems of `SelfTest` | `SelfTest`, SequenceTheorems, WellFoundedInduction, TLAPS |
| `EntryLife` | the config entry: flows, setup by pact, headers, segment counts, reloads | Naturals |
| `EntryLifeProofs` | theorems of `EntryLife` | `EntryLife`, TLAPS |
| `FieldTest` | the field-test harness: journal, restore, signals, kill, recovery | Naturals |
| `FieldTestProofs` | theorems of `FieldTest` | `FieldTest`, TLAPS |
| `MC*` | values of the constants for TLC (`MCOffDeferral` with fairness) | each its module |
| `MCConnectGateFair`, `MCPollHoldFair` | the same with fairness and liveness | the MC modules |

### ConnectGate

Each `Calls` member is a call that may pass the gate again and again; its
device (`AddressOf`) and whether it is a poll or a "last" turn-off are fixed.
A call is idle, waiting (`_waiters`), resolved (its future has a result and the
task has not run yet) or inside (the library call runs). "Resolved" is a state
of its own because the code has a branch for a cancellation landing there
(`_async_wait` 299-303).

- `tickets`, `avoided`, `released`, `checks`, `deferredOffs`, `releasing`,
  `tick` are `_tickets`, `_avoided`, `_released`, `_release_checks`,
  `_deferred_offs`, `_releasing`, `_tick`. Deadlines are kept as the time left.
- `place` is each waiter's index in `_waiters` (the sort of a pass is stable).
- `air` is what the scanners would report: paths, RSSI, scores, slots,
  allocations, connects in progress, deafness, and where a reading of them raises
  (`broken`), with the radios the failing step had gone through (`reached`). It
  belongs to habluetooth; it changes to any member of `Airs` between handlers.
- A pass (`Passed`) is a fold of `Judged` over the waiting calls in serving
  order, each judged with what the earlier ones of the pass took, exactly like
  the loop of `_async_pass`; `FirstJudgement` carries `command_waiting` and
  `capped`. `Pumped` adds the release checks before it and the "unjudged" escape
  when a reading fails; `BrokenOff` is what the pass has done by then, at each of the
  four places where it reads (a release check, the paths and radios, the judging of
  stuck radios, the views), so a radio may already be avoided and no ticket looked at. Every handler that pumps in the code (arrival, last
  holder's release, end of a link release, tick) applies `Pumped` in the same
  action and re-arms the tick (`Scheduled`).
- If a device is listed by two radios the code takes the first path; the
  model's `SeenOn` takes one of them. The airs of the runs list a device once.

### CommandBurst and PollHold

`running`, `deferred`, `active`, `tail` are the tracker's fields; `entry` is the
state HA has each config entry in, since the tracker asks for loaded entries. A
command may outlive its entry (HA does not cancel it on unload), and an end that
had no start is tolerated (`pop(address, 0)`), so on its own (`BurstSpec`, which
the proofs are about) the tracker is driven with such ends too. In `PollHold` and
`OffDeferral` commands end only once.

A timer is off, armed, or due; `Advance` makes armed ones due. The hold-off and
the tail last 25 s each, one unit; the cap (120 s) is `HoldMax` units. A timer
that is due may fire late, after other handlers: the loop orders nothing more.

`poller[d]` is the state of a device's coordinator that polls depend on.
Home Assistant's `DataUpdateCoordinator` is modelled as the code uses it: one
handle it can cancel (`timerSet`) against the timers that really run (`timers`),
so a timer that escapes shows as `timers` exceeding it; the lock of its refresh
debouncer, which a scheduled poll waits for and a manual refresh must get at
once; `async_refresh`, which takes no lock (the first poll). A poll's task is
waiting for the lock, holding it, queued (for a poll place and the gate: the
wait is any length), or reading (any length). `since` is how long the held poll
has waited, the cap's remaining time being `HoldMax - since`; a task carries its
own hold and ages too, as `_BackgroundPoll.held_since` does.

The policy is abstract here: between polls it may stop background polls or
re-arm them, and each poll ends in either step. The absence of a device is a
choice of the read. What a skipped or failed poll does to backoff intervals, and
which steps stop polls, is `PollPolicy`'s.

`owed` is a history variable: a poll the code promises to run once whatever
happens came due ("kept"), or came due while another ran ("joined").

### OffDeferral and OffHold

A lane is one device's entity platform as set up once. Home Assistant runs its
calls one at a time (`PARALLEL_UPDATES = 1`), a waiting turn-off included: `line`
is the queue of a lane, its first element under way, and `turn` says how far that
one is: queued, starting (the three loop steps of `_START_STEPS`), waiting, ended
(the outcome is set and the task has not resumed), sent, or sent as the turn-off
of a device known off (`sentOff`, while the device is in `_CONFIRMED_OFFS`, here
`offs`). A reload leaves the calls of the old entity going on beside the new
entity's, so a device may have several lanes; `lane` is the current one.

- `Notified` is what the tracker's listeners do at each start and end of a
  command: every wait drops the devices that are done, and ends when none is left.
  A command's start and the notification are one handler in the code, and one
  action here; at a command's end the device leaves `offs` only after it.
- `Let` is `_async_end`: the first ending sets the outcome. Between it and the
  task's resumption (`Resume`, `ResumeUnsent`, `Cancel`) other endings may come.
- `OffIsSent` joins the end of the wait's counts and the start of its command:
  the code does not suspend between them.
- Each step after a wait is one for every choice the code leaves to state not
  modelled: whether the device said it is off (`Begin` or `LetOthersStart`), its
  link is up (`GoAtOnce` or `Wait`), a zone's turn-off is redundant.

`OffHold` knows only which devices are busy and what each lane's turn-off is held
for: it may start to be held by all other busy devices, each drops out as it gets
quiet, it may go at any time, and it is never held by a device that was not busy as
it looked. The refinement maps a confirmed turn-off's device to not busy.

### PollPolicy

`c` is the coordinator of one device: `policy`, `nominal` (the poll interval
before jitter, `None` when polls stop), `armed` (HA's timer), `held` (a background
poll held for commands, "apart" if policy steps do not drop it), `flip` (the
turn-on poll's timer), the counters `on`, `slow`, `failures`, `backoff`, and the
flags `used` (`_backoff_reset_used`), `lost` (`_lost_while_unpolled`), `skipped`,
`auth` (`_auth_failed`), `disabled` (`pref_disable_polling`: Home Assistant reloads the entry
when it changes, so a coordinator keeps it), `recent` and `landed` (how long ago it was heard or
reached, which the code compares with windows). `cuts` is history: the resets of
the streak. `env` is what HA hears: a connectable scanner sees it, its on/off byte
is fresh, its power. Intervals are seconds, as in the code: powers of two of
`Base`, capped and floored; `Doublings` is the shift `1 << steps`.

- `Applied` is `_async_apply_policy`, which every handler that publishes calls:
  adverts, the presence tick, a lost scanner, each command's end.
- `Failed`, `Absent`, `Succeeded` are the counting of a poll's outcome, `Ended`
  what Home Assistant does as the refresh ends. A poll is queued, then reading;
  `Admit` looks at commands and presence again, as `_async_poll` does.
- `Landed` is a command that reached the device, with the one reset a streak of
  failures gets; `Flipped` an on/off change taken from an advert.

### SelfTest

A light is its zones, lit or not, each in its own colour or a test's. `Driven` is
what the device does on a command: power lights every zone, a colour sent to a dark
fixture lights it (the reason the restore's order matters). `Exercise`, `Restore`
and `Repaint` are the sequences `_exercise`, `_restore` and `_restore_colour` send.
Each step is acknowledged, fails, or fails although its frames landed; the test can
be cancelled anywhere, its secret refused, its link closed. `lock` is
`_SELF_TEST_LOCK`, `tracked` is `data.self_test`, `entry` the state of the entry
and of its wait for the test. `logger` is the library's logger with what the
session capture kept of it; `wanted` is history, the level the user wants.

### EntryLife

`record` is Home Assistant's connectable record of the device (a header is its
pact; each change of it is assumed to come with the callback that brings the advert), `entry` the stored entry, `loaded` what its setup built, `flows` the flows
under way, `lights` the segment lights in the registry, `strip` the segments the
device really has, with history of its last reads (`hid`: a right one that no push showed,
since a self-test reads after each step and pushes once). `Finish` is `_finish` with its
second look at the pact; `SetUp` routes by header and sizes the lights; `Push` is
the listener that takes a count two reads in a row answered, of those it sees.

### FieldTest

The harness tests devices one at a time and puts each back. `device` is each
device in fact and as Home Assistant shows it, which differ after a call that
failed with its frames sent or that still runs after the harness lost it.
`journal` is the journal in the process and on disk; `run` the process: its place,
the device in hand, what remains, the notes of signals and trouble; `past` history.
The steps of one device's plan are `Step`, any number of them. `Look`, `Apply`,
`Verify` are `restore`; `Raised` and its repeat `_restore_retrying`; `Signal`,
`NoteSignal`, `PressCtrlC`, `PressAgain` (a press past those that abandon the restore)
what the signal handlers do outside and inside `signals_deferred`; `Kill` ends the process anywhere; `StartRecovery` is
`--restore-from`, from the journal on disk.

## 3. The runs

| Run | Question | Result |
|---|---|---|
| `gate_accounting` | Do tickets and their holders match the calls that hold them through every cancellation, failure, join, release and reading that fails half way (`TypeOK`, `TicketAccounting`)? Is the tick armed exactly while someone waits (`TickWhileWaiting`)? Does a step avoid a radio that carries one of our links, or a pass leave it avoided, other than a pass that broke off before it found the tickets (`CarriersNotAvoided`)? | holds |
| `gate_serving` | Does a pass admit only into room left after the pass's earlier admissions (`AdmitsWithinRoom`)? Do polls yield (`PollsYield`)? Do the calls of a pass that are past their cap go to different radios, and to none a call served before them was just admitted to (`CapsSpread`)? Is a tick ever over with an admissible command still waiting (`NoRoomLeftUnused`)? Does every waiting call go, whatever the radios report (`EveryCallGoes`)? | holds |
| `deferral` | Is a turn-off held only by the commands it met (`HoldsAsPromised`)? Does the first ending of its wait decide (`FirstEndingStands`)? Are polls held as long as it waits (`WaitHoldsPolls`)? Does every call end though commands keep coming, without the cap (`EndsWithoutCap`)? | holds |
| `deferral_reload` | With entries unloading and set up again under their calls, is a wake-up ever lost (`HeldByRunning`)? Do the counts come out (`OffTypeOK`, `CountsCalls`)? Does every burst end (`ActiveEnds`), never under its commands (`SeveralHold`), leaving no timer behind (`TailNeedsEntry`)? | holds |
| `poll_hold` | Does a background poll ever read while commands hold polls off (`NoPollUnderCommands`)? Is a held poll released by whichever of hold-off and burst ends last (`ReleasedAtOnce`)? Does a poll held apart stay so (`HeldApartStays`)? | holds |
| `poll_lifecycle` | With manual refreshes, unload, failed unload, reload, HA's stop and close: is the cap there whenever a poll is held (`PollTypeOK`, `CapWhileHeld`), is there never a second timer or one past its entry (`TimersOwned`), does the code release no poll once HA stops, and a poll come only of HA's own timer, in the close stage (`NoReleaseOnceStopping`)? | holds |
| `poll_liveness` | Does a poll held apart run in the end, against a stream of commands that never lets up (`HeldPollRuns`)? | holds |
| `first_poll_lost` | Does the first poll always run once (`FirstPollRuns`)? | violated |
| `poll_policy` | Is a scheduled device always polled again, at an interval between floor and cap (`PolledInTime`)? Do commands cut a streak's backoff short once at most (`CutOnce`)? Does an absent, unavailable device stay so while its polls stop and resume (`StaysAway`)? | holds |
| `self_test` | Does a test leave the light as it found it but for what it reports (`PutBack`)? Is the logger as the user wants it (`LoggerBack`)? Does the link close under a test only past its wait (`CloseAfterRestore`)? | holds |
| `entry_life` | Is what is built what is stored (`SetUpCurrent`)? Is a segment light removed that the device has, unless the right read between two wrong ones went by unseen (`NoLightLost`)? Is an entry created that its setup would refuse (`CreatedServable`)? | holds |
| `field_test` | Wherever the process is killed, does the journal on disk cover what it changed (`JournalCovers`)? Is another device taken up after one whose restore failed, was abandoned or was passed over (`NoneLeftBehind`; one whose state merely differs at the last check does not stop a run)? Does a signal end the run (`SignalEndsRun`), and does trouble at the fragile proxy (`FragileRests`)? | holds |

The violation is a disagreement of the code with its own comment, explained under
"findings" in `PROJECT.json`: a first poll that joins a running turn-on poll is lost
when that poll is held again (not apart) and then dropped. Others, seen while
modelling, are in section 6, and so is what the properties exempt.

### Bounds, and why they suffice

- Gate: two devices (a bulb heard by a proxy and an adapter, a nightstand heard
  by the proxy alone), one proxy and one adapter, three calls (two of them to
  one device in `gate_accounting`, so a ticket is joined, handed on and released
  by either; two devices in conflict for one proxy plus a poll in
  `gate_serving`). Each run takes the airs its question needs: a radio that is
  deaf while it carries a link and readings that fail before, while or after radios are
  avoided for the accounting (whose proof covers all others), everything that makes a path unfit or a radio
  busy or full for the serving (a full radio beside one too weak lets a call admitted
  after a capped one follow it there, which `CapsSpread` allows). `MaxWait`, `Grace` and `AvoidFor` of at most one unit
  keep "before", "at" and "after" each deadline apart; the code compares against
  deadlines only.
- Deferral: three devices, the first with a queue of two (a call behind a
  turn-off, which it may hurry) and any of turn-on, turn-off and zone turn-off to
  each: two turn-offs waiting for a third device's command, one of them then
  sent, is the smallest case in which one waits on another. The reload run has
  two devices, both of which may unload, the first with an old and a new lane: two commands of one device at
  once, and an entity removed in each phase of its call. `MaxWaitingOffs` is never
  reached: a lane holds one turn-off at a time. `EndsWithoutCap` is checked
  without reloads.
- Polls: in `poll_hold` a light whose polls come due and a plug that takes commands
  (two make a burst); `HoldMax` 2 lets a poll be held, placed, held again and capped
  with the cap counting across. The lifecycle and liveness runs take the light alone
  and `HoldMax` 1: what they ask is about one coordinator, its own commands holding
  its polls off as a burst does. One command per device at a time: the count
  matters only as zero or not, and its arithmetic is `deferral_reload`'s. No more
  than one scheduled poll waits for the lock.
- Policy: `Base` 120 s doubled once passes `OnMax` 180 and `MaxInterval` 200, so each
  cap is met in the middle of a doubling; `SlowMax` 1 and `AwayAfter` 2 separate none,
  some and all. `Steps` (0..10) bounds the doublings as `_MAX_BACKOFF_STEPS` does; the
  proofs hold for any constants under `PolicyAssumption`. The counters stop
  where nothing tells them from more.
- Self-test: one light with two zones in the order of its profile, and a power command: a zone
  lit and one dark is the smallest case in which the order of the restore shows.
  `Levels` are debug, the capture's own, and another. The proofs cover several devices,
  which the global lock keeps apart.
- Entry: two flows (symmetric), two pacts of which one needs a key and one is only
  modelled, and none; strips of up to two segments. No two reads in a row are bad:
  that is the code's own assumption of the library.
- Field test: a lamp that is read back and reached by the fragile proxy, a strip that
  is neither; two presses of Ctrl-C abandon a restore (three in the code: the ones
  before the last are alike); one recovery, which starts from any journal a killed or
  ended run leaves.

### Fairness

`MCConnectGateFair`: an armed tick that would change anything fires
(`loop.call_later`), a resolved call resumes, time passes. Nothing is assumed of what the radios report
or of how long admitted calls last: that the cap admits everyone is the point.

`MCOffDeferral`: a call's task goes on and a command ends (it is bounded by
`COMMAND_TIMEOUT_SECONDS`). Nothing is assumed of time, of the cap or of new
calls: that no turn-off waits on another one, or for commands that keep coming, is
the point.

`MCPollHoldFair`: time passes, a due cap fires, a manual refresh that holds the
lock starts, the lock passes on, a queued poll gets its place (by
`EveryCallGoes` and because reads are bounded) and a read ends (the library bounds it). Nothing
is assumed of commands: they may run or arrive for ever. Of two timers due at
the same moment the cap goes first. Without that, a hold-off that ends at
exactly the cap's time, every time, could release the poll with its hold, only
for it to be held again with its cap in the past: a matter of microseconds on
the real loop. Entries are loaded first.

## 4. What is proved

For every set of devices, calls and radios and every value of the bounds (the
named ASSUMEs of each module are all that is used):

- `ConnectGateProofs`: `TypeCorrect`, `TicketsAccounted` and `TickArmed`:
  `TypeOK`, `TicketAccounting` and `TickWhileWaiting` are invariants of `Spec`.
  Their conjunction is inductive, and none of the first two is alone: a ticket's
  `holders` stays a natural number through the releases only because it counts
  the calls that hold it. The work is the pass. It is a recursive function of
  the number of calls judged; `JudgementsDefined` shows that this function
  exists and `JudgementsSound` that each step of it is sound (`SoundProgress`: the
  types, the accounting, and the calls not yet judged still wait), both by
  induction on that number. Induction is `SetInduction`, which is stated about a
  set and proved from the well-foundedness of `<`, because a theorem with an
  operator parameter cannot be instantiated. `ResolvedHolders` and
  `SameHolders` say what a step does to the set of calls that hold a ticket.
  Of single passes: `CarriersServe` (`CarriersNotAvoided`), `NoneOverbooked`
  (`AdmitsWithinRoom`), `PollsGiveWay` (`PollsYield`), `CapsGoApart` (`CapsSpread`) and
  `RoomIsUsed` (`NoRoomLeftUnused`). That no radio which carries a link is avoided
  (`Carried`) is made true where the tickets are brought up to date, and kept by every
  judgement and by what a later failure leaves of the pass; earlier failures are the
  property's exemption. For the others the induction over the judgements (`JudgementsStay`) carries
  what the pass has done so far, `SoFar`: the tickets taken and the room they leave, that
  a command left waiting marks every later poll to yield, where the capped calls went,
  and that the room a waiting command lacked can only have shrunk since. `Placed` says that an arriving call is
  the last of its class. The attempt to prove an earlier `CapsSpread` showed it false: a
  call served after a capped one may be admitted to the radio it went to.
- `CommandBurstProofs`: `BurstTypeCorrect`, `BurstEndable`, `BurstHolds`,
  `NoTailLeftBehind`: the tracker's types and invariants, for callers that call it
  in any order. They are inductive
  together: that no tail runs beside a command is what lets a shutdown drop it,
  and a tail is armed only for an active, idle tracker with an entry loaded.
- `PollHoldProofs`: `PollTypes` (`PollTypeOK`), `CapRuns` (`CapWhileHeld`), `TimersKept`
  (`TimersOwned`), `YieldsPlace` (`NoPollUnderCommands`), `FreedAtOnce` (`ReleasedAtOnce`),
  `ApartKept` (`HeldApartStays`) and `NoneReleasedOnceStopping` (`NoReleaseOnceStopping`), for any
  devices, commands and caps. The coordinator's methods are functions of its poller, so
  each has a lemma of what it does to the timer, the held polls and the tasks
  (`RearmedIs`, `EndedIs`, `RefreshedIs`, `ReleasePollIs`); those that hold, release or end a poll `Moves` it:
  no read begins, a poll held apart is kept, and a poller of which nothing is left stays so. The
  invariant of a poller (`Good`) adds to the types, the cap and the timer what they need: a
  poll that may be held again has counted its wait, a manual refresh is never held, and
  no background task is left once the entry is gone, nor a due first poll there or once
  Home Assistant stops. The tracker's invariant comes from `BurstStepKept`. Each action then has
  a lemma that shows it leaves the invariant and what the action properties ask of the
  step (`Fits`). `BurstSoundUnderPolls`: the tracker's three invariants hold with the
  coordinators for its callers too.
- `OffDeferralProofs`: `WaitsAreForCommands` (`HeldByRunning`) and `PromiseKept`:
  every step of `OffDeferral` is a step of `OffHold` or none. The invariant is
  `HeldByRunning` with the types: only because the devices of a wait are all still
  busy does a notification take away just what `Quiet` takes away. The kinds of
  step have a lemma each (`FreesKept`, `StartKept`, `EndKept`, `WaitKept`).
  `DeferralTypeCorrect` (`OffTypeOK`) is part of it, and `FirstEndingDecides`
  (`FirstEndingStands`) looks at the steps that could end a wait twice.
  Of the tracker, `BurstSoundUnderCalls`: what the deferral does to it is
  one of the steps `CommandBurstProofs` covers, or `OffIsSent`; `CountsExact`
  (`CountsCalls`): each step moves one lane's call at most between sent, held and
  neither, and the counts follow (`FollowedCount`); and `PollsHeldByWaits`
  (`WaitHoldsPolls`), from the exact counts, and from the fact that a turn-off is
  only counted where another device is involved.
- `PollPolicyProofs`: `ScheduledPolled` (`PolledInTime`), `OneCut` (`CutOnce`) and
  `AbsentUnavailable` (`StaysAway`), for every interval, cap, count and number of
  doublings the assumption allows. The steps of the coordinator are functions of
  its record, so the proof is about them: each keeps it `Good` (its interval fits its
  policy step and slow steps, and one cut means the reset is used) and `Follows`
  (the grace of an absent device never comes back, and a scheduled device keeps a timer or a
  held poll); the actions then chain them, and `KeepsAway` turns `Follows` into
  `StaysAway`. `DoublingsAre` shows that the recursive function of the doublings
  exists, `Least` that the doublings that reach a cap have a least.
- `SelfTestProofs`: `LoggerGivenBack` (`LoggerBack`) and `ClosesAfterRestore`
  (`CloseAfterRestore`), for any devices, zones and levels: one test at a time, the one
  the lock names, is active; the one tracked runs; and while a capture runs, the level it
  kept is the one wanted unless the user set another. `DevicePutBack` (`PutBack`), for
  zones in any order: `Coming` says of a restore under way what it still owes each zone,
  and to which kind of operation: its colour is right or is yet painted, and no wrong one
  is the last; a zone that was lit is lit or is yet switched on, and is never switched
  off; one that was dark is dark for good or is yet switched off, with nothing after that to light it.
  `RestoreComing` shows it of every sequence `Restore` makes, in parts (`RestoreParts`),
  whatever the fixture is like by then; `ComingStep` that an operation done keeps it and that one
  that failed, landed or not, is noted in what it excuses; `ComingDone` that nothing left
  to do means put back. What `FlattenSeq` holds is `FlattenHolds`, by the same induction
  as the gate's.
- `EntryLifeProofs`: `EntrySetUpCurrent` (`SetUpCurrent`), `LightsStay` (`NoLightLost`)
  and `EntryCreatedServable` (`CreatedServable`), for any pacts, flows and strips. The
  invariant ties what is built to what is stored (`BuiltSound`), each flow's header to
  the record it was checked against (`FlowsSound`), and the count stored to the reads
  that answered it (`ReadsSound`).
- `FieldTestProofs`: `FieldTyped`, `JournalCoversAll` (`JournalCovers`), `SignalStops`
  (`SignalEndsRun`) and `FragileLeftAlone` (`FragileRests`), for any devices, presses
  and recoveries. The invariant says of each device what the journal and the history
  tell of it (`Fine`): one not begun yet is as found, one in hand was saved as touched
  before anything was sent, and one marked with certainty is as found and is never
  restored again; and of the process (`Heeding`) that what was sent is restored, and
  that a signal or trouble it noted stops it by the time it looks for the next device.
  `NoneIsLeftBehind` (`NoneLeftBehind`) adds `LeftInv`: a run that may still go on has no
  outcome that ends runs, and what it left changed and knows of differed as it was looked at.
  Each kind of step has a lemma; `KeepInv` and `HandInv` are what the steps share that
  leave the devices alone, or change the one in hand.

What is only model-checked: the liveness properties (`EveryCallGoes`, `EndsWithoutCap`,
`HeldPollRuns`) under the fairness of section 3, which, with ENABLED, is outside the
prover's reach. Every safety invariant and action property of a passing run is a theorem.
There are no RECURSIVE operators: recursion is in functions, and where what one computes
matters (a pass, the doublings of an interval, `FlattenSeq`) its existence and its steps
are proved by `SetInduction`.

## 5. Not modelled

- The library `govee_ble_local`, Bleak, habluetooth and Home Assistant are
  external: modelled as choices, where `src/` depends on them.
- `async_link_up`, log lines, the `waited` statistic of an admission, radio names.
- Of the coordinator: the command windows, the settle and the release of the link
  (only the gate's side of a release is modelled), `power_confirmed_off` (a choice
  where it is used), the jitter of intervals, RSSI.
- The optimistic state and the rules of `light.py` and `switch.py` for lights, zones
  and segments: sequences of library calls in one task, whose interleaving is
  `OffDeferral`'s.
- The registry migrations of `__init__.py`, run once at setup;
  `LogCapture`'s references; of the self-test, brightness, scenes and the report.
- How the gate's `async_release_waiters` and the link's close meet in an unload: what reaches
  the link within the one turn of the loop it is given is the library's.
- `diagnostics.py`, `sensor.py`, `binary_sensor.py`, `button.py`: read-only
  views. `scripts/`, `brands/`: generators. `tools/ha_field_test/plan.py`,
  `inventory.py`, `ha_api.py`: what they return is a choice of `FieldTest`;
  `report.py`, `masking.py`, `colour.py`: formatting.

Still worth doing, in this order: `LinkWindow` (windows, settle, the release put off
until a poll ends) composed with the gate's `releasing` count; the deferral's wait
composed with the gate's `deferredOffs`; the `LogCapture` references.

## 6. Seen while modelling

Places where code and comment, or code and intent, differ without a run of their own:

- Gate: the release check of an earlier failed call ignores the grace a later call
  gives the radio (`connect_gate.py` 440-445 against 44-46). A reading that raises after
  a pass avoided a radio (444, 482) and before it found the tickets (483) leaves that radio
  avoided although it carries one of our links, until a pass gets through; the release
  checks that were due are lost (443). `CarriersNotAvoided` exempts such a pass.
- Deferral: a call hurries only the turn-offs that already wait; one queued before
  a turn-off's wait starts is held up by it (`entity.py` 69-71). `async_drop`
  reaches the turn-offs that wait or start, not those still queued in the removed
  entity's lane, which go out later. `_CONFIRMED_OFFS` is a set, so of two turn-offs
  of one device under way across a reload the first to end makes the other count as
  a command.
- Polls: a policy step while a poll runs arms a timer that a rejected secret does
  not cancel (`coordinator.py` 1705). The first poll takes no lock, so after a manual
  refresh has overlapped it `_poll_running` is false while it still runs, and a
  released poll may begin beside it (1291, 1304, 1611).
- Stop: Home Assistant's own poll timer is not disarmed as it stops (`__init__.py`
  381-401), and `_handle_refresh_interval` asks nothing (`coordinator.py` 1293): in the
  close stage, where Home Assistant no longer refuses refreshes, a timer that fires
  then can poll over the link that was closed. The code guards its own releases against
  that (1190-1199); `NoReleaseOnceStopping` is about those.
- Burst: as it ends it releases the held polls of loaded entries only
  (`coordinator.py` 345), so a poll held while its entry is still being set up, or
  unloads and then fails to, waits for its cap, its next hold-off or another poll.
- Policy: polls halted by a rejected secret leave no mark on an absent device
  (`_lost_while_unpolled` is set when polls resume from no interval); a manual
  refresh clears `_auth_failed` and may show it available while it is absent, which is why `StaysAway`
  exempts that step.
- Self-test: `_snapshot`'s "everything" is one colour per zone, of its first segment.
- Entry: counts read between two pushes of the state are one read to the listener. A
  self-test reads after each of its steps (`capture.py` 462, 683) and pushes once
  (`services.py` 89-91), so the right answer between two bad ones can go by unseen: they
  make a row, and a light the strip has is removed, against `__init__.py` 595-596.
  `NoLightLost` exempts exactly that.
- Field test: a mark of "restored" may rest on what Home Assistant showed after a
  call that failed or was lost with no read since (an optimistic device always
  does), which `JournalCovers` exempts. A first signal that lands between the end of
  the step loop and the handlers of `signals_deferred` skips the restore; the journal
  still allows `--restore-from`. `_restore_retrying` says no other device is changed while one
  is left unrestored, but a run stops for failed calls only, not for a state that
  differs. A poll that fails in the verification is ignored.
