------------------------------ MODULE SelfTest ------------------------------
(***************************************************************************)
(* The self-test (capture.py) and who waits for it: it drives a device      *)
(* through what it can do and puts it back, one device at a time, while the *)
(* library's log is captured; an unload or Home Assistant's stop waits for  *)
(* it before the link closes (__init__.py).  A light is its zones, lit or   *)
(* not and in a colour each (a light without zones is one); brightness and  *)
(* the gradual flag, which no other step touches, are left out, as is the   *)
(* report but for what could not be put back.  Nobody else uses the device. *)
(***************************************************************************)
EXTENDS SequencesExt

CONSTANTS Devices, Zones,
          ZoneOrder,     \* the zones in the order the profile lists them
          Powered,       \* devices with a power command of their own
          Levels,        \* levels of the library's logger
          MayStop        \* whether Home Assistant may stop

VARIABLES fixture,   \* each device, physically
          test,      \* the last self-test of each device
          lock,      \* _SELF_TEST_LOCK: the device whose test holds it, in a set
          tracked,   \* data.self_test: none, running or done
          entry,     \* the config entry, and its wait for the test
          logger     \* the library's logger, what a capture kept of it, and
                     \* the level the user wants of it (history)
vars == <<fixture, test, lock, tracked, entry, logger>>

Values == {"own", "test"}
Fixture == [lit : [Zones -> BOOLEAN], paint : [Zones -> Values]]
Fields == {"power", "zones", "paint"}

ASSUME SelfTestAssumption ==
    /\ Zones # {} /\ ZoneOrder \in Seq(Zones) /\ \A z \in Zones : \E i \in DOMAIN ZoneOrder : ZoneOrder[i] = z
    /\ {"warning", "debug"} \subseteq Levels /\ Powered \subseteq Devices /\ MayStop \in BOOLEAN

On(f) == \E z \in Zones : f.lit[z]
All(x) == [z \in Zones |-> x]

-----------------------------------------------------------------------------
(* The operations of a test, and what the fixture does on one: switched on, *)
(* or coloured while off, it lights every zone.                             *)

Power(b) == [does |-> "power", of |-> Zones, to |-> b]
ZonePower(z, b) == [does |-> "zones", of |-> {z}, to |-> b]
Paint(zs, v) == [does |-> "paint", of |-> zs, to |-> v]

Driven(f, op) ==
    CASE op.does \in {"power", "zones"} ->
            [f EXCEPT !.lit = [z \in Zones |-> IF z \in op.of THEN op.to ELSE @[z]]]
      [] op.does = "paint" ->
            [f EXCEPT !.paint = [z \in Zones |-> IF z \in op.of THEN op.to ELSE @[z]],
                      !.lit = IF On(f) THEN @ ELSE All(TRUE)]

If(b, s) == IF b THEN s ELSE <<>>
(* These zones are switched, in order.                                      *)
Switched(zs, b) ==
    FlattenSeq([i \in DOMAIN ZoneOrder |->
                   If(ZoneOrder[i] \in zs, <<ZonePower(ZoneOrder[i], b)>>)])

(* _exercise: the fixture, its zones, and its power last, unless it isn't   *)
(* known what it was.                                                       *)
Exercise(d, snap) ==
    LET ZoneSteps(z) == <<ZonePower(z, TRUE), Paint({z}, "test"), ZonePower(z, FALSE)>>
    IN  If(d \in Powered, <<Power(TRUE)>>)
        \o <<Paint(Zones, "test")>>
        \o FlattenSeq([i \in DOMAIN ZoneOrder |-> ZoneSteps(ZoneOrder[i])])
        \o If(d \in Powered /\ "power" \in snap.known, <<Power(FALSE)>>)

(* _restore_colour: the whole device, then its zones on top.                *)
Repaint(snap) ==
    If("paint" \in snap.known,
       <<Paint(Zones, snap.was.paint[ZoneOrder[1]])>>
       \o [i \in DOMAIN ZoneOrder |-> Paint({ZoneOrder[i]}, snap.was.paint[ZoneOrder[i]])])

(* Mutant of Restore: what was off is switched off before the colours.      *)
RestoreOffFirst(d, snap) ==
    LET Zoned(b) == Switched({z \in Zones : snap.was.lit[z] = b}, b)
    IN  If("zones" \in snap.known, Zoned(TRUE) \o Zoned(FALSE)) \o Repaint(snap)

(* _restore: what was on is switched on first, then the colours, then what  *)
(* was off is switched off.                                                 *)
Restore(d, snap) ==
    LET f == snap.was
        power == d \in Powered /\ "power" \in snap.known
        Zoned(b) == If("zones" \in snap.known, Switched({z \in Zones : f.lit[z] = b}, b))
    IN  (IF power THEN If(On(f), <<Power(TRUE)>>) ELSE Zoned(TRUE))
        \o Repaint(snap)
        \o (IF power /\ ~On(f) THEN <<Power(FALSE)>> ELSE Zoned(FALSE))

-----------------------------------------------------------------------------
Unkept == [level |-> "warning", pinned |-> FALSE, propagate |-> TRUE]

(* The capture of the library's log.  Home Assistant pins a logger whose    *)
(* level the user set: its plain setter is then ignored.                    *)

Captured(l) ==
    [l EXCEPT !.kept = [level |-> l.level, pinned |-> l.pinned /\ l.level # "debug",
                        propagate |-> l.propagate],
              !.level = "debug", !.propagate = FALSE, !.capturing = TRUE]

(* Mutant of Released: the level kept is set past any pin.                  *)
ReleasedPastPin(l) ==
    [l EXCEPT !.propagate = l.kept.propagate, !.capturing = FALSE, !.kept = Unkept,
              !.level = IF @ = "debug" THEN l.kept.level ELSE @]

(* The level goes back if nobody changed it meanwhile, past a pin only if   *)
(* there was one before.                                                    *)
Released(l) ==
    [l EXCEPT !.propagate = l.kept.propagate, !.capturing = FALSE, !.kept = Unkept,
              !.level = IF @ = "debug" /\ (l.kept.pinned \/ ~l.pinned) THEN l.kept.level ELSE @]

(* The user sets its level, at any time.  (Asked for debug during a capture *)
(* of a logger already pinned, it can't be told from the capture's own.)    *)
SetLevel(level) ==
    /\ logger' = [logger EXCEPT !.level = level, !.pinned = TRUE,
          !.wanted = IF logger.capturing /\ logger.kept.pinned /\ level = "debug"
                     THEN logger.kept.level ELSE level]
    /\ UNCHANGED <<fixture, test, lock, tracked, entry>>

-----------------------------------------------------------------------------
(* A test: its phase, the operations left of it, the kinds of those of its  *)
(* restore that failed, whether it began as Home Assistant stopped, whether *)
(* its link is closed, and its snapshot: the fields known, and whether read.*)

NoTest == [phase |-> "none", todo |-> <<>>, failed |-> {}, late |-> FALSE, cut |-> FALSE,
           snap |-> [known |-> {}, was |-> [lit |-> All(FALSE), paint |-> All("own")],
                     read |-> FALSE]]
Busy == lock # {}
Active(d) == test[d].phase \in {"read", "exercise", "restore"}

(* Mutant of Press: the task of the newest press is tracked, refused or not. *)
PressNewest(d) ==
    /\ entry[d] \in {"loaded", "unloading", "failed", "stopping"}
    /\ UNCHANGED <<fixture, entry>>
    /\ tracked' = [tracked EXCEPT ![d] = IF Busy THEN "done" ELSE "running"]
    /\ IF Busy THEN UNCHANGED <<lock, test, logger>>
       ELSE /\ lock' = {d}
            /\ test' = [test EXCEPT ![d] = [NoTest EXCEPT !.phase = "read",
                                                          !.late = entry[d] = "stopping"]]
            /\ logger' = Captured(logger)

(* Its button is pressed, or the service called: refused as busy in the     *)
(* same step (its task starts eagerly) while any test runs, it is tracked   *)
(* unless one that runs is.                                                 *)
Press(d) ==
    /\ entry[d] \in {"loaded", "unloading", "failed", "stopping"}
    /\ UNCHANGED <<fixture, entry>>
    /\ tracked' = [tracked EXCEPT ![d] = IF ~Busy THEN "running" ELSE
                                         IF @ = "running" THEN @ ELSE "done"]
    /\ IF Busy THEN UNCHANGED <<lock, test, logger>>
       ELSE /\ lock' = {d}
            /\ test' = [test EXCEPT ![d] = [NoTest EXCEPT !.phase = "read",
                                                          !.late = entry[d] = "stopping"]]
            /\ logger' = Captured(logger)

(* The test's task ends, however it does: the capture ends, the lock is     *)
(* free.                                                                    *)
Ends(d, t) ==
    /\ test' = [test EXCEPT ![d] = t]
    /\ lock' = {}
    /\ tracked' = [tracked EXCEPT ![d] = IF @ = "running" THEN "done" ELSE @]
    /\ logger' = Released(logger)
    /\ UNCHANGED <<fixture, entry>>

(* The device is read, and what it shows is kept; if it can't be read, what *)
(* was last known of it: nothing, or an older state.                        *)
ReadFirst(d) ==
    /\ test[d].phase = "read"
    /\ \E read \in BOOLEAN, known \in SUBSET Fields,
          was \in {fixture[d], [lit |-> All(FALSE), paint |-> All("own")]} :
          /\ IF read THEN was = fixture[d] /\ ~test[d].cut
             ELSE was = [lit |-> All(FALSE), paint |-> All("own")] /\ known \in {{}, Fields}
          /\ LET snap == [known |-> known, was |-> was, read |-> read]
             IN  test' = [test EXCEPT ![d] = [@ EXCEPT !.phase = "exercise", !.snap = snap,
                                                       !.todo = Exercise(d, snap)]]
    /\ UNCHANGED <<fixture, lock, tracked, entry, logger>>

(* A step is done with; of the restore's, those that fail are noted.        *)
Continued(d, failed) ==
    LET t == [test[d] EXCEPT !.todo = Tail(@),
                             !.failed = IF failed /\ test[d].phase = "restore"
                                        THEN @ \cup {Head(test[d].todo).does} ELSE @]
    IN  test' = [test EXCEPT ![d] = t]

(* A step: acknowledged; or failed with its frames landed, or not; or       *)
(* refused, once the link closed.                                           *)
Operate(d) ==
    /\ test[d].phase \in {"exercise", "restore"} /\ test[d].todo # <<>>
    /\ \E lands, acked \in BOOLEAN :
          /\ acked => lands
          /\ lands => ~test[d].cut
          /\ fixture' = IF lands THEN [fixture EXCEPT ![d] = Driven(@, Head(test[d].todo))]
                        ELSE fixture
          /\ Continued(d, ~acked)
    /\ UNCHANGED <<lock, tracked, entry, logger>>

(* The exercise is done, or cancelled with its caller: the device is put    *)
(* back either way.                                                         *)
PutBackNext(d) ==
    /\ test[d].phase = "exercise"
    /\ test' = [test EXCEPT ![d] = [@ EXCEPT !.phase = "restore",
                                             !.todo = Restore(d, test[d].snap)]]
    /\ UNCHANGED <<fixture, lock, tracked, entry, logger>>
EndTest(d) ==
    /\ test[d].phase = "restore" /\ test[d].todo = <<>>
    /\ Ends(d, [NoTest EXCEPT !.phase = "ended"])

(* The secret is rejected, or the task is cancelled again as it puts the    *)
(* device back, or as it reads: it ends as it is.                           *)
Abandon(d) ==
    /\ Active(d)
    /\ Ends(d, NoTest)

-----------------------------------------------------------------------------
(* Unload and stop.                                                         *)

EntryBecomes(d, from, to) ==
    /\ entry[d] = from /\ entry' = [entry EXCEPT ![d] = to]
    /\ UNCHANGED <<fixture, test, lock, tracked, logger>>

(* The entry unloads: its button goes, then it waits for the test.          *)
StartUnload(d) == EntryBecomes(d, "loaded", "unloading")
FailUnload(d) == EntryBecomes(d, "unloading", "failed")
UnloadPlatforms(d) == EntryBecomes(d, "unloading", "waiting")
(* Home Assistant stops: every entry waits for its test.                    *)
Stop(d) ==
    /\ MayStop
    /\ EntryBecomes(d, "loaded", "stopping") \/ EntryBecomes(d, "failed", "stopping")

(* The link closes, which refuses what comes after.                         *)
CloseLink(d) ==
    /\ entry[d] \in {"waiting", "stopping"}
    /\ entry' = [entry EXCEPT ![d] = IF @ = "waiting" THEN "closed" ELSE "stopped"]
    /\ test' = [test EXCEPT ![d].cut = Active(d)]
    /\ UNCHANGED <<fixture, lock, tracked, logger>>
(* The test has ended, or the wait for it times out.                        *)
Close(d) == tracked[d] # "running" /\ CloseLink(d)
TimeOut(d) == tracked[d] = "running" /\ CloseLink(d)

(* Set up again: a test that outlived the wait still runs, on the old link. *)
SetUp(d) ==
    /\ entry[d] = "closed"
    /\ entry' = [entry EXCEPT ![d] = "loaded"]
    /\ tracked' = [tracked EXCEPT ![d] = "none"]
    /\ UNCHANGED <<fixture, test, lock, logger>>

-----------------------------------------------------------------------------

(* Devices as anyone left them; a logger pinned or not.                     *)
TestInit ==
    /\ fixture \in [Devices -> {[lit |-> l, paint |-> All("own")] :
                                   l \in [Zones -> BOOLEAN]}]
    /\ test = [d \in Devices |-> NoTest]
    /\ lock = {}
    /\ tracked = [d \in Devices |-> "none"]
    /\ entry = [d \in Devices |-> "loaded"]
    /\ logger = [level |-> "warning", pinned |-> FALSE, propagate |-> TRUE, capturing |-> FALSE,
                 kept |-> Unkept, wanted |-> "warning"]

TestNext ==
    \/ \E level \in Levels : SetLevel(level)
    \/ \E d \in Devices :
          \/ Press(d) \/ ReadFirst(d) \/ Operate(d) \/ PutBackNext(d) \/ EndTest(d) \/ Abandon(d)
          \/ StartUnload(d) \/ FailUnload(d) \/ UnloadPlatforms(d) \/ Stop(d)
          \/ Close(d) \/ TimeOut(d) \/ SetUp(d)

TestSpec == TestInit /\ [][TestNext]_vars

-----------------------------------------------------------------------------

(* A test that read the device first leaves it as it was, save for what the *)
(* restore could not put back and said so (async_run_self_test: "the full   *)
(* pre-test state is captured up front and restored at the end"; _restore:  *)
(* "the final word is the original on/off state").                          *)
PutBack ==
    [][\A d \in Devices :
        LET t == test[d]
            Kept(field) == field \in t.snap.known \ t.failed
        IN  t.phase = "restore" /\ test'[d].phase = "ended" /\ t.snap.read =>
               /\ Kept("zones") /\ "power" \notin t.failed => fixture[d].lit = t.snap.was.lit
               /\ d \in Powered /\ Kept("power") => On(fixture[d]) = On(t.snap.was)
               /\ Kept("paint") => fixture[d].paint = t.snap.was.paint]_vars

(* The link closes under a test only when the wait for it timed out: the    *)
(* one tracked is the one that runs, however often the button is pressed,   *)
(* unless it began once Home Assistant was stopping.                        *)
CloseAfterRestore ==
    [][\A d \in Devices :
          test'[d].cut /\ ~test[d].cut /\ Active(d) => tracked[d] = "running" \/ test[d].late]_vars

(* After a capture the library's logger is as the user wants it: a level    *)
(* set during it stays, and it propagates again (session_capture: "restored *)
(* on exit - the level only if nobody changed it meanwhile").               *)
LoggerBack ==
    lock = {} => logger.propagate /\ logger.level = logger.wanted

=============================================================================
