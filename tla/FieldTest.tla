----------------------------- MODULE FieldTest -----------------------------
(***************************************************************************)
(* The field-test harness (tools/ha_field_test/runner.py): it tests devices *)
(* one at a time through Home Assistant and puts each back, whatever stops  *)
(* it; a journal on disk lets --restore-from put back what a killed run     *)
(* left.  A device is as found or changed, in fact and as Home Assistant    *)
(* shows it: the two differ after a call that failed with its frames sent,  *)
(* or that still runs in Home Assistant after the harness lost it.          *)
(* The steps of a plan, what a restore call sets, the report and the        *)
(* household's own changes are left out.                                    *)
(***************************************************************************)
EXTENDS Naturals

CONSTANTS Devices,
          Fragile,        \* the fragile proxy can reach them
          Read,           \* their state is read back (not optimistic)
          SelfTest,       \* --self-test
          MaxPresses,     \* _ABANDON_PRESSES
          MaxRecoveries   \* bound: uses of --restore-from

VARIABLES device,   \* each device, in fact and as shown
          journal,  \* the journal in the process, and the one on disk
          run,      \* the process: where it is and what it noted
          past       \* history: what became of each device's restore
vars == <<device, journal, run, past>>

States == {"found", "changed"}
Device == [real : States, shown : States,
           running : BOOLEAN,   \* Home Assistant still runs a call the harness lost
           known : BOOLEAN]     \* no call failed or was lost since it was read
Record == [touched : BOOLEAN, restored : BOOLEAN]
Phases == {"start", "next", "put", "steps", "unwound", "look", "apply", "verify",
           "selfTest", "mark", "leave", "recoverNext", "over", "dead"}
Run == [phase : Phases,
        at : SUBSET Devices,      \* the device in hand
        left : SUBSET Devices,
        stop : BOOLEAN,           \* self.stop
        fragileStop : BOOLEAN,
        signalled : BOOLEAN,      \* the first signal was raised: only noted since
        seen : BOOLEAN,           \* signals_deferred saw one
        presses : 0..MaxPresses,
        sent : BOOLEAN,           \* something was sent to the device in hand
        attempt : 0..2, errors : BOOLEAN, again : BOOLEAN,
        ok : BOOLEAN, tested : BOOLEAN, whole : BOOLEAN,
        recovery : 0..MaxRecoveries]
Past == [sure : BOOLEAN,    \* its mark rests on a read after the last call
         outcome : {"none", "ok", "differs", "failed", "skipped"}]

ASSUME FieldAssumption ==
    /\ Fragile \subseteq Devices /\ Read \subseteq Devices
    /\ SelfTest \in BOOLEAN
    /\ MaxPresses \in Nat \ {0} /\ MaxRecoveries \in Nat

Deferring == {"look", "apply", "verify", "selfTest", "mark"}
Recovering == run.recovery > 0
InHand(d) == run.at = {d}

-----------------------------------------------------------------------------
(* Helpers.                                                                 *)

(* A process with these devices to go.                                      *)
Fresh(left, phase, recovery) ==
    [phase |-> phase, at |-> {}, left |-> left, stop |-> FALSE, fragileStop |-> FALSE,
     signalled |-> FALSE, seen |-> FALSE, presses |-> 0, sent |-> FALSE,
     attempt |-> 0, errors |-> FALSE, again |-> FALSE, ok |-> FALSE, tested |-> FALSE,
     whole |-> TRUE, recovery |-> recovery]

(* The device in hand is done with: what was noted of it alone goes.        *)
Leaving(r) ==
    [Fresh(r.left, IF Recovering THEN "recoverNext" ELSE "next", r.recovery) EXCEPT
        !.stop = r.stop, !.fragileStop = r.fragileStop, !.signalled = r.signalled,
        !.seen = r.seen]

(* Mutant of Troubled: only a recovery heeds it.                            *)
TroubledUnstopped(r, d, bad) ==
    IF bad /\ d \in Fragile THEN [r EXCEPT !.fragileStop = TRUE] ELSE r

(* _trouble: a call to a device the fragile proxy can reach failed over the *)
(* radio, was slow, or raised.                                              *)
Troubled(r, d, bad) ==
    IF bad /\ d \in Fragile THEN [r EXCEPT !.stop = TRUE, !.fragileStop = TRUE] ELSE r

(* Journal.save: atomic; it may fail, with the journal in the process ahead *)
(* of the one on disk.                                                      *)
Saved(held) == journal' = [held |-> held, disk |-> held]
Unsaved(held) == journal' = [journal EXCEPT !.held = held]

(* A command's outcomes.  Answered, Home Assistant shows what it did.  One   *)
(* that fails is refused before the radio, or may have landed, shown or     *)
(* not.  One the harness lost (it raised, or a signal cut it off) may still *)
(* run.                                                                     *)
Answered(v) == {[v EXCEPT !.real = s, !.shown = s] : s \in States}
Failed(v) == {v} \cup {[v EXCEPT !.real = s, !.shown = t, !.known = FALSE] :
                          s \in {v.real, "changed"}, t \in {v.shown, "changed"}}
Lost(v) == {[w EXCEPT !.running = TRUE, !.known = FALSE] : w \in Failed(v)} \cup Failed(v)

(* A poll reads the device, once the calls that still run to it are done;   *)
(* one that fails leaves what is shown as it was.                           *)
Polled(v) == [v EXCEPT !.shown = v.real, !.known = TRUE]
Polls(d, v) == IF d \in Read /\ ~v.running THEN {v, Polled(v)} ELSE {v}

Becomes(d, values) == device' \in {[device EXCEPT ![d] = v] : v \in values}
Keep == UNCHANGED <<device, journal, past>>

-----------------------------------------------------------------------------
(* The run.                                                                 *)

(* Every start state is saved before the first change; or the run ends.     *)
StartRun ==
    /\ run.phase = "start"
    /\ \/ Saved(journal.held) /\ run' = [run EXCEPT !.phase = "next"]
       \/ Unsaved(journal.held) /\ run' = [run EXCEPT !.phase = "over"]
    /\ UNCHANGED <<device, past>>

(* The next device is read just before its test; excluded, unread, outside  *)
(* the window or failing its poll, it is passed over.                       *)
PassOver(d) ==
    /\ run.phase = "next" /\ ~run.stop /\ d \in run.left
    /\ \E stop, bad \in BOOLEAN :
          run' = Troubled([run EXCEPT !.left = @ \ {d}, !.stop = stop], d, bad)
    /\ Keep
Prepare(d) ==
    /\ run.phase = "next" /\ ~run.stop /\ d \in run.left
    /\ run' = [run EXCEPT !.phase = "put", !.left = @ \ {d}, !.at = {d}, !.seen = FALSE]
    /\ Becomes(d, {device[d]} \cup {Polled(v) : v \in {u \in {device[d]} : ~u.running}})
    /\ UNCHANGED <<journal, past>>
EndRun ==
    /\ \/ run.phase = "next" /\ (run.stop \/ run.left = {})
       \/ run.phase = "recoverNext" /\ (run.fragileStop \/ run.left = {})
    /\ run' = [run EXCEPT !.phase = "over"]
    /\ Keep

(* Mutant of Put: the record is only saved with the mark at the end.        *)
PutUnsaved(d) ==
    LET held == [journal.held EXCEPT ![d] = [touched |-> TRUE, restored |-> FALSE]]
    IN  /\ run.phase = "put" /\ InHand(d)
        /\ Unsaved(held) /\ run' = [run EXCEPT !.phase = "steps"]
        /\ UNCHANGED <<device, past>>

(* Its record is saved again, as touched, before its first step.            *)
Put(d) ==
    LET held == [journal.held EXCEPT ![d] = [touched |-> TRUE, restored |-> FALSE]]
    IN  /\ run.phase = "put" /\ InHand(d)
        /\ \/ Saved(held) /\ run' = [run EXCEPT !.phase = "steps"]
           \/ Unsaved(held) /\ run' = [run EXCEPT !.phase = "unwound", !.stop = TRUE]
        /\ UNCHANGED <<device, past>>

(* A step: its call is answered, and read back or not; fails; or raises, as *)
(* what Home Assistant is asked beside it may, which ends the test, as      *)
(* trouble at the fragile proxy does.                                       *)
Step(d) ==
    /\ run.phase = "steps" /\ InHand(d)
    /\ \E bad \in BOOLEAN :
          LET r == Troubled([run EXCEPT !.sent = TRUE], d, bad)
              after == IF r.fragileStop THEN "unwound" ELSE "steps"
              ended == Failed(device[d]) \cup UNION {Polls(d, v) : v \in Answered(device[d])}
          IN  \/ Becomes(d, ended) /\ run' = [r EXCEPT !.phase = after]
              \/ \E call \in BOOLEAN :
                    /\ Becomes(d, IF call THEN Lost(device[d]) ELSE ended)
                    /\ run' = [Troubled(r, d, call) EXCEPT !.phase = "unwound", !.stop = TRUE]
    /\ UNCHANGED <<journal, past>>

(* The steps are done, or the window closes.                                *)
EndSteps ==
    /\ run.phase = "steps"
    /\ \E late \in BOOLEAN :
          /\ late \/ run.sent
          /\ run' = [run EXCEPT !.phase = "unwound", !.stop = @ \/ late]
    /\ Keep

(* _finish_device: signals are deferred from here on.                       *)
BeginFinish ==
    /\ run.phase = "unwound"
    /\ run' = [run EXCEPT !.phase = IF run.sent THEN "look" ELSE "mark", !.ok = TRUE]
    /\ Keep

-----------------------------------------------------------------------------
(* The restore.                                                             *)

(* Mutant of Restored: only a restore that raised stops the run.            *)
RestoredHeedless(r, d, ok, failed) ==
    LET tests == SelfTest /\ ~Recovering /\ ~r.tested /\ ok /\ ~r.stop /\ ~r.seen
    IN  /\ run' = [r EXCEPT !.ok = ok, !.phase = IF tests THEN "selfTest" ELSE "mark"]
        /\ past' = [past EXCEPT ![d].outcome =
                       IF ok THEN "ok" ELSE IF failed THEN "failed" ELSE "differs"]

(* restore ends: with failed calls the run stops; then comes the self-test, *)
(* or the mark.                                                             *)
Restored(r, d, ok, failed) ==
    LET s == [r EXCEPT !.ok = ok, !.stop = @ \/ (failed /\ ~Recovering)]
        tests == SelfTest /\ ~Recovering /\ ~r.tested /\ ok /\ ~s.stop /\ ~s.seen
    IN  /\ run' = [s EXCEPT !.phase = IF tests THEN "selfTest" ELSE "mark"]
        /\ past' = [past EXCEPT ![d].outcome =
                       IF ok THEN "ok" ELSE IF failed THEN "failed" ELSE "differs"]

(* A request raised: the restore is made once more on a new connection.  A  *)
(* recovery gives the device up.                                            *)
Raised(r, d) ==
    IF Recovering THEN run' = Leaving(r) /\ UNCHANGED past
    ELSE IF r.again THEN Restored(r, d, FALSE, TRUE)
    ELSE run' = [r EXCEPT !.phase = "look", !.again = TRUE] /\ UNCHANGED past

(* What Home Assistant shows now: a device shown as found is left alone.    *)
(* Without its relays a device may look as found.                           *)
Differs(v) == {v.shown = "changed"} \cup (IF run.whole THEN {} ELSE {FALSE})
Look(d) ==
    /\ run.phase = "look" /\ InHand(d)
    /\ \/ \E differs \in Differs(device[d]) :
             IF differs THEN run' = [run EXCEPT !.phase = "apply", !.attempt = 1] /\ UNCHANGED past
             ELSE Restored(run, d, TRUE, FALSE)
       \/ Raised(run, d)
    /\ UNCHANGED <<device, journal>>

(* The restore's calls, in order, skipping those whose entity is shown as   *)
(* found: some fail, or raise, as asking what is shown may.  One that lands *)
(* late only puts back.                                                     *)
Applied(v) ==
    IF v.known THEN Answered(v)
    ELSE {[v EXCEPT !.real = s, !.shown = t] : s \in States, t \in States}
Apply(d) ==
    /\ run.phase = "apply" /\ InHand(d)
    /\ \E errors, bad \in BOOLEAN :
          LET r == [Troubled(run, d, bad) EXCEPT !.phase = "verify", !.errors = errors]
          IN  \/ /\ Becomes(d, IF errors THEN Failed(device[d]) ELSE Applied(device[d]))
                 /\ run' = r /\ UNCHANGED past
              \/ /\ Becomes(d, Failed(device[d]))
                 /\ \E call \in BOOLEAN : Raised(Troubled(r, d, call), d)
    /\ UNCHANGED journal

(* It is polled, and compared with its record: put back, tried again, or    *)
(* given up; either may raise.                                              *)
Verify(d) ==
    /\ run.phase = "verify" /\ InHand(d)
    /\ \E bad \in BOOLEAN :
          LET r == Troubled(run, d, bad /\ d \in Read)
          IN  \/ \E v \in Polls(d, device[d]) :
                    /\ Becomes(d, {v})
                    /\ \E differs \in Differs(v) :
                          IF ~differs /\ ~r.errors THEN Restored(r, d, TRUE, FALSE)
                          ELSE IF r.attempt = 2 THEN Restored(r, d, FALSE, r.errors)
                          ELSE /\ run' = [r EXCEPT !.phase = "apply", !.attempt = 2]
                               /\ UNCHANGED past
              \/ /\ Becomes(d, Polls(d, device[d]))
                 /\ \E poll \in BOOLEAN : Raised(Troubled(r, d, poll /\ d \in Read), d)
    /\ UNCHANGED journal

(* The self-test, through its button, takes the device through many states; *)
(* the device is put back again after it, whatever became of it: its call   *)
(* may raise, or asking for its results.  Outside the window it isn't run.  *)
PressSelfTest(d) ==
    /\ run.phase = "selfTest" /\ InHand(d)
    /\ \/ /\ run' = [run EXCEPT !.phase = "mark", !.stop = TRUE]
          /\ UNCHANGED device
       \/ \E raised, bad \in BOOLEAN :
             LET r == Troubled(run, d, bad)
             IN  /\ run' = [r EXCEPT !.phase = "look", !.tested = TRUE, !.attempt = 0,
                                     !.again = FALSE, !.errors = FALSE, !.stop = @ \/ raised]
                 /\ Becomes(d, IF raised /\ bad THEN Lost(device[d]) ELSE Failed(device[d]))
    /\ UNCHANGED <<journal, past>>

(* The journal says whether the device was put back.  (A run whose journal  *)
(* can't be saved ends.)                                                    *)
Mark(d) ==
    LET held == [journal.held EXCEPT ![d].restored = run.ok /\ run.whole]
    IN  /\ run.phase = "mark" /\ InHand(d)
        /\ \/ Saved(held) /\ run' = [run EXCEPT !.phase = "leave"]
           \/ Unsaved(held) /\ run' = [Leaving(run) EXCEPT !.stop = ~Recovering]
        /\ past' = [past EXCEPT ![d].sure = IF held[d].restored THEN device[d].known ELSE @]
        /\ UNCHANGED device

(* Mutant of Leave: a signal noted while restoring is forgotten.            *)
LeaveUnheeding ==
    /\ run.phase = "leave"
    /\ run' = Leaving(run)
    /\ Keep

(* The device is done with; a signal seen meanwhile stops the run.          *)
Leave ==
    /\ run.phase = "leave"
    /\ run' = [Leaving(run) EXCEPT !.stop = @ \/ run.seen]
    /\ Keep

-----------------------------------------------------------------------------
(* Signals, and the end of the process.                                     *)

(* The first signal is raised where the run is: it ends the test, or passes *)
(* over the restore that was about to begin.  From then on signals are      *)
(* only noted.                                                              *)
Signal ==
    /\ ~Recovering /\ ~run.signalled
    /\ LET r == [run EXCEPT !.signalled = TRUE, !.stop = TRUE]
       IN  \/ /\ run.phase = "next"
             /\ run' = [r EXCEPT !.phase = "over"] /\ UNCHANGED <<device, past>>
          \/ /\ run.phase \in {"put", "steps"}
             /\ run' = [r EXCEPT !.phase = "unwound",
                                 !.sent = @ \/ run.phase = "steps"]
             /\ IF run.phase = "put" THEN UNCHANGED device
                ELSE \E d \in run.at : Becomes(d, Lost(device[d]))
             /\ UNCHANGED past
          \/ /\ run.phase \in {"unwound", "leave"}
             /\ run' = Leaving(r)
             /\ past' = [d \in Devices |->
                  IF d \in run.at /\ run.phase = "unwound"
                  THEN [past[d] EXCEPT !.outcome = "skipped"] ELSE past[d]]
             /\ UNCHANGED device
    /\ UNCHANGED journal

(* While a device is put back signals are noted; the third Ctrl-C abandons  *)
(* the restore.                                                             *)
NoteSignal(d) ==
    /\ run.phase \in Deferring /\ InHand(d)
    /\ run' = [run EXCEPT !.seen = TRUE]
    /\ Keep
PressCtrlC(d) ==
    /\ run.phase \in Deferring /\ InHand(d) /\ run.presses < MaxPresses
    /\ LET r == [run EXCEPT !.seen = TRUE, !.presses = @ + 1]
       IN  IF r.presses < MaxPresses THEN run' = r /\ UNCHANGED <<device, past>>
           ELSE /\ run' = IF Recovering THEN Leaving(r)
                          ELSE IF r.phase = "mark" THEN [r EXCEPT !.phase = "leave"]
                          ELSE [r EXCEPT !.phase = "mark", !.ok = FALSE, !.stop = TRUE]
                /\ Becomes(d, IF r.phase \in {"apply", "selfTest"} THEN Lost(device[d])
                              ELSE {device[d]})
                /\ past' = [past EXCEPT ![d].outcome = "failed"]
    /\ UNCHANGED journal

(* A press after those: it cuts off the mark, or ends the process as the    *)
(* abandoned restore is noted.                                              *)
PressAgain(d) ==
    /\ run.phase = "mark" /\ InHand(d) /\ ~Recovering /\ run.presses = MaxPresses
    /\ run' \in {[run EXCEPT !.phase = "leave", !.seen = TRUE], Fresh({}, "over", 0)}
    /\ Keep

(* The process is killed, or its host loses power: a call may be cut off.   *)
Kill ==
    /\ run.phase \notin {"over", "dead"}
    /\ run' = Fresh({}, "dead", run.recovery)
    /\ device' \in {device} \cup
          {[device EXCEPT ![d] = v] : d \in run.at, v \in
              UNION {IF run.phase \in {"steps", "apply", "selfTest"} THEN Lost(device[e])
                     ELSE {} : e \in run.at}}
    /\ UNCHANGED <<journal, past>>

(* A call the harness lost ends in Home Assistant.                          *)
LateEnd(d) ==
    /\ device[d].running
    /\ \E s \in {device[d].real, "changed"} :
          Becomes(d, {[device[d] EXCEPT !.running = FALSE, !.real = s, !.shown = t] :
                         t \in {device[d].shown, s}})
    /\ UNCHANGED <<journal, run, past>>

-----------------------------------------------------------------------------
(* The recovery (--restore-from), for the devices whose test began and that *)
(* aren't marked put back, or for all whose test began (--all).             *)
StartRecovery ==
    /\ run.phase \in {"over", "dead"} /\ run.recovery < MaxRecoveries
    /\ \E all \in BOOLEAN :
          run' = Fresh({d \in Devices : LET r == journal.disk[d]
                                        IN  r.touched /\ (all \/ ~r.restored)},
                       "recoverNext", run.recovery + 1)
    /\ Saved(journal.disk)
    /\ UNCHANGED <<device, past>>

(* A device that has gone, or whose relays aren't confirmed, is left alone. *)
LeaveAlone(d) ==
    /\ run.phase = "recoverNext" /\ ~run.fragileStop /\ d \in run.left
    /\ run' = [run EXCEPT !.left = @ \ {d}]
    /\ Keep
(* One shown as found is marked; another is put back, all of it or without  *)
(* relays that weren't confirmed.                                           *)
Recover(d) ==
    /\ run.phase = "recoverNext" /\ ~run.fragileStop /\ d \in run.left
    /\ \E whole \in BOOLEAN :
          LET r == [run EXCEPT !.left = @ \ {d}, !.at = {d}, !.seen = FALSE, !.ok = TRUE]
          IN  run' = IF device[d].shown = "found" THEN [r EXCEPT !.phase = "mark", !.whole = TRUE]
                     ELSE [r EXCEPT !.phase = "look", !.whole = whole]
    /\ Keep

-----------------------------------------------------------------------------

FieldInit ==
    LET none == [d \in Devices |-> [touched |-> FALSE, restored |-> FALSE]]
    IN  /\ device = [d \in Devices |-> [real |-> "found", shown |-> "found",
                                        running |-> FALSE, known |-> TRUE]]
        /\ journal = [held |-> none, disk |-> none]
        /\ run = Fresh(Devices, "start", 0)
        /\ past = [d \in Devices |-> [sure |-> FALSE, outcome |-> "none"]]

FieldNext ==
    \/ StartRun \/ EndRun \/ EndSteps \/ BeginFinish \/ Leave
    \/ Signal \/ Kill \/ StartRecovery
    \/ \E d \in Devices :
          \/ PassOver(d) \/ Prepare(d) \/ Put(d) \/ Step(d)
          \/ Look(d) \/ Apply(d) \/ Verify(d) \/ PressSelfTest(d) \/ Mark(d)
          \/ NoteSignal(d) \/ PressCtrlC(d) \/ PressAgain(d)
          \/ LateEnd(d) \/ LeaveAlone(d) \/ Recover(d)

FieldSpec == FieldInit /\ [][FieldNext]_vars

-----------------------------------------------------------------------------
FieldTypeOK ==
    /\ device \in [Devices -> Device]
    /\ journal \in [held : [Devices -> Record], disk : [Devices -> Record]]
    /\ run \in Run
    /\ past \in [Devices -> Past]

(* Whatever kills the process, and wherever, the journal on disk covers     *)
(* what the run did: a device that is changed, or still has a call of the   *)
(* run coming, is in it as tested and not as put back, so --restore-from    *)
(* considers it; unless its mark rests on what Home Assistant showed after  *)
(* a call that failed or was lost, with no read since.                      *)
JournalCovers ==
    \A d \in Devices :
        device[d].real = "changed" \/ device[d].running =>
            /\ journal.disk[d].touched
            /\ journal.disk[d].restored => ~past[d].sure

(* No other device is tested after one was left with failed restore calls,  *)
(* abandoned, or passed over by a signal; one left changed differs as the   *)
(* last check said, or as nothing showed.                                   *)
TakesUp(d) == run.phase = "next" /\ run'.phase = "put" /\ run'.at = {d}
NoneLeftBehind ==
    [][\A d \in Devices : TakesUp(d) =>
          \A e \in Devices \ {d} :
              /\ past[e].outcome \notin {"failed", "skipped"}
              /\ device[e].real = "changed" /\ device[e].known => past[e].outcome = "differs"]_vars

(* A signal ends the run after the device in hand, whenever it comes and    *)
(* however many follow.                                                     *)
SignalEndsRun ==
    [][run.signalled \/ run.seen => ~\E d \in Devices : TakesUp(d)]_vars

(* Trouble with a device the fragile proxy can reach, at whatever call,     *)
(* ends the run or the recovery: no other device is connected to after it.  *)
FragileRests ==
    [][run.fragileStop /\ run'.fragileStop => run'.at \subseteq run.at]_vars

=============================================================================
