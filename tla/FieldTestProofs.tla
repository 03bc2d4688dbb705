-------------------------- MODULE FieldTestProofs --------------------------
(***************************************************************************)
(* The field test, proved for any devices, presses and recoveries: the      *)
(* journal on disk covers what a run changes wherever it is killed, a       *)
(* signal, or trouble at the fragile proxy, ends the run, and a run goes on *)
(* to another device only with none left unrestored behind it.              *)
(***************************************************************************)
EXTENDS FieldTest, TLAPS

-----------------------------------------------------------------------------
(* The invariant.                                                           *)

Testing == {"start", "next", "put", "steps", "unwound"}
Restoring == {"look", "apply", "verify", "selfTest"}

(* The process: one device in hand, restored only if something was sent to  *)
(* it; a signal or trouble it noted stops it before the next device.        *)
Heeding(r) ==
    /\ r \in Run /\ (\A d, e \in r.at : d = e) /\ r.at \cap r.left = {}
    /\ r.recovery > 0 => r.phase \notin Testing
    /\ r.recovery = 0 /\ r.phase \in Restoring => r.sent
    /\ r.recovery = 0 /\ (r.signalled \/ r.fragileStop) => r.stop
    /\ r.phase = "next" /\ r.seen => r.stop
    /\ r.phase \in {"start", "put", "steps", "unwound"} => ~r.seen
    /\ r.phase \in {"start", "next"} => r.at = {} /\ ~r.sent
    /\ r.phase = "recoverNext" => r.recovery > 0

(* What Home Assistant shows is so if nothing was lost since it was read.   *)
Known(v) == v \in Device /\ (v.known => v.shown = v.real /\ ~v.running)

(* A run has not come to it, or has sent nothing to it.                     *)
Pristine(d, r) == r.recovery = 0 /\ (d \in r.left \/ (d \in r.at /\ ~r.sent))
(* It may have been sent something by the process that runs.                *)
Touching(d, r) ==
    \/ d \in r.at /\ (r.sent \/ r.phase = "steps" \/ r.recovery > 0)
    \/ d \in r.left /\ r.recovery > 0

(* A device v, its records h in the process and k on disk, and whether its  *)
(* mark is sure: what the process may still do to it is covered.            *)
Fine(d, v, h, k, sure, r) ==
    LET restored == h.restored \/ k.restored
    IN  /\ Known(v) /\ h \in Record /\ k \in Record /\ sure \in BOOLEAN
        /\ k.touched => h.touched
        /\ Pristine(d, r) \/ ~k.touched => v.real = "found" /\ ~v.running
        /\ Touching(d, r) => k.touched
        /\ r.recovery = 0 /\ (d \in r.left \/ (d \in r.at /\ r.phase # "leave")) => ~restored
        /\ restored /\ sure => v.known /\ v.real = "found"
        /\ d \in r.at /\ r.phase \in Restoring => ~(restored /\ sure)
        /\ d \in r.at /\ r.phase \in {"mark", "selfTest"} /\ r.ok /\ r.whole /\ v.known =>
              v.real = "found"

Shape ==
    /\ device \in [Devices -> Device]
    /\ journal \in [held : [Devices -> Record], disk : [Devices -> Record]]
    /\ past \in [Devices -> Past]
FieldInv ==
    /\ Shape /\ Heeding(run)
    /\ \A d \in Devices :
          Fine(d, device[d], journal.held[d], journal.disk[d], past[d].sure, run)

LEMMA FreshIs ==
    ASSUME NEW left \in SUBSET Devices, NEW phase \in Phases, NEW n \in 0..MaxRecoveries
    PROVE  LET r == Fresh(left, phase, n)
           IN  /\ r \in Run /\ r.phase = phase /\ r.at = {} /\ r.left = left /\ r.recovery = n
               /\ ~r.stop /\ ~r.fragileStop /\ ~r.signalled /\ ~r.seen /\ ~r.sent
  BY FieldAssumption DEF Fresh, Run

LEMMA LeavingIs ==
    ASSUME NEW r \in Run
    PROVE  LET s == Leaving(r)
           IN  /\ s \in Run /\ s.at = {} /\ ~s.sent
               /\ s.left = r.left /\ s.recovery = r.recovery
               /\ s.phase = IF Recovering THEN "recoverNext" ELSE "next"
               /\ s.stop = r.stop /\ s.fragileStop = r.fragileStop
               /\ s.signalled = r.signalled /\ s.seen = r.seen
<1> DEFINE phase == IF Recovering THEN "recoverNext" ELSE "next"
           f == Fresh(r.left, phase, r.recovery)
<1>1. /\ f \in Run /\ f.at = {} /\ ~f.sent /\ f.left = r.left /\ f.recovery = r.recovery
      /\ f.phase = phase
  <2>1. r.left \in SUBSET Devices /\ r.recovery \in 0..MaxRecoveries
    BY DEF Run
  <2>2. phase \in Phases
    BY DEF Phases
  <2> HIDE DEF phase
  <2> QED BY <2>1, <2>2, FreshIs
<1>2. Leaving(r) = [f EXCEPT !.stop = r.stop, !.fragileStop = r.fragileStop,
                             !.signalled = r.signalled, !.seen = r.seen]
  BY DEF Leaving
<1>3. /\ r.stop \in BOOLEAN /\ r.fragileStop \in BOOLEAN
      /\ r.signalled \in BOOLEAN /\ r.seen \in BOOLEAN
  BY DEF Run
<1> HIDE DEF f
<1>4. Leaving(r).phase = phase
  BY <1>1, <1>2, <1>3 DEF Run
<1> QED
  BY <1>1, <1>2, <1>3, <1>4 DEF Run

LEMMA TroubledIs ==
    ASSUME NEW r \in Run, NEW d, NEW bad
    PROVE  LET s == Troubled(r, d, bad)
           IN  /\ s \in Run /\ (r.stop => s.stop)
               /\ (s.fragileStop /\ ~r.fragileStop => s.stop)
               /\ s.phase = r.phase /\ s.at = r.at /\ s.left = r.left /\ s.sent = r.sent
               /\ s.seen = r.seen /\ s.signalled = r.signalled /\ s.recovery = r.recovery
               /\ s.ok = r.ok /\ s.whole = r.whole /\ s.again = r.again
<1> DEFINE stopped == [r EXCEPT !.stop = TRUE, !.fragileStop = TRUE]
<1>1. Troubled(r, d, bad) = r \/ Troubled(r, d, bad) = stopped
  BY DEF Troubled
<1>2. /\ stopped \in Run /\ stopped.stop /\ stopped.phase = r.phase /\ stopped.at = r.at
      /\ stopped.left = r.left /\ stopped.sent = r.sent
      /\ stopped.seen = r.seen /\ stopped.signalled = r.signalled
      /\ stopped.recovery = r.recovery
      /\ stopped.ok = r.ok /\ stopped.whole = r.whole /\ stopped.again = r.again
  BY DEF Run
<1> QED
  BY <1>1, <1>2

-----------------------------------------------------------------------------
(* What a step does to the devices.                                         *)

(* The device in hand stays in hand, or is left, and nothing new is begun.  *)
Narrows(r, s) ==
    /\ s.at \subseteq r.at /\ s.left \subseteq r.left /\ s.recovery = r.recovery
    /\ s.at = {} \/ /\ r.sent => s.sent
                    /\ s.sent \/ s.phase = "steps" => r.sent \/ r.phase = "steps"
                    /\ s.phase = "leave" \/ r.phase # "leave"
                    /\ s.phase \in Restoring => r.phase \in Restoring \/ r.recovery = 0
(* Another device is taken in hand only by a run not stopped.               *)
Safe ==
    run'.at \subseteq run.at \/ (~run.fragileStop /\ (run.phase = "next" => ~run.stop))
(* A device held restored by the run is as found, if that is known.         *)
Restores(d, v, s) ==
    d \in s.at /\ s.phase \in {"mark", "selfTest"} /\ s.ok /\ s.whole /\ v.known =>
       v.real = "found"
PastKept ==
    past' \in [Devices -> Past] /\ \A e \in Devices : past'[e].sure = past[e].sure

LEMMA FineKept ==
    ASSUME NEW d, NEW v, NEW h, NEW k, NEW sure, NEW r, NEW s,
           Fine(d, v, h, k, sure, r), Narrows(r, s), Restores(d, v, s)
    PROVE  Fine(d, v, h, k, sure, s)
  BY DEF Fine, Narrows, Restores, Pristine, Touching, Restoring

LEMMA FineChanged ==
    ASSUME NEW d, NEW v, NEW w, NEW h, NEW k, NEW sure, NEW r, NEW s,
           Fine(d, v, h, k, sure, r), Heeding(r), Narrows(r, s), Known(w), Restores(d, w, s),
           d \in r.at, r.phase \in Restoring \cup {"steps"},
           d \in s.at /\ s.recovery = 0 => s.sent
    PROVE  Fine(d, w, h, k, sure, s)
<1>1. k.touched /\ ~((h.restored \/ k.restored) /\ sure)
  BY DEF Fine, Heeding, Touching, Restoring, Testing, Run
<1>2. ~Pristine(d, s)
  BY DEF Heeding, Narrows, Pristine
<1> QED
  BY <1>1, <1>2 DEF Fine, Narrows, Restores, Touching, Restoring

(* A device that isn't in hand after the step.                              *)
LEMMA FineApart ==
    ASSUME NEW d, NEW v, NEW h, NEW k, NEW sure, NEW r, NEW s,
           Fine(d, v, h, k, sure, r), d \notin s.at,
           s.left \subseteq r.left, s.recovery = r.recovery
    PROVE  Fine(d, v, h, k, sure, s)
  BY DEF Fine, Pristine, Touching

LEMMA FineSaved ==
    ASSUME NEW d, NEW v, NEW h, NEW k, NEW sure, NEW r, Fine(d, v, h, k, sure, r)
    PROVE  Fine(d, v, h, h, sure, r)
  BY DEF Fine

LEMMA KeepInv ==
    ASSUME FieldInv, UNCHANGED device,
           journal' \in {journal, [held |-> journal.held, disk |-> journal.held]},
           PastKept, Heeding(run'),
           Narrows(run, run'), \A d \in Devices : Restores(d, device[d], run')
    PROVE  FieldInv' /\ Safe
<1>1. Shape'
  BY DEF FieldInv, Shape, PastKept
<1>2. ASSUME NEW d \in Devices
      PROVE  Fine(d, device'[d], journal'.held[d], journal'.disk[d], past'[d].sure, run')
  <2>1. Fine(d, device[d], journal.held[d], journal.disk[d], past[d].sure, run')
    BY FineKept DEF FieldInv
  <2>2. Fine(d, device[d], journal.held[d], journal.held[d], past[d].sure, run')
    BY <2>1, FineSaved
  <2> QED
    BY <2>1, <2>2 DEF PastKept
<1> QED
  BY <1>1, <1>2 DEF FieldInv, Narrows, Safe

LEMMA HandInv ==
    ASSUME FieldInv, NEW d \in run.at, NEW w, Known(w), device' = [device EXCEPT ![d] = w],
           UNCHANGED journal, PastKept, Heeding(run'), Narrows(run, run'),
           run.phase \in Restoring \cup {"steps"},
           d \in run'.at /\ run'.recovery = 0 => run'.sent,
           Restores(d, w, run')
    PROVE  FieldInv' /\ Safe
<1>1. d \in Devices
  BY DEF FieldInv, Heeding, Run
<1>2. Shape'
  BY <1>1 DEF FieldInv, Shape, PastKept, Known
<1>3. ASSUME NEW e \in Devices
      PROVE  Fine(e, device'[e], journal'.held[e], journal'.disk[e], past'[e].sure, run')
  <2>1. CASE e = d
    <3>1. device'[e] = w
      BY <1>1, <2>1 DEF FieldInv, Shape
    <3> QED
      BY <2>1, <3>1, FineChanged DEF FieldInv, PastKept
  <2>2. CASE e # d
    <3>1. device'[e] = device[e]
      BY <1>1, <2>2 DEF FieldInv, Shape
    <3>2. e \notin run'.at
      BY <2>2 DEF FieldInv, Heeding, Narrows
    <3>3. Restores(e, device[e], run')
      BY <3>2 DEF Restores
    <3> QED
      BY <3>1, <3>3, FineKept DEF FieldInv, PastKept
  <2> QED BY <2>1, <2>2
<1> QED
  BY <1>2, <1>3 DEF FieldInv, Narrows, Safe

-----------------------------------------------------------------------------
(* What a call does to a device.                                            *)

LEMMA FailedKnown ==
    ASSUME NEW v, Known(v)
    PROVE  \A w \in Failed(v) \cup Lost(v) \cup Answered(v) \cup Applied(v) : Known(w)
<1>1. v \in Device /\ (v.known => v.shown = v.real /\ ~v.running)
  BY DEF Known
<1>2. ASSUME NEW w \in Failed(v) PROVE Known(w)
  <2>1. CASE w = v
    BY <2>1
  <2>2. CASE w # v
    <3>1. PICK s \in {v.real, "changed"}, t \in {v.shown, "changed"} :
            w = [v EXCEPT !.real = s, !.shown = t, !.known = FALSE]
      BY <2>2 DEF Failed
    <3>2. s \in States /\ t \in States
      BY <1>1 DEF Device, States
    <3> QED
      BY <1>1, <3>1, <3>2 DEF Known, Device
  <2> QED BY <2>1, <2>2
<1>3. \A w \in Failed(v) : Known([w EXCEPT !.running = TRUE, !.known = FALSE])
  BY <1>2 DEF Known, Device
<1>4. \A w \in Lost(v) : Known(w)
  BY <1>2, <1>3 DEF Lost
<1>5. \A w \in Answered(v) : Known(w)
  BY <1>1 DEF Answered, Known, Device, States
<1>6. \A w \in Applied(v) : Known(w)
  <2>1. CASE v.known
    BY <1>5, <2>1 DEF Applied
  <2>2. CASE ~v.known
    <3> DEFINE either == {[v EXCEPT !.real = s, !.shown = t] : s \in States, t \in States}
    <3>1. Applied(v) = either
      BY <2>2 DEF Applied
    <3>2. ASSUME NEW w, w \in either PROVE Known(w)
      <4>1. PICK s \in States, t \in States : w = [v EXCEPT !.real = s, !.shown = t]
        BY <3>2 DEF States
      <4> QED BY <1>1, <2>2, <4>1 DEF Known, Device
    <3> HIDE DEF either
    <3> QED
      BY <3>1, <3>2
  <2> QED BY <2>1, <2>2
<1> QED
  BY <1>2, <1>4, <1>5, <1>6

LEMMA PollsKnown ==
    ASSUME NEW v, Known(v), NEW d
    PROVE  \A w \in Polls(d, v) : Known(w) /\ w.real = v.real /\ w.running = v.running
  BY DEF Polls, Polled, Known, Device

LEMMA BecomesIs ==
    ASSUME NEW d \in Devices, NEW values, Becomes(d, values)
    PROVE  \E w \in values : device' = [device EXCEPT ![d] = w]
  BY DEF Becomes

-----------------------------------------------------------------------------
(* The end of a restore.                                                    *)

(* What the calls of a restore leave alone.                                 *)
Same(r) ==
    /\ r \in Run /\ r.at = run.at /\ r.left = run.left /\ r.recovery = run.recovery
    /\ r.sent = run.sent /\ r.seen = run.seen /\ r.signalled = run.signalled
    /\ r.whole = run.whole /\ (run.stop => r.stop)
    /\ r.fragileStop => run.fragileStop \/ r.stop

LEMMA RestoredSteps ==
    ASSUME Heeding(run), run.phase \in Restoring, NEW r, Same(r), NEW d \in Devices,
           past \in [Devices -> Past], NEW ok \in BOOLEAN, NEW failed \in BOOLEAN,
           Restored(r, d, ok, failed)
    PROVE  /\ Heeding(run') /\ Narrows(run, run') /\ PastKept
           /\ run'.ok = ok /\ run'.whole = run.whole /\ run'.at = run.at
           /\ run'.sent = run.sent
<1> DEFINE stop == r.stop \/ (failed /\ ~Recovering)
           s == [r EXCEPT !.ok = ok, !.stop = stop]
           tests == SelfTest /\ ~Recovering /\ ~r.tested /\ ok /\ ~s.stop /\ ~s.seen
           phase == IF tests THEN "selfTest" ELSE "mark"
           outcome == IF ok THEN "ok" ELSE IF failed THEN "failed" ELSE "differs"
<1>1. /\ run' = [s EXCEPT !.phase = phase]
      /\ past' = [past EXCEPT ![d].outcome = outcome]
  BY DEF Restored
<1>2. phase \in {"selfTest", "mark"} /\ (phase = "selfTest" => run.recovery = 0)
  <2>1. run.recovery \in Nat
    BY FieldAssumption DEF Heeding, Run
  <2> QED BY <2>1 DEF Recovering
<1>3. stop \in BOOLEAN /\ (r.stop => stop)
  BY DEF Same, Run, Recovering
<1>4. outcome \in {"none", "ok", "differs", "failed", "skipped"}
  OBVIOUS
<1> HIDE DEF stop, outcome
<1>5. /\ s \in Run /\ s.ok = ok /\ s.stop = stop /\ s.at = r.at /\ s.left = r.left
      /\ s.recovery = r.recovery /\ s.sent = r.sent /\ s.seen = r.seen
      /\ s.signalled = r.signalled /\ s.whole = r.whole /\ s.fragileStop = r.fragileStop
  BY <1>3 DEF Same, Run
<1> HIDE DEF phase, s
<1>6. /\ run' \in Run /\ run'.phase = phase /\ run'.ok = ok /\ run'.stop = stop
      /\ run'.at = r.at /\ run'.left = r.left /\ run'.recovery = r.recovery
      /\ run'.sent = r.sent /\ run'.seen = r.seen /\ run'.signalled = r.signalled
      /\ run'.whole = r.whole /\ run'.fragileStop = r.fragileStop
  BY <1>1, <1>2, <1>5 DEF Run, Phases
<1>7. PastKept
  BY <1>1, <1>4 DEF PastKept, Past
<1>8. Heeding(run')
  BY <1>2, <1>3, <1>6 DEF Heeding, Same, Testing, Restoring
<1>9. Narrows(run, run')
  BY <1>2, <1>6 DEF Narrows, Same, Restoring
<1> QED
  BY <1>6, <1>7, <1>8, <1>9 DEF Same

LEMMA RaisedSteps ==
    ASSUME Heeding(run), run.phase \in Restoring, NEW r, Same(r), NEW d \in Devices,
           past \in [Devices -> Past], Raised(r, d)
    PROVE  /\ Heeding(run') /\ Narrows(run, run') /\ PastKept
           /\ run'.at = {} \/ (run'.sent = run.sent /\ ~(run'.phase \in {"mark", "selfTest"} /\ run'.ok))
<1>1. run.recovery \in Nat
  BY FieldAssumption DEF Heeding, Run
<1>2. CASE Recovering
  <2>1. run' = Leaving(r) /\ UNCHANGED past
    BY <1>2 DEF Raised
  <2>2. /\ run' \in Run /\ run'.at = {} /\ ~run'.sent /\ run'.left = r.left /\ run'.recovery = r.recovery
        /\ run'.phase = "recoverNext"
        /\ run'.stop = r.stop /\ run'.fragileStop = r.fragileStop
        /\ run'.signalled = r.signalled /\ run'.seen = r.seen
    BY <1>2, <2>1, LeavingIs DEF Same
  <2>3. Heeding(run')
    BY <1>1, <1>2, <2>2 DEF Heeding, Same, Testing, Restoring, Recovering
  <2> QED
    BY <2>1, <2>2, <2>3 DEF Narrows, PastKept, Same
<1>3. CASE ~Recovering /\ r.again
  <2>1. Restored(r, d, FALSE, TRUE)
    BY <1>3 DEF Raised
  <2> QED BY <2>1, RestoredSteps
<1>4. CASE ~Recovering /\ ~r.again
  <2>1. run' = [r EXCEPT !.phase = "look", !.again = TRUE] /\ UNCHANGED past
    BY <1>4 DEF Raised
  <2>2. /\ run' \in Run /\ run'.phase = "look" /\ run'.stop = r.stop
        /\ run'.at = r.at /\ run'.left = r.left /\ run'.recovery = r.recovery
        /\ run'.sent = r.sent /\ run'.seen = r.seen /\ run'.signalled = r.signalled
        /\ run'.whole = r.whole /\ run'.fragileStop = r.fragileStop
    BY <2>1 DEF Same, Run, Phases
  <2>3. Heeding(run')
    BY <2>2 DEF Heeding, Same, Testing, Restoring
  <2> QED
    BY <2>1, <2>2, <2>3 DEF Narrows, PastKept, Same, Restoring
<1> QED
  BY <1>2, <1>3, <1>4

-----------------------------------------------------------------------------
(* The steps that leave the devices alone.                                  *)

LEMMA KeepsPast ==
    ASSUME FieldInv, UNCHANGED past
    PROVE  PastKept
  BY DEF FieldInv, Shape, PastKept

LEMMA StartRunKeeps ==
    ASSUME FieldInv, StartRun
    PROVE  FieldInv' /\ Safe
<1>1. run.phase = "start" /\ Heeding(run)
  BY DEF StartRun, FieldInv
<1>2. PICK p \in {"next", "over"} : run' = [run EXCEPT !.phase = p]
  BY DEF StartRun
<1>3. /\ run' \in Run /\ run'.phase = p
      /\ run'.at = run.at /\ run'.left = run.left /\ run'.recovery = run.recovery
      /\ run'.sent = run.sent /\ run'.seen = run.seen /\ run'.signalled = run.signalled
      /\ run'.stop = run.stop /\ run'.fragileStop = run.fragileStop
  BY <1>1, <1>2 DEF Heeding, Run, Phases
<1>4. Heeding(run')
  BY <1>1, <1>3 DEF Heeding, Testing, Restoring
<1>5. Narrows(run, run')
  BY <1>1, <1>3 DEF Narrows, Heeding
<1>6. \A d \in Devices : Restores(d, device[d], run')
  BY <1>3 DEF Restores
<1>7. journal' \in {journal, [held |-> journal.held, disk |-> journal.held]}
  BY DEF StartRun, Saved, Unsaved, FieldInv, Shape
<1>8. UNCHANGED <<device, past>>
  BY DEF StartRun
<1> QED
  BY <1>4, <1>5, <1>6, <1>7, <1>8, KeepInv, KeepsPast

LEMMA PassOverKeeps ==
    ASSUME FieldInv, NEW d \in Devices, PassOver(d)
    PROVE  FieldInv' /\ Safe
<1>1. run.phase = "next" /\ ~run.stop /\ Heeding(run)
  BY DEF PassOver, FieldInv
<1>2. PICK stop \in BOOLEAN, bad \in BOOLEAN :
         run' = Troubled([run EXCEPT !.left = @ \ {d}, !.stop = stop], d, bad)
  BY DEF PassOver
<1> DEFINE r == [run EXCEPT !.left = @ \ {d}, !.stop = stop]
<1> HIDE DEF r
<1>2a. run' = Troubled(r, d, bad)
  BY <1>2 DEF r
<1>3. /\ r \in Run /\ r.phase = run.phase
      /\ r.at = run.at /\ r.left = run.left \ {d} /\ r.recovery = run.recovery
      /\ r.sent = run.sent /\ r.seen = run.seen /\ r.signalled = run.signalled
      /\ r.fragileStop = run.fragileStop
  BY <1>1 DEF Heeding, Run, r
<1>4. /\ run' \in Run /\ run'.phase = r.phase /\ run'.at = r.at /\ run'.left = r.left
      /\ run'.recovery = r.recovery /\ run'.sent = r.sent
      /\ run'.seen = r.seen /\ run'.signalled = r.signalled
      /\ (run'.fragileStop /\ ~r.fragileStop => run'.stop)
  BY <1>3, <1>2a, TroubledIs
<1>5. run.recovery = 0
  BY <1>1, FieldAssumption DEF Heeding, Testing, Run
<1>6. Heeding(run')
  BY <1>1, <1>3, <1>4, <1>5 DEF Heeding, Testing, Restoring
<1>7. Narrows(run, run')
  BY <1>1, <1>3, <1>4 DEF Narrows, Heeding
<1>8. \A e \in Devices : Restores(e, device[e], run')
  BY <1>1, <1>3, <1>4 DEF Restores
<1>9. UNCHANGED <<device, journal, past>>
  BY DEF PassOver, Keep
<1> QED
  BY <1>6, <1>7, <1>8, <1>9, KeepInv, KeepsPast

LEMMA EndRunKeeps ==
    ASSUME FieldInv, EndRun
    PROVE  FieldInv' /\ Safe
<1>1. run.phase \in {"next", "recoverNext"} /\ Heeding(run)
  BY DEF EndRun, FieldInv
<1>2. run' = [run EXCEPT !.phase = "over"] /\ UNCHANGED <<device, journal, past>>
  BY DEF EndRun, Keep
<1>3. /\ run' \in Run /\ run'.phase = "over"
      /\ run'.at = run.at /\ run'.left = run.left /\ run'.recovery = run.recovery
      /\ run'.sent = run.sent /\ run'.seen = run.seen /\ run'.signalled = run.signalled
      /\ run'.stop = run.stop /\ run'.fragileStop = run.fragileStop
  BY <1>1, <1>2 DEF Heeding, Run, Phases
<1>4. Heeding(run')
  BY <1>1, <1>3 DEF Heeding, Testing, Restoring
<1>5. Narrows(run, run')
  BY <1>1, <1>3 DEF Narrows, Restoring
<1>6. \A d \in Devices : Restores(d, device[d], run')
  BY <1>3 DEF Restores
<1> QED
  BY <1>2, <1>4, <1>5, <1>6, KeepInv, KeepsPast

LEMMA EndStepsKeeps ==
    ASSUME FieldInv, EndSteps
    PROVE  FieldInv' /\ Safe
<1>1. run.phase = "steps" /\ Heeding(run)
  BY DEF EndSteps, FieldInv
<1>2. PICK late \in BOOLEAN : run' = [run EXCEPT !.phase = "unwound", !.stop = @ \/ late]
  BY DEF EndSteps
<1>3. /\ run' \in Run /\ run'.phase = "unwound"
      /\ run'.at = run.at /\ run'.left = run.left /\ run'.recovery = run.recovery
      /\ run'.sent = run.sent /\ run'.seen = run.seen /\ run'.signalled = run.signalled
      /\ (run.stop => run'.stop) /\ run'.fragileStop = run.fragileStop
  BY <1>1, <1>2 DEF Heeding, Run, Phases
<1>4. Heeding(run')
  BY <1>1, <1>3 DEF Heeding, Testing, Restoring
<1>5. Narrows(run, run')
  BY <1>1, <1>3 DEF Narrows, Restoring
<1>6. \A d \in Devices : Restores(d, device[d], run')
  BY <1>3 DEF Restores
<1>7. UNCHANGED <<device, journal, past>>
  BY DEF EndSteps, Keep
<1> QED
  BY <1>4, <1>5, <1>6, <1>7, KeepInv, KeepsPast

LEMMA BeginFinishKeeps ==
    ASSUME FieldInv, BeginFinish
    PROVE  FieldInv' /\ Safe
<1>1. run.phase = "unwound" /\ Heeding(run)
  BY DEF BeginFinish, FieldInv
<1>2. PICK p \in {"look", "mark"} :
        run' = [run EXCEPT !.phase = p, !.ok = TRUE] /\ p = IF run.sent THEN "look" ELSE "mark"
  BY DEF BeginFinish
<1>3. /\ run' \in Run /\ run'.phase = p
      /\ run'.at = run.at /\ run'.left = run.left /\ run'.recovery = run.recovery
      /\ run'.sent = run.sent /\ run'.seen = run.seen /\ run'.signalled = run.signalled
      /\ run'.stop = run.stop /\ run'.fragileStop = run.fragileStop
  BY <1>1, <1>2 DEF Heeding, Run, Phases
<1>4. run.recovery = 0
  BY <1>1, FieldAssumption DEF Heeding, Testing, Run
<1>5. Heeding(run')
  BY <1>1, <1>2, <1>3, <1>4 DEF Heeding, Testing, Restoring
<1>6. Narrows(run, run')
  BY <1>1, <1>2, <1>3, <1>4 DEF Narrows, Restoring
<1>7. ASSUME NEW d \in Devices PROVE Restores(d, device[d], run')
  BY <1>2, <1>3, <1>4 DEF Restores, FieldInv, Fine, Pristine
<1>8. UNCHANGED <<device, journal, past>>
  BY DEF BeginFinish, Keep
<1> QED
  BY <1>5, <1>6, <1>7, <1>8, KeepInv, KeepsPast

LEMMA LeaveKeeps ==
    ASSUME FieldInv, Leave
    PROVE  FieldInv' /\ Safe
<1>1. run.phase = "leave" /\ Heeding(run)
  BY DEF Leave, FieldInv
<1>2. run' = [Leaving(run) EXCEPT !.stop = @ \/ run.seen]
  BY DEF Leave
<1> DEFINE s == Leaving(run)
<1>3. /\ s \in Run /\ s.at = {} /\ ~s.sent /\ s.left = run.left /\ s.recovery = run.recovery
      /\ s.phase = (IF Recovering THEN "recoverNext" ELSE "next")
      /\ s.stop = run.stop /\ s.fragileStop = run.fragileStop
      /\ s.signalled = run.signalled /\ s.seen = run.seen
  BY <1>1, LeavingIs DEF Heeding
<1> HIDE DEF s
<1>4. run' = [s EXCEPT !.stop = @ \/ run.seen]
  BY <1>2 DEF s
<1>5. /\ run' \in Run /\ run'.at = {} /\ ~run'.sent /\ run'.left = run.left
      /\ run'.recovery = run.recovery
      /\ run'.phase = (IF Recovering THEN "recoverNext" ELSE "next")
      /\ (run.stop \/ run.seen => run'.stop) /\ run'.fragileStop = run.fragileStop
      /\ run'.signalled = run.signalled /\ run'.seen = run.seen
  BY <1>1, <1>3, <1>4 DEF Run, Heeding
<1>6. run.recovery \in Nat
  BY <1>1, FieldAssumption DEF Heeding, Run
<1>7. Heeding(run')
  BY <1>1, <1>5, <1>6 DEF Heeding, Testing, Restoring, Recovering
<1>8. Narrows(run, run')
  BY <1>5 DEF Narrows
<1>9. \A d \in Devices : Restores(d, device[d], run')
  BY <1>5 DEF Restores
<1>10. UNCHANGED <<device, journal, past>>
  BY DEF Leave, Keep
<1> QED
  BY <1>7, <1>8, <1>9, <1>10, KeepInv, KeepsPast

LEMMA LeaveAloneKeeps ==
    ASSUME FieldInv, NEW d \in Devices, LeaveAlone(d)
    PROVE  FieldInv' /\ Safe
<1>1. run.phase = "recoverNext" /\ Heeding(run)
  BY DEF LeaveAlone, FieldInv
<1>2. run' = [run EXCEPT !.left = @ \ {d}] /\ UNCHANGED <<device, journal, past>>
  BY DEF LeaveAlone, Keep
<1>3. /\ run' \in Run /\ run'.phase = "recoverNext"
      /\ run'.at = run.at /\ run'.left = run.left \ {d} /\ run'.recovery = run.recovery
      /\ run'.sent = run.sent /\ run'.seen = run.seen /\ run'.signalled = run.signalled
      /\ run'.stop = run.stop /\ run'.fragileStop = run.fragileStop
  BY <1>1, <1>2 DEF Heeding, Run, Phases
<1>4. Heeding(run')
  BY <1>1, <1>3 DEF Heeding, Testing, Restoring
<1>5. Narrows(run, run')
  BY <1>1, <1>3 DEF Narrows, Restoring
<1>6. \A e \in Devices : Restores(e, device[e], run')
  BY <1>3 DEF Restores
<1> QED
  BY <1>2, <1>4, <1>5, <1>6, KeepInv, KeepsPast

LEMMA NoteSignalKeeps ==
    ASSUME FieldInv, NEW d \in Devices, NoteSignal(d)
    PROVE  FieldInv' /\ Safe
<1>1. run.phase \in Deferring /\ Heeding(run)
  BY DEF NoteSignal, FieldInv
<1>2. run' = [run EXCEPT !.seen = TRUE] /\ UNCHANGED <<device, journal, past>>
  BY DEF NoteSignal, Keep
<1>3. /\ run' \in Run /\ run'.phase = run.phase /\ run'.ok = run.ok /\ run'.whole = run.whole
      /\ run'.at = run.at /\ run'.left = run.left /\ run'.recovery = run.recovery
      /\ run'.sent = run.sent /\ run'.signalled = run.signalled
      /\ run'.stop = run.stop /\ run'.fragileStop = run.fragileStop
  BY <1>1, <1>2 DEF Heeding, Run
<1>4. Heeding(run')
  BY <1>1, <1>3 DEF Heeding, Testing, Restoring, Deferring
<1>5. Narrows(run, run')
  BY <1>1, <1>3 DEF Narrows, Restoring
<1>6. \A e \in Devices : Restores(e, device[e], run')
  BY <1>3 DEF Restores, FieldInv, Fine
<1> QED
  BY <1>2, <1>4, <1>5, <1>6, KeepInv, KeepsPast

-----------------------------------------------------------------------------
(* The steps that may change the device in hand.                            *)

LEMMA InHandIs ==
    ASSUME FieldInv, NEW d \in Devices, InHand(d)
    PROVE  d \in run.at /\ Known(device[d])
  BY DEF FieldInv, Fine, InHand

LEMMA StepKeeps ==
    ASSUME FieldInv, NEW d \in Devices, Step(d)
    PROVE  FieldInv' /\ Safe
<1>1. run.phase = "steps" /\ Heeding(run) /\ d \in run.at /\ Known(device[d])
  BY InHandIs DEF Step, FieldInv
<1> DEFINE sent == [run EXCEPT !.sent = TRUE]
<1>2. /\ sent \in Run /\ sent.sent /\ sent.phase = "steps"
      /\ sent.at = run.at /\ sent.left = run.left /\ sent.recovery = run.recovery
      /\ sent.seen = run.seen /\ sent.signalled = run.signalled
      /\ sent.stop = run.stop /\ sent.fragileStop = run.fragileStop
  BY <1>1 DEF Heeding, Run
<1>3. PICK bad \in BOOLEAN, call \in BOOLEAN :
          LET r == Troubled(sent, d, bad)
              after == IF r.fragileStop THEN "unwound" ELSE "steps"
              ended == Failed(device[d]) \cup UNION {Polls(d, v) : v \in Answered(device[d])}
          IN  \/ Becomes(d, ended) /\ run' = [r EXCEPT !.phase = after]
              \/ /\ Becomes(d, ended) \/ Becomes(d, Lost(device[d]))
                 /\ run' = [Troubled(r, d, call) EXCEPT !.phase = "unwound", !.stop = TRUE]
  BY DEF Step
<1> HIDE DEF sent
<1> DEFINE r == Troubled(sent, d, bad)
           t == Troubled(r, d, call)
<1>4. /\ r \in Run /\ r.sent /\ r.phase = "steps"
      /\ r.at = run.at /\ r.left = run.left /\ r.recovery = run.recovery
      /\ r.seen = run.seen /\ r.signalled = run.signalled
      /\ (run.stop => r.stop) /\ (r.fragileStop /\ ~run.fragileStop => r.stop)
  BY <1>2, TroubledIs
<1> HIDE DEF r
<1>5. /\ t \in Run /\ t.sent /\ t.phase = "steps"
      /\ t.at = run.at /\ t.left = run.left /\ t.recovery = run.recovery
      /\ t.seen = run.seen /\ t.signalled = run.signalled
  BY <1>4, TroubledIs
<1> HIDE DEF t
<1>6. PICK p \in {"steps", "unwound"} :
          run' = [r EXCEPT !.phase = p] \/ run' = [t EXCEPT !.phase = "unwound", !.stop = TRUE]
  BY <1>3 DEF r, t
<1>7. /\ run' \in Run /\ run'.sent /\ run'.phase \in {"steps", "unwound"}
      /\ run'.at = run.at /\ run'.left = run.left /\ run'.recovery = run.recovery
      /\ run'.seen = run.seen /\ run'.signalled = run.signalled
      /\ (run.stop => run'.stop) /\ (run'.fragileStop /\ ~run.fragileStop => run'.stop)
  <2>1. CASE run' = [r EXCEPT !.phase = p]
    BY <1>4, <2>1 DEF Run, Phases
  <2>2. CASE run' = [t EXCEPT !.phase = "unwound", !.stop = TRUE]
    BY <1>5, <2>2 DEF Run, Phases
  <2> QED BY <1>6, <2>1, <2>2
<1>8. PICK w : Known(w) /\ device' = [device EXCEPT ![d] = w]
  <2>1. \A w \in Failed(device[d]) \cup Lost(device[d]) \cup Answered(device[d]) : Known(w)
    BY <1>1, FailedKnown
  <2>2. \A w \in UNION {Polls(d, v) : v \in Answered(device[d])} : Known(w)
    BY <2>1, PollsKnown
  <2>3. \/ Becomes(d, Failed(device[d]) \cup UNION {Polls(d, v) : v \in Answered(device[d])})
        \/ Becomes(d, Lost(device[d]))
    BY <1>3
  <2> QED
    BY <2>1, <2>2, <2>3, BecomesIs
<1>9. Heeding(run')
  BY <1>1, <1>7 DEF Heeding, Testing, Restoring
<1>10. Narrows(run, run')
  BY <1>1, <1>7 DEF Narrows, Restoring
<1>11. Restores(d, w, run')
  BY <1>7 DEF Restores
<1>12. UNCHANGED <<journal, past>>
  BY DEF Step
<1> QED
  BY <1>1, <1>7, <1>8, <1>9, <1>10, <1>11, <1>12, HandInv, KeepsPast

LEMMA LookKeeps ==
    ASSUME FieldInv, NEW d \in Devices, Look(d)
    PROVE  FieldInv' /\ Safe
<1>1. /\ run.phase = "look" /\ run.phase \in Restoring /\ Heeding(run) /\ run.at = {d}
      /\ Known(device[d]) /\ past \in [Devices -> Past] /\ Same(run)
  BY InHandIs DEF Look, FieldInv, Shape, InHand, Restoring, Same, Heeding
<1>2. UNCHANGED <<device, journal>>
  BY DEF Look
<1>3. CASE run' = [run EXCEPT !.phase = "apply", !.attempt = 1] /\ UNCHANGED past
  <2>0. 1 \in 0..2
    OBVIOUS
  <2>1. /\ run' \in Run /\ run'.phase = "apply"
        /\ run'.at = run.at /\ run'.left = run.left /\ run'.recovery = run.recovery
        /\ run'.sent = run.sent /\ run'.seen = run.seen /\ run'.signalled = run.signalled
        /\ run'.stop = run.stop /\ run'.fragileStop = run.fragileStop
    BY <1>1, <1>3, <2>0 DEF Heeding, Run, Phases
  <2>2. Heeding(run')
    BY <1>1, <2>1 DEF Heeding, Testing, Restoring
  <2>3. Narrows(run, run')
    BY <1>1, <2>1 DEF Narrows, Restoring
  <2>4. \A e \in Devices : Restores(e, device[e], run')
    BY <2>1 DEF Restores
  <2> QED
    BY <1>2, <1>3, <2>2, <2>3, <2>4, KeepInv, KeepsPast
<1>4. CASE FALSE \in Differs(device[d]) /\ Restored(run, d, TRUE, FALSE)
  <2>1. /\ Heeding(run') /\ Narrows(run, run') /\ PastKept
        /\ run'.whole = run.whole /\ run'.at = run.at
    BY <1>1, <1>4, RestoredSteps
  <2>2. \A e \in Devices : Restores(e, device[e], run')
    BY <1>1, <1>4, <2>1 DEF Restores, Differs, Known, Device, States
  <2> QED
    BY <1>2, <2>1, <2>2, KeepInv
<1>5. CASE Raised(run, d)
  <2>1. /\ Heeding(run') /\ Narrows(run, run') /\ PastKept
        /\ run'.at = {} \/ ~(run'.phase \in {"mark", "selfTest"} /\ run'.ok)
    BY <1>1, <1>5, RaisedSteps
  <2>2. \A e \in Devices : Restores(e, device[e], run')
    BY <2>1 DEF Restores
  <2> QED
    BY <1>2, <2>1, <2>2, KeepInv
<1>6. CASE \E differs \in Differs(device[d]) :
             IF differs THEN run' = [run EXCEPT !.phase = "apply", !.attempt = 1] /\ UNCHANGED past
             ELSE Restored(run, d, TRUE, FALSE)
  <2>1. PICK differs \in Differs(device[d]) :
             IF differs THEN run' = [run EXCEPT !.phase = "apply", !.attempt = 1] /\ UNCHANGED past
             ELSE Restored(run, d, TRUE, FALSE)
    BY <1>6
  <2>2. differs \in BOOLEAN
    BY DEF Differs
  <2>3. CASE differs = TRUE
    BY <1>3, <2>1, <2>3
  <2>4. CASE differs = FALSE
    BY <1>4, <2>1, <2>4
  <2> QED BY <2>2, <2>3, <2>4
<1> QED
  BY <1>5, <1>6 DEF Look

(* A restore's calls, and the trouble they note, keep to what Same says.    *)
LEMMA TroubledSame ==
    ASSUME NEW r, Same(r), NEW d, NEW bad
    PROVE  /\ Same(Troubled(r, d, bad))
           /\ Troubled(r, d, bad).phase = r.phase
<1> DEFINE t == Troubled(r, d, bad)
<1>1. /\ t \in Run /\ (r.stop => t.stop) /\ (t.fragileStop /\ ~r.fragileStop => t.stop)
      /\ t.phase = r.phase /\ t.at = r.at /\ t.left = r.left /\ t.sent = r.sent
      /\ t.seen = r.seen /\ t.signalled = r.signalled /\ t.recovery = r.recovery
      /\ t.whole = r.whole
  BY TroubledIs DEF Same
<1> HIDE DEF t
<1>2. Same(t) /\ t.phase = r.phase
  BY <1>1 DEF Same
<1> QED
  BY <1>2 DEF t

LEMMA HandRaised ==
    ASSUME FieldInv, run.phase \in Restoring, NEW d \in Devices, InHand(d),
           NEW r, Same(r), Raised(r, d),
           NEW w, Known(w), device' = [device EXCEPT ![d] = w], UNCHANGED journal
    PROVE  FieldInv' /\ Safe
<1>1. /\ Heeding(run) /\ past \in [Devices -> Past] /\ d \in run.at
  BY InHandIs DEF FieldInv, Shape
<1>2. /\ Heeding(run') /\ Narrows(run, run') /\ PastKept
      /\ run'.at = {} \/ (run'.sent = run.sent /\ ~(run'.phase \in {"mark", "selfTest"} /\ run'.ok))
  BY <1>1, RaisedSteps
<1>3. Restores(d, w, run') /\ (d \in run'.at /\ run'.recovery = 0 => run'.sent)
  BY <1>1, <1>2 DEF Restores, Heeding, Narrows
<1> QED
  BY <1>1, <1>2, <1>3, HandInv

LEMMA HandRestored ==
    ASSUME FieldInv, run.phase \in Restoring, NEW d \in Devices, InHand(d),
           NEW r, Same(r), NEW ok \in BOOLEAN, NEW failed \in BOOLEAN,
           Restored(r, d, ok, failed),
           NEW w, Known(w), device' = [device EXCEPT ![d] = w], UNCHANGED journal,
           ok => FALSE \in Differs(w)
    PROVE  FieldInv' /\ Safe
<1>1. /\ Heeding(run) /\ past \in [Devices -> Past] /\ d \in run.at
  BY InHandIs DEF FieldInv, Shape
<1>2. /\ Heeding(run') /\ Narrows(run, run') /\ PastKept
      /\ run'.ok = ok /\ run'.whole = run.whole /\ run'.sent = run.sent
  BY <1>1, RestoredSteps
<1>3. d \in run'.at /\ run'.recovery = 0 => run'.sent
  BY <1>1, <1>2 DEF Heeding, Narrows
<1>4. Restores(d, w, run')
  BY <1>2 DEF Restores, Differs, Known, Device, States
<1> QED
  BY <1>1, <1>2, <1>3, <1>4, HandInv

LEMMA ApplyKeeps ==
    ASSUME FieldInv, NEW d \in Devices, Apply(d)
    PROVE  FieldInv' /\ Safe
<1>1. /\ run.phase = "apply" /\ run.phase \in Restoring /\ Heeding(run) /\ InHand(d)
      /\ d \in run.at /\ Known(device[d]) /\ Same(run) /\ UNCHANGED journal
  BY InHandIs DEF Apply, FieldInv, Restoring, Same, Heeding
<1>2. PICK errors \in BOOLEAN, bad \in BOOLEAN, call \in BOOLEAN :
          LET r == [Troubled(run, d, bad) EXCEPT !.phase = "verify", !.errors = errors]
          IN  \/ /\ Becomes(d, IF errors THEN Failed(device[d]) ELSE Applied(device[d]))
                 /\ run' = r /\ UNCHANGED past
              \/ /\ Becomes(d, Failed(device[d]))
                 /\ Raised(Troubled(r, d, call), d)
  BY DEF Apply
<1> DEFINE t == Troubled(run, d, bad)
           r == [t EXCEPT !.phase = "verify", !.errors = errors]
<1>3. Same(t)
  BY <1>1, TroubledSame
<1> HIDE DEF t
<1>4. Same(r) /\ r.phase = "verify"
  BY <1>3 DEF Same, Run, Phases
<1> HIDE DEF r
<1>5. \A w \in Failed(device[d]) \cup Applied(device[d]) : Known(w)
  BY <1>1, FailedKnown
<1>6. CASE Becomes(d, IF errors THEN Failed(device[d]) ELSE Applied(device[d]))
              /\ run' = r /\ UNCHANGED past
  <2>1. PICK w : Known(w) /\ device' = [device EXCEPT ![d] = w]
    <3>1. CASE errors
      BY <1>5, <1>6, <3>1, BecomesIs
    <3>2. CASE ~errors
      BY <1>5, <1>6, <3>2, BecomesIs
    <3> QED BY <3>1, <3>2
  <2>2. Heeding(run')
    BY <1>1, <1>4, <1>6 DEF Heeding, Same, Testing, Restoring
  <2>3. Narrows(run, run') /\ (d \in run'.at /\ run'.recovery = 0 => run'.sent)
    BY <1>1, <1>4, <1>6 DEF Narrows, Same, Restoring, Heeding
  <2>4. Restores(d, w, run')
    BY <1>4, <1>6 DEF Restores
  <2> QED
    BY <1>1, <1>6, <2>1, <2>2, <2>3, <2>4, HandInv, KeepsPast
<1>7. CASE Becomes(d, Failed(device[d])) /\ Raised(Troubled(r, d, call), d)
  <2>1. PICK w : Known(w) /\ device' = [device EXCEPT ![d] = w]
    BY <1>5, <1>7, BecomesIs
  <2>2. Same(Troubled(r, d, call))
    BY <1>4, TroubledSame
  <2> QED
    BY <1>1, <1>7, <2>1, <2>2, HandRaised
<1> QED
  BY <1>2, <1>6, <1>7 DEF r, t

LEMMA VerifyKeeps ==
    ASSUME FieldInv, NEW d \in Devices, Verify(d)
    PROVE  FieldInv' /\ Safe
<1>1. /\ run.phase = "verify" /\ run.phase \in Restoring /\ Heeding(run) /\ InHand(d)
      /\ d \in run.at /\ Known(device[d]) /\ Same(run) /\ UNCHANGED journal
      /\ past \in [Devices -> Past] /\ device \in [Devices -> Device]
  BY InHandIs DEF Verify, FieldInv, Shape, Restoring, Same, Heeding
<1>2. PICK bad \in BOOLEAN, polling \in BOOLEAN :
          LET r == Troubled(run, d, bad /\ d \in Read)
          IN  \/ \E v \in Polls(d, device[d]) :
                    /\ Becomes(d, {v})
                    /\ \E differs \in Differs(v) :
                          IF ~differs /\ ~r.errors THEN Restored(r, d, TRUE, FALSE)
                          ELSE IF r.attempt = 2 THEN Restored(r, d, FALSE, r.errors)
                          ELSE /\ run' = [r EXCEPT !.phase = "apply", !.attempt = 2]
                               /\ UNCHANGED past
              \/ /\ Becomes(d, Polls(d, device[d]))
                 /\ Raised(Troubled(r, d, polling /\ d \in Read), d)
  BY DEF Verify
<1> DEFINE r == Troubled(run, d, bad /\ d \in Read)
<1>3. Same(r) /\ r.phase = "verify" /\ Same(Troubled(r, d, polling /\ d \in Read))
  BY <1>1, TroubledSame
<1> HIDE DEF r
<1>4. CASE \E v \in Polls(d, device[d]) :
              /\ Becomes(d, {v})
              /\ \E differs \in Differs(v) :
                    IF ~differs /\ ~r.errors THEN Restored(r, d, TRUE, FALSE)
                    ELSE IF r.attempt = 2 THEN Restored(r, d, FALSE, r.errors)
                    ELSE /\ run' = [r EXCEPT !.phase = "apply", !.attempt = 2]
                         /\ UNCHANGED past
  <2>1. PICK v \in Polls(d, device[d]) :
              /\ Becomes(d, {v})
              /\ \E differs \in Differs(v) :
                    IF ~differs /\ ~r.errors THEN Restored(r, d, TRUE, FALSE)
                    ELSE IF r.attempt = 2 THEN Restored(r, d, FALSE, r.errors)
                    ELSE /\ run' = [r EXCEPT !.phase = "apply", !.attempt = 2]
                         /\ UNCHANGED past
    BY <1>4
  <2>2. PICK differs \in Differs(v) :
              IF ~differs /\ ~r.errors THEN Restored(r, d, TRUE, FALSE)
              ELSE IF r.attempt = 2 THEN Restored(r, d, FALSE, r.errors)
              ELSE /\ run' = [r EXCEPT !.phase = "apply", !.attempt = 2]
                   /\ UNCHANGED past
    BY <2>1
  <2>3. Known(v) /\ device' = [device EXCEPT ![d] = v]
    BY <1>1, <2>1, PollsKnown, BecomesIs
  <2>4. differs \in BOOLEAN /\ r.errors \in BOOLEAN
    BY <1>3 DEF Differs, Same, Run
  <2>5. CASE differs = FALSE /\ r.errors = FALSE
    <3>1. Restored(r, d, TRUE, FALSE)
      BY <2>2, <2>5
    <3> QED
      BY <1>1, <1>3, <2>3, <2>5, <3>1, HandRestored
  <2>6. CASE (differs \/ r.errors) /\ r.attempt = 2
    <3>1. Restored(r, d, FALSE, r.errors)
      BY <2>2, <2>6
    <3> QED
      BY <1>1, <1>3, <2>3, <2>4, <3>1, HandRestored
  <2>7. CASE (differs \/ r.errors) /\ r.attempt # 2
    <3>0. 2 \in 0..2
      OBVIOUS
    <3>1. run' = [r EXCEPT !.phase = "apply", !.attempt = 2] /\ UNCHANGED past
      BY <2>2, <2>7
    <3>2. Same(run') /\ run'.phase = "apply"
      BY <1>3, <3>0, <3>1 DEF Same, Run, Phases
    <3>3. Heeding(run')
      BY <1>1, <3>2 DEF Heeding, Same, Testing, Restoring
    <3>4. Narrows(run, run') /\ (d \in run'.at /\ run'.recovery = 0 => run'.sent)
      BY <1>1, <3>2 DEF Narrows, Same, Restoring, Heeding
    <3>5. Restores(d, v, run')
      BY <3>2 DEF Restores
    <3> QED
      BY <1>1, <2>3, <3>1, <3>3, <3>4, <3>5, HandInv, KeepsPast
  <2> QED
    BY <2>4, <2>5, <2>6, <2>7
<1>5. CASE Becomes(d, Polls(d, device[d])) /\ Raised(Troubled(r, d, polling /\ d \in Read), d)
  <2>1. PICK w : Known(w) /\ device' = [device EXCEPT ![d] = w]
    BY <1>1, <1>5, PollsKnown, BecomesIs
  <2> QED
    BY <1>1, <1>3, <1>5, <2>1, HandRaised
<1> QED
  BY <1>2, <1>4, <1>5 DEF r

LEMMA PressSelfTestKeeps ==
    ASSUME FieldInv, NEW d \in Devices, PressSelfTest(d)
    PROVE  FieldInv' /\ Safe
<1>1. /\ run.phase = "selfTest" /\ run.phase \in Restoring /\ Heeding(run) /\ InHand(d)
      /\ d \in run.at /\ Known(device[d]) /\ Same(run) /\ UNCHANGED <<journal, past>>
  BY InHandIs DEF PressSelfTest, FieldInv, Restoring, Same, Heeding
<1>2. CASE run' = [run EXCEPT !.phase = "mark", !.stop = TRUE] /\ UNCHANGED device
  <2>1. /\ Same(run') /\ run'.phase = "mark" /\ run'.ok = run.ok /\ run'.stop
    BY <1>1, <1>2 DEF Same, Run, Phases
  <2>2. Heeding(run')
    BY <1>1, <2>1 DEF Heeding, Same, Testing, Restoring
  <2>3. Narrows(run, run')
    BY <1>1, <2>1 DEF Narrows, Same, Restoring
  <2>4. \A e \in Devices : Restores(e, device[e], run')
    BY <1>1, <2>1 DEF Restores, FieldInv, Fine, Same
  <2> QED
    BY <1>1, <1>2, <2>2, <2>3, <2>4, KeepInv, KeepsPast
<1>3. CASE \E raised, bad \in BOOLEAN :
             LET r == Troubled(run, d, bad)
             IN  /\ run' = [r EXCEPT !.phase = "look", !.tested = TRUE, !.attempt = 0,
                                     !.again = FALSE, !.errors = FALSE, !.stop = @ \/ raised]
                 /\ Becomes(d, IF raised /\ bad THEN Lost(device[d]) ELSE Failed(device[d]))
  <2>1. PICK raised \in BOOLEAN, bad \in BOOLEAN :
             LET r == Troubled(run, d, bad)
             IN  /\ run' = [r EXCEPT !.phase = "look", !.tested = TRUE, !.attempt = 0,
                                     !.again = FALSE, !.errors = FALSE, !.stop = @ \/ raised]
                 /\ Becomes(d, IF raised /\ bad THEN Lost(device[d]) ELSE Failed(device[d]))
    BY <1>3
  <2> DEFINE r == Troubled(run, d, bad)
  <2>2. Same(r)
    BY <1>1, TroubledSame
  <2> HIDE DEF r
  <2>3. run' = [r EXCEPT !.phase = "look", !.tested = TRUE, !.attempt = 0,
                         !.again = FALSE, !.errors = FALSE, !.stop = @ \/ raised]
    BY <2>1 DEF r
  <2>4. 0 \in 0..2
    OBVIOUS
  <2>5. Same(run') /\ run'.phase = "look"
    BY <2>2, <2>3, <2>4, ZenonT(60) DEF Same, Run, Phases
  <2>6. PICK w : Known(w) /\ device' = [device EXCEPT ![d] = w]
    BY <1>1, <2>1, FailedKnown, BecomesIs
  <2>7. Heeding(run')
    BY <1>1, <2>5 DEF Heeding, Same, Testing, Restoring
  <2>8. Narrows(run, run') /\ (d \in run'.at /\ run'.recovery = 0 => run'.sent)
    BY <1>1, <2>5 DEF Narrows, Same, Restoring, Heeding
  <2>9. Restores(d, w, run')
    BY <2>5 DEF Restores
  <2> QED
    BY <1>1, <2>6, <2>7, <2>8, <2>9, HandInv, KeepsPast
<1> QED
  BY <1>2, <1>3 DEF PressSelfTest

LEMMA SignalKeeps ==
    ASSUME FieldInv, Signal
    PROVE  FieldInv' /\ Safe
<1> DEFINE r == [run EXCEPT !.signalled = TRUE, !.stop = TRUE]
<1>1. /\ Heeding(run) /\ run.recovery = 0 /\ ~Recovering /\ UNCHANGED journal
      /\ device \in [Devices -> Device] /\ past \in [Devices -> Past]
  BY FieldAssumption DEF Signal, FieldInv, Shape, Recovering, Heeding, Run
<1>2. /\ r \in Run /\ r.signalled /\ r.stop /\ r.phase = run.phase
      /\ r.at = run.at /\ r.left = run.left /\ r.recovery = run.recovery
      /\ r.sent = run.sent /\ r.seen = run.seen /\ r.fragileStop = run.fragileStop
  BY <1>1 DEF Heeding, Run
<1> HIDE DEF r
<1>3. CASE run.phase = "next" /\ run' = [r EXCEPT !.phase = "over"] /\ UNCHANGED <<device, past>>
  <2>1. /\ run' \in Run /\ run'.phase = "over" /\ run'.stop
        /\ run'.at = run.at /\ run'.left = run.left /\ run'.recovery = run.recovery
        /\ run'.sent = run.sent
    BY <1>2, <1>3 DEF Run, Phases
  <2>2. Heeding(run') /\ Narrows(run, run')
    BY <1>1, <1>3, <2>1 DEF Heeding, Narrows, Testing, Restoring
  <2>3. \A d \in Devices : Restores(d, device[d], run')
    BY <2>1 DEF Restores
  <2> QED
    BY <1>1, <1>3, <2>2, <2>3, KeepInv, KeepsPast
<1>4. CASE /\ run.phase \in {"put", "steps"}
           /\ run' = [r EXCEPT !.phase = "unwound", !.sent = @ \/ run.phase = "steps"]
           /\ IF run.phase = "put" THEN UNCHANGED device
              ELSE \E d \in run.at : Becomes(d, Lost(device[d]))
           /\ UNCHANGED past
  <2>1. /\ run' \in Run /\ run'.phase = "unwound" /\ run'.stop
        /\ run'.at = run.at /\ run'.left = run.left /\ run'.recovery = run.recovery
        /\ run'.seen = run.seen
        /\ run'.sent = (run.sent \/ run.phase = "steps")
    BY <1>2, <1>4 DEF Run, Phases
  <2>2. Heeding(run') /\ Narrows(run, run')
    BY <1>1, <1>4, <2>1 DEF Heeding, Narrows, Testing, Restoring
  <2>3. \A d, v : Restores(d, v, run')
    BY <2>1 DEF Restores
  <2>4. CASE run.phase = "put"
    BY <1>1, <1>4, <2>2, <2>3, <2>4, KeepInv, KeepsPast
  <2>5. CASE run.phase = "steps"
    <3>1. PICK d \in run.at : Becomes(d, Lost(device[d]))
      BY <1>4, <2>5
    <3>2. d \in Devices
      BY <1>1 DEF Heeding, Run
    <3>3. Known(device[d])
      BY <3>2 DEF FieldInv, Fine
    <3>4. PICK w : Known(w) /\ device' = [device EXCEPT ![d] = w]
      BY <3>1, <3>2, <3>3, FailedKnown, BecomesIs
    <3> QED
      BY <1>1, <1>4, <2>1, <2>2, <2>3, <2>5, <3>4, HandInv, KeepsPast
  <2> QED BY <1>4, <2>4, <2>5
<1>5. CASE /\ run.phase \in {"unwound", "leave"}
           /\ run' = Leaving(r)
           /\ past' = [d \in Devices |->
                  IF d \in run.at /\ run.phase = "unwound"
                  THEN [past[d] EXCEPT !.outcome = "skipped"] ELSE past[d]]
           /\ UNCHANGED device
  <2>1. /\ run' \in Run /\ run'.at = {} /\ ~run'.sent /\ run'.left = run.left
        /\ run'.recovery = run.recovery /\ run'.phase = "next" /\ run'.stop
    BY <1>1, <1>2, <1>5, LeavingIs
  <2>2. Heeding(run') /\ Narrows(run, run')
    BY <1>1, <2>1 DEF Heeding, Narrows, Testing, Restoring
  <2>3. \A d \in Devices : Restores(d, device[d], run')
    BY <2>1 DEF Restores
  <2>4. PastKept
    BY <1>1, <1>5 DEF PastKept, Past
  <2> QED
    BY <1>1, <1>5, <2>2, <2>3, <2>4, KeepInv
<1> QED
  BY <1>3, <1>4, <1>5 DEF Signal, r

LEMMA PressCtrlCKeeps ==
    ASSUME FieldInv, NEW d \in Devices, PressCtrlC(d)
    PROVE  FieldInv' /\ Safe
<1> DEFINE r == [run EXCEPT !.seen = TRUE, !.presses = @ + 1]
           marked == [r EXCEPT !.phase = "mark", !.ok = FALSE, !.stop = TRUE]
           left == [r EXCEPT !.phase = "leave"]
<1>1. /\ Heeding(run) /\ run.phase \in Deferring /\ InHand(d) /\ UNCHANGED journal
      /\ d \in run.at /\ Known(device[d]) /\ run.presses < MaxPresses
      /\ device \in [Devices -> Device] /\ past \in [Devices -> Past]
  BY InHandIs DEF PressCtrlC, FieldInv, Shape
<1>2. /\ r \in Run /\ r.phase = run.phase /\ r.ok = run.ok /\ r.whole = run.whole
      /\ r.at = run.at /\ r.left = run.left /\ r.recovery = run.recovery
      /\ r.sent = run.sent /\ r.signalled = run.signalled
      /\ r.stop = run.stop /\ r.fragileStop = run.fragileStop
  <2>1. run.presses + 1 \in 0..MaxPresses
    BY <1>1, FieldAssumption DEF Heeding, Run
  <2> QED BY <1>1, <2>1 DEF Heeding, Run
<1> HIDE DEF r
<1>3. CASE run' = r /\ UNCHANGED <<device, past>>
  <2>1. Heeding(run') /\ Narrows(run, run')
    BY <1>1, <1>2, <1>3 DEF Heeding, Narrows, Testing, Restoring, Deferring
  <2>2. \A e \in Devices : Restores(e, device[e], run')
    BY <1>2, <1>3 DEF Restores, FieldInv, Fine
  <2> QED
    BY <1>1, <1>3, <2>1, <2>2, KeepInv, KeepsPast
<1>4. CASE /\ run' = IF Recovering THEN Leaving(r) ELSE IF r.phase = "mark" THEN left ELSE marked
           /\ Becomes(d, IF r.phase \in {"apply", "selfTest"} THEN Lost(device[d])
                         ELSE {device[d]})
           /\ past' = [past EXCEPT ![d].outcome = "failed"]
  <2>1. /\ Heeding(run') /\ Narrows(run, run') /\ (\A e, v : Restores(e, v, run'))
        /\ run'.at = {} \/ run'.sent = run.sent
    <3>1. CASE Recovering
      <4>1. run.recovery > 0 /\ run.recovery \in Nat
        BY <1>1, <3>1, FieldAssumption DEF Recovering, Heeding, Run
      <4>2. /\ run' \in Run /\ run'.at = {} /\ ~run'.sent /\ run'.left = run.left
            /\ run'.recovery = run.recovery /\ run'.phase = "recoverNext"
        BY <1>2, <1>4, <3>1, LeavingIs
      <4> QED
        BY <1>1, <4>1, <4>2 DEF Heeding, Narrows, Testing, Restoring, Restores
    <3>2. CASE ~Recovering /\ r.phase = "mark"
      <4>1. /\ run' \in Run /\ run'.at = run.at /\ run'.left = run.left
            /\ run'.recovery = run.recovery /\ run'.phase = "leave"
            /\ run'.sent = run.sent /\ run'.signalled = run.signalled
            /\ run'.stop = run.stop /\ run'.fragileStop = run.fragileStop
        BY <1>2, <1>4, <3>2 DEF Run, Phases
      <4> QED
        BY <1>1, <4>1 DEF Heeding, Narrows, Testing, Restoring, Restores, Deferring
    <3>3. CASE ~Recovering /\ r.phase # "mark"
      <4>1. /\ run' \in Run /\ run'.at = run.at /\ run'.left = run.left
            /\ run'.recovery = run.recovery /\ run'.phase = "mark" /\ ~run'.ok
            /\ run'.sent = run.sent /\ run'.stop
        BY <1>2, <1>4, <3>3 DEF Run, Phases
      <4> QED
        BY <1>1, <4>1 DEF Heeding, Narrows, Testing, Restoring, Restores, Deferring
    <3> QED BY <3>1, <3>2, <3>3
  <2>2. PastKept
    BY <1>1, <1>4 DEF PastKept, Past
  <2>3. CASE r.phase \in {"apply", "selfTest"}
    <3>1. PICK w : Known(w) /\ device' = [device EXCEPT ![d] = w]
      BY <1>1, <1>4, <2>3, FailedKnown, BecomesIs
    <3>2. d \in run'.at /\ run'.recovery = 0 => run'.sent
      BY <1>1, <1>2, <2>1, <2>3 DEF Heeding, Narrows, Restoring
    <3>3. run.phase \in Restoring
      BY <1>2, <2>3 DEF Restoring
    <3> QED
      BY <1>1, <2>1, <2>2, <3>1, <3>2, <3>3, HandInv
  <2>4. CASE r.phase \notin {"apply", "selfTest"}
    <3>1. UNCHANGED device
      BY <1>1, <1>4, <2>4, BecomesIs
    <3> QED
      BY <1>1, <2>1, <2>2, <3>1, KeepInv
  <2> QED BY <2>3, <2>4
<1> QED
  BY <1>3, <1>4 DEF PressCtrlC, r

LEMMA PressAgainKeeps ==
    ASSUME FieldInv, NEW d \in Devices, PressAgain(d)
    PROVE  FieldInv' /\ Safe
<1>1. /\ Heeding(run) /\ run.phase = "mark" /\ run.recovery = 0
      /\ UNCHANGED <<device, journal, past>>
  BY FieldAssumption DEF PressAgain, Keep, FieldInv, Heeding, Recovering, Run
<1>2. CASE run' = [run EXCEPT !.phase = "leave", !.seen = TRUE]
  <2>1. /\ run' \in Run /\ run'.phase = "leave" /\ run'.at = run.at /\ run'.left = run.left
        /\ run'.recovery = run.recovery /\ run'.sent = run.sent /\ run'.seen
        /\ run'.signalled = run.signalled
        /\ run'.stop = run.stop /\ run'.fragileStop = run.fragileStop
    BY <1>1, <1>2 DEF Heeding, Run, Phases
  <2>2. Heeding(run') /\ Narrows(run, run') /\ (\A e, v : Restores(e, v, run'))
    BY <1>1, <2>1 DEF Heeding, Narrows, Testing, Restoring, Restores
  <2> QED
    BY <1>1, <2>2, KeepInv, KeepsPast
<1>3. CASE run' = Fresh({}, "over", 0)
  <2>1. /\ run' \in Run /\ run'.phase = "over" /\ run'.at = {} /\ run'.left = {}
        /\ run'.recovery = 0 /\ ~run'.stop /\ ~run'.fragileStop
        /\ ~run'.signalled /\ ~run'.seen /\ ~run'.sent
    <3>1. 0 \in 0..MaxRecoveries /\ {} \in SUBSET Devices /\ "over" \in Phases
      BY FieldAssumption DEF Phases
    <3> QED BY <1>3, <3>1, FreshIs
  <2>2. Heeding(run') /\ Narrows(run, run') /\ (\A e, v : Restores(e, v, run'))
    BY <1>1, <2>1 DEF Heeding, Narrows, Testing, Restoring, Restores
  <2> QED
    BY <1>1, <2>2, KeepInv, KeepsPast
<1> QED
  BY <1>2, <1>3 DEF PressAgain

LEMMA KillKeeps ==
    ASSUME FieldInv, Kill
    PROVE  FieldInv' /\ Safe
<1>1. /\ Heeding(run) /\ UNCHANGED <<journal, past>> /\ run' = Fresh({}, "dead", run.recovery)
  BY DEF Kill, FieldInv
<1>2. /\ run' \in Run /\ run'.phase = "dead" /\ run'.at = {} /\ run'.left = {}
      /\ run'.recovery = run.recovery /\ ~run'.stop /\ ~run'.fragileStop
      /\ ~run'.signalled /\ ~run'.seen /\ ~run'.sent
  <2>1. run.recovery \in 0..MaxRecoveries /\ {} \in SUBSET Devices /\ "dead" \in Phases
    BY <1>1 DEF Heeding, Run, Phases
  <2> QED BY <1>1, <2>1, FreshIs
<1>3. Heeding(run') /\ Narrows(run, run') /\ (\A d, v : Restores(d, v, run'))
  BY <1>1, <1>2 DEF Heeding, Narrows, Testing, Restoring, Restores
<1>4. CASE UNCHANGED device
  BY <1>1, <1>3, <1>4, KeepInv, KeepsPast
<1>5. CASE device' # device
  <2> DEFINE cut(e) == IF run.phase \in {"steps", "apply", "selfTest"} THEN Lost(device[e]) ELSE {}
  <2>0. PICK d \in run.at, w \in UNION {cut(e) : e \in run.at} :
             device' = [device EXCEPT ![d] = w]
    BY <1>5 DEF Kill
  <2>1. PICK e \in run.at : w \in cut(e)
    BY <2>0
  <2>2. d = e /\ d \in Devices
    BY <1>1 DEF Heeding, Run
  <2>3. run.phase \in {"steps", "apply", "selfTest"} /\ w \in Lost(device[d])
    BY <2>1, <2>2
  <2>4. Known(w)
    BY <2>2, <2>3, FailedKnown DEF FieldInv, Fine
  <2>5. run.phase \in Restoring \cup {"steps"}
    BY <2>3 DEF Restoring
  <2> QED
    BY <1>1, <1>2, <1>3, <2>0, <2>4, <2>5, HandInv, KeepsPast
<1> QED BY <1>4, <1>5

-----------------------------------------------------------------------------
(* The steps that take a device in hand, save the journal or come late.     *)

LEMMA FineNow ==
    ASSUME FieldInv, NEW d \in Devices
    PROVE  Fine(d, device[d], journal.held[d], journal.disk[d], past[d].sure, run)
  BY DEF FieldInv

LEMMA LateEndKeeps ==
    ASSUME FieldInv, NEW d \in Devices, LateEnd(d)
    PROVE  FieldInv' /\ Safe
<1>1. Shape /\ Heeding(run) /\ UNCHANGED <<journal, run, past>> /\ device[d].running
  BY DEF LateEnd, FieldInv
<1>2. PICK s \in {device[d].real, "changed"} :
         Becomes(d, {[device[d] EXCEPT !.running = FALSE, !.real = s, !.shown = t] :
                        t \in {device[d].shown, s}})
  BY DEF LateEnd
<1>3. PICK w \in {[device[d] EXCEPT !.running = FALSE, !.real = s, !.shown = t] :
                        t \in {device[d].shown, s}} : device' = [device EXCEPT ![d] = w]
  BY <1>2, BecomesIs
<1>4. PICK t \in {device[d].shown, s} :
         w = [device[d] EXCEPT !.running = FALSE, !.real = s, !.shown = t]
  BY <1>3
<1>5. Known(device[d]) /\ ~device[d].known
  BY <1>1, FineNow DEF Fine, Known
<1>6. w \in Device /\ ~w.known /\ ~w.running
  <2>1. s \in States /\ t \in States
    BY <1>5 DEF Known, Device, States
  <2> QED BY <1>4, <1>5, <2>1 DEF Known, Device
<1>7. Shape'
  BY <1>1, <1>3, <1>6 DEF Shape
<1>8. ASSUME NEW e \in Devices
      PROVE  Fine(e, device'[e], journal'.held[e], journal'.disk[e], past'[e].sure, run')
  <2>1. CASE e = d
    <3>1. device'[e] = w
      BY <1>1, <1>3, <2>1 DEF Shape
    <3> QED
      BY <1>1, <1>6, <2>1, <3>1, FineNow DEF Fine, Known
  <2>2. CASE e # d
    <3>1. device'[e] = device[e]
      BY <1>1, <1>3, <2>2 DEF Shape
    <3> QED
      BY <1>1, <3>1, FineNow
  <2> QED BY <2>1, <2>2
<1>9. FieldInv'
  BY <1>1, <1>7, <1>8 DEF FieldInv
<1> QED
  BY <1>1, <1>9 DEF Safe

LEMMA PrepareKeeps ==
    ASSUME FieldInv, NEW d \in Devices, Prepare(d)
    PROVE  FieldInv' /\ Safe
<1>1. /\ Shape /\ Heeding(run) /\ run.phase = "next" /\ ~run.stop /\ d \in run.left
      /\ UNCHANGED <<journal, past>>
  BY DEF Prepare, FieldInv
<1>2. run' = [run EXCEPT !.phase = "put", !.left = @ \ {d}, !.at = {d}, !.seen = FALSE]
  BY DEF Prepare
<1>3. run.recovery = 0 /\ ~run.fragileStop /\ ~run.signalled /\ ~run.sent
  BY <1>1, FieldAssumption DEF Heeding, Testing, Run
<1>4. /\ run' \in Run /\ run'.phase = "put" /\ run'.at = {d} /\ run'.left = run.left \ {d}
      /\ ~run'.seen /\ run'.recovery = 0 /\ ~run'.fragileStop /\ ~run'.signalled /\ ~run'.sent
  BY <1>1, <1>2, <1>3, ZenonT(60) DEF Heeding, Run, Phases
<1>5. Heeding(run')
  BY <1>4 DEF Heeding, Testing, Restoring
<1>6. PICK w \in {device[d]} \cup {Polled(v) : v \in {u \in {device[d]} : ~u.running}} :
         device' = [device EXCEPT ![d] = w]
  BY BecomesIs DEF Prepare
<1>7. Known(device[d])
  BY FineNow DEF Fine
<1>8. Known(w) /\ w.real = device[d].real /\ w.running = device[d].running
  <2>1. CASE w = device[d]
    BY <1>7, <2>1
  <2>2. CASE w # device[d]
    <3>1. w = Polled(device[d]) /\ ~device[d].running
      BY <1>6, <2>2
    <3> QED BY <1>7, <3>1 DEF Polled, Known, Device
  <2> QED BY <2>1, <2>2
<1>9. Shape'
  BY <1>1, <1>6, <1>8 DEF Shape, Known
<1>10. ASSUME NEW e \in Devices
       PROVE  Fine(e, device'[e], journal'.held[e], journal'.disk[e], past'[e].sure, run')
  <2>1. CASE e = d
    <3>1. device'[e] = w
      BY <1>1, <1>6, <2>1 DEF Shape
    <3>2. Fine(d, device[d], journal.held[d], journal.disk[d], past[d].sure, run)
      BY FineNow
    <3> QED
      BY <1>1, <1>3, <1>4, <1>8, <2>1, <3>1, <3>2 DEF Fine, Pristine, Touching, Restoring
  <2>2. CASE e # d
    <3>1. device'[e] = device[e]
      BY <1>1, <1>6, <2>2 DEF Shape
    <3>2. e \notin run'.at /\ run'.left \subseteq run.left /\ run'.recovery = run.recovery
      BY <1>3, <1>4, <2>2
    <3> QED
      BY <1>1, <3>1, <3>2, FineNow, FineApart
  <2> QED BY <2>1, <2>2
<1>11. FieldInv'
  BY <1>5, <1>9, <1>10 DEF FieldInv
<1> QED
  BY <1>1, <1>3, <1>11 DEF Safe

LEMMA PutKeeps ==
    ASSUME FieldInv, NEW d \in Devices, Put(d)
    PROVE  FieldInv' /\ Safe
<1> DEFINE new == [touched |-> TRUE, restored |-> FALSE]
           held == [journal.held EXCEPT ![d] = new]
<1>1. /\ Shape /\ Heeding(run) /\ run.phase = "put" /\ run.at = {d} /\ UNCHANGED <<device, past>>
  BY DEF Put, FieldInv, InHand
<1>2. run.recovery = 0 /\ d \notin run.left
  BY <1>1, FieldAssumption DEF Heeding, Testing, Run
<1>3. held \in [Devices -> Record] /\ held[d] = new /\ (\A e \in Devices \ {d} : held[e] = journal.held[e])
  BY <1>1 DEF Shape, Record
<1>4. \/ Saved(held) /\ run' = [run EXCEPT !.phase = "steps"]
      \/ Unsaved(held) /\ run' = [run EXCEPT !.phase = "unwound", !.stop = TRUE]
  BY DEF Put
<1> HIDE DEF held
<1>5. /\ run' \in Run /\ run'.phase \in {"steps", "unwound"}
      /\ run'.at = run.at /\ run'.left = run.left /\ run'.recovery = run.recovery
      /\ run'.sent = run.sent /\ run'.seen = run.seen /\ run'.signalled = run.signalled
      /\ (run.stop => run'.stop) /\ run'.fragileStop = run.fragileStop
  <2>1. CASE run' = [run EXCEPT !.phase = "steps"]
    BY <1>1, <2>1 DEF Heeding, Run, Phases
  <2>2. CASE run' = [run EXCEPT !.phase = "unwound", !.stop = TRUE]
    BY <1>1, <2>2 DEF Heeding, Run, Phases
  <2> QED BY <1>4, <2>1, <2>2
<1>6. /\ journal' \in [held : [Devices -> Record], disk : [Devices -> Record]]
      /\ journal'.held = held
      /\ \/ journal'.disk = held
         \/ journal'.disk = journal.disk /\ run'.phase = "unwound"
  <2>1. CASE Saved(held)
    BY <1>3, <2>1 DEF Saved
  <2>2. CASE Unsaved(held) /\ run' = [run EXCEPT !.phase = "unwound", !.stop = TRUE]
    <3>1. run'.phase = "unwound"
      BY <1>1, <2>2 DEF Heeding, Run
    <3> QED
      BY <1>1, <1>3, <2>2, <3>1 DEF Unsaved, Shape
  <2> QED BY <1>4, <2>1, <2>2
<1>7. Heeding(run')
  BY <1>1, <1>5 DEF Heeding, Testing, Restoring
<1>8. Shape'
  BY <1>1, <1>6 DEF Shape
<1>9. ASSUME NEW e \in Devices
      PROVE  Fine(e, device'[e], journal'.held[e], journal'.disk[e], past'[e].sure, run')
  <2>0. Fine(e, device[e], journal.held[e], journal.disk[e], past[e].sure, run)
    BY FineNow
  <2>1. CASE e = d
    <3>1. new \in Record /\ new.touched /\ ~new.restored /\ journal'.held[e] = new
      BY <1>3, <1>6, <2>1 DEF Record
    <3> HIDE DEF new
    <3>2. CASE journal'.disk = held
      <4>1. journal'.disk[e] = new
        BY <1>6, <3>1, <3>2
      <4> QED
        BY <1>1, <1>2, <1>5, <2>0, <2>1, <3>1, <4>1 DEF Fine, Pristine, Touching, Restoring
    <3>3. CASE journal'.disk = journal.disk /\ run'.phase = "unwound"
      BY <1>1, <1>2, <1>5, <2>0, <2>1, <3>1, <3>3 DEF Fine, Pristine, Touching, Restoring
    <3> QED BY <1>6, <3>2, <3>3
  <2>2. CASE e # d
    <3>1. Fine(e, device[e], journal.held[e], journal.disk[e], past[e].sure, run')
      BY <1>1, <1>5, <2>0, <2>2, FineApart
    <3>2. journal'.held[e] = journal.held[e]
      BY <1>3, <1>6, <2>2
    <3>3. journal'.disk[e] = journal.disk[e] \/ journal'.disk[e] = journal.held[e]
      BY <1>6, <3>2
    <3>4. Fine(e, device[e], journal.held[e], journal.held[e], past[e].sure, run')
      BY <3>1, FineSaved
    <3> QED
      BY <1>1, <3>1, <3>2, <3>3, <3>4
  <2> QED BY <2>1, <2>2
<1>10. FieldInv'
  BY <1>7, <1>8, <1>9 DEF FieldInv
<1> QED
  BY <1>5, <1>10 DEF Safe

LEMMA MarkKeeps ==
    ASSUME FieldInv, NEW d \in Devices, Mark(d)
    PROVE  FieldInv' /\ Safe
<1> DEFINE put == run.ok /\ run.whole
           held == [journal.held EXCEPT ![d].restored = put]
<1>1. /\ Shape /\ Heeding(run) /\ run.phase = "mark" /\ run.at = {d} /\ UNCHANGED device
  BY DEF Mark, FieldInv, InHand
<1>2. run.recovery \in Nat /\ d \notin run.left
  BY <1>1, FieldAssumption DEF Heeding, Run
<1>3. /\ held \in [Devices -> Record] /\ held[d].touched = journal.held[d].touched
      /\ held[d].restored = put /\ (\A e \in Devices \ {d} : held[e] = journal.held[e])
  <2>1. put \in BOOLEAN
    BY <1>1 DEF Heeding, Run
  <2>2. journal.held \in [Devices -> Record]
    BY <1>1 DEF Shape
  <2> HIDE DEF put
  <2>3. [journal.held[d] EXCEPT !.restored = put] \in Record
    BY <2>1, <2>2 DEF Record
  <2>4. /\ [journal.held[d] EXCEPT !.restored = put].touched = journal.held[d].touched
        /\ [journal.held[d] EXCEPT !.restored = put].restored = put
    BY <2>1, <2>2 DEF Record
  <2> QED BY <2>2, <2>3, <2>4
<1>4. /\ \/ Saved(held) /\ run' = [run EXCEPT !.phase = "leave"]
         \/ Unsaved(held) /\ run' = [Leaving(run) EXCEPT !.stop = ~Recovering]
      /\ past' = [past EXCEPT ![d].sure = IF held[d].restored THEN device[d].known ELSE @]
  BY DEF Mark
<1> HIDE DEF held
<1>5. /\ past' \in [Devices -> Past] /\ (\A e \in Devices \ {d} : past'[e].sure = past[e].sure)
      /\ past'[d].sure = IF put THEN device[d].known ELSE past[d].sure
  <2>1. device[d].known \in BOOLEAN
    BY <1>1 DEF Shape, Device
  <2>2. held[d].restored = put
    BY <1>3
  <2> HIDE DEF put
  <2>3. past' = [past EXCEPT ![d].sure = IF put THEN device[d].known ELSE @]
    BY <1>4, <2>2
  <2> QED BY <1>1, <2>1, <2>3 DEF Shape, Past
<1>6. CASE Saved(held) /\ run' = [run EXCEPT !.phase = "leave"]
  <2>1. /\ run' \in Run /\ run'.phase = "leave"
        /\ run'.at = run.at /\ run'.left = run.left /\ run'.recovery = run.recovery
        /\ run'.sent = run.sent /\ run'.seen = run.seen /\ run'.signalled = run.signalled
        /\ run'.stop = run.stop /\ run'.fragileStop = run.fragileStop
    BY <1>1, <1>6 DEF Heeding, Run, Phases
  <2>2. Heeding(run')
    BY <1>1, <2>1 DEF Heeding, Testing, Restoring
  <2>3. journal' = [held |-> held, disk |-> held]
    BY <1>6 DEF Saved
  <2>4. Shape'
    BY <1>1, <1>3, <1>5, <2>3 DEF Shape
  <2>5. ASSUME NEW e \in Devices
        PROVE  Fine(e, device'[e], journal'.held[e], journal'.disk[e], past'[e].sure, run')
    <3>0. Fine(e, device[e], journal.held[e], journal.disk[e], past[e].sure, run)
      BY FineNow
    <3>1. CASE e = d
      <4>1. journal'.held[e] = held[d] /\ journal'.disk[e] = held[d] /\ held[d] \in Record
        BY <1>3, <2>3, <3>1
      <4>2. put /\ device[d].known => device[d].real = "found"
        BY <1>1, <3>0, <3>1 DEF Fine
      <4> HIDE DEF put
      <4>3. past'[d].sure \in BOOLEAN
        BY <1>5 DEF Past
      <4> QED
        BY <1>1, <1>2, <1>3, <1>5, <2>1, <3>0, <3>1, <4>1, <4>2, <4>3
           DEF Fine, Pristine, Touching, Restoring
    <3>2. CASE e # d
      <4>1. Fine(e, device[e], journal.held[e], journal.disk[e], past[e].sure, run')
        BY <1>1, <2>1, <3>0, <3>2, FineApart
      <4>2. journal'.held[e] = journal.held[e] /\ journal'.disk[e] = journal.held[e]
        BY <1>3, <2>3, <3>2
      <4> QED
        BY <1>1, <1>5, <3>2, <4>1, <4>2, FineSaved
    <3> QED BY <3>1, <3>2
  <2> QED
    BY <2>1, <2>2, <2>4, <2>5 DEF FieldInv, Safe
<1>7. CASE Unsaved(held) /\ run' = [Leaving(run) EXCEPT !.stop = ~Recovering]
  <2> DEFINE s == Leaving(run)
  <2>1. /\ s \in Run /\ s.at = {} /\ ~s.sent /\ s.left = run.left /\ s.recovery = run.recovery
        /\ s.phase = IF Recovering THEN "recoverNext" ELSE "next"
    BY <1>1, LeavingIs DEF Heeding
  <2> HIDE DEF s
  <2>2. run' = [s EXCEPT !.stop = ~Recovering]
    BY <1>7 DEF s
  <2>3. /\ run' \in Run /\ run'.at = {} /\ ~run'.sent /\ run'.left = run.left
        /\ run'.recovery = run.recovery
        /\ run'.phase = (IF Recovering THEN "recoverNext" ELSE "next")
        /\ (~Recovering => run'.stop)
    <3>1. run'.stop = ~Recovering /\ run'.stop \in BOOLEAN
      BY <2>1, <2>2 DEF Run, Recovering
    <3>2. /\ run' \in Run /\ run'.at = {} /\ ~run'.sent /\ run'.left = run.left
          /\ run'.recovery = run.recovery /\ run'.phase = s.phase
      BY <2>1, <2>2 DEF Run, Recovering
    <3> QED BY <2>1, <3>1, <3>2
  <2>4. Heeding(run')
    BY <1>1, <1>2, <2>3 DEF Heeding, Testing, Restoring, Recovering
  <2>5. /\ journal' \in [held : [Devices -> Record], disk : [Devices -> Record]]
        /\ journal'.held = held /\ journal'.disk = journal.disk
    BY <1>1, <1>3, <1>7 DEF Unsaved, Shape
  <2>6. Shape'
    BY <1>1, <1>5, <2>5 DEF Shape
  <2>7. ASSUME NEW e \in Devices
        PROVE  Fine(e, device'[e], journal'.held[e], journal'.disk[e], past'[e].sure, run')
    <3>0. Fine(e, device[e], journal.held[e], journal.disk[e], past[e].sure, run)
      BY FineNow
    <3>1. CASE e = d
      <4>1. journal'.held[e] = held[d] /\ held[d] \in Record /\ journal'.disk[e] = journal.disk[d]
        BY <1>3, <2>5, <3>1
      <4>2. put /\ device[d].known => device[d].real = "found"
        BY <1>1, <3>0, <3>1 DEF Fine
      <4> HIDE DEF put
      <4>3. past'[d].sure \in BOOLEAN
        BY <1>5 DEF Past
      <4> QED
        BY <1>1, <1>2, <1>3, <1>5, <2>3, <3>0, <3>1, <4>1, <4>2, <4>3
           DEF Fine, Pristine, Touching
    <3>2. CASE e # d
      <4>1. journal'.held[e] = journal.held[e] /\ journal'.disk[e] = journal.disk[e]
        BY <1>3, <2>5, <3>2
      <4> QED
        BY <1>1, <1>5, <2>3, <3>0, <3>2, <4>1, FineApart
    <3> QED BY <3>1, <3>2
  <2> QED
    BY <2>3, <2>4, <2>6, <2>7 DEF FieldInv, Safe
<1> QED BY <1>4, <1>6, <1>7

LEMMA StartRecoveryKeeps ==
    ASSUME FieldInv, StartRecovery
    PROVE  FieldInv' /\ Safe
<1>1. /\ Shape /\ Heeding(run) /\ run.recovery < MaxRecoveries /\ UNCHANGED <<device, past>>
      /\ journal' = [held |-> journal.disk, disk |-> journal.disk]
  BY DEF StartRecovery, Saved, FieldInv
<1>2. PICK all \in BOOLEAN :
          run' = Fresh({d \in Devices : LET r == journal.disk[d]
                                        IN  r.touched /\ (all \/ ~r.restored)},
                       "recoverNext", run.recovery + 1)
  BY DEF StartRecovery
<1> DEFINE left == {d \in Devices : LET r == journal.disk[d]
                                     IN  r.touched /\ (all \/ ~r.restored)}
<1>3. left \in SUBSET Devices /\ (\A d \in left : journal.disk[d].touched)
  OBVIOUS
<1> HIDE DEF left
<1>4. /\ run' \in Run /\ run'.phase = "recoverNext" /\ run'.at = {} /\ run'.left = left
      /\ run'.recovery = run.recovery + 1 /\ run'.recovery > 0 /\ ~run'.stop /\ ~run'.fragileStop
      /\ ~run'.signalled /\ ~run'.seen /\ ~run'.sent
  <2>1. run.recovery + 1 \in 0..MaxRecoveries /\ run.recovery + 1 > 0
    BY <1>1, FieldAssumption DEF Heeding, Run
  <2>2. run' = Fresh(left, "recoverNext", run.recovery + 1) /\ "recoverNext" \in Phases
    BY <1>2 DEF left, Phases
  <2> QED
    BY <1>3, <2>1, <2>2, FreshIs
<1>5. Heeding(run')
  BY <1>4 DEF Heeding, Testing, Restoring
<1>6. Shape'
  BY <1>1 DEF Shape
<1>7. ASSUME NEW d \in Devices
      PROVE  Fine(d, device'[d], journal'.held[d], journal'.disk[d], past'[d].sure, run')
  <2>1. Fine(d, device[d], journal.held[d], journal.disk[d], past[d].sure, run)
    BY FineNow
  <2>2. journal'.held[d] = journal.disk[d] /\ journal'.disk[d] = journal.disk[d]
    BY <1>1
  <2>3. run'.recovery # 0
    BY <1>4 DEF Run
  <2> QED
    BY <1>1, <1>3, <1>4, <2>1, <2>2, <2>3 DEF Fine, Pristine, Touching
<1>8. FieldInv'
  BY <1>5, <1>6, <1>7 DEF FieldInv
<1> QED
  BY <1>4, <1>8 DEF Safe

LEMMA RecoverKeeps ==
    ASSUME FieldInv, NEW d \in Devices, Recover(d)
    PROVE  FieldInv' /\ Safe
<1>1. /\ Shape /\ Heeding(run) /\ run.phase = "recoverNext" /\ ~run.fragileStop
      /\ d \in run.left /\ UNCHANGED <<device, journal, past>>
  BY DEF Recover, Keep, FieldInv
<1>2. run.recovery > 0 /\ run.recovery # 0
  BY <1>1, FieldAssumption DEF Heeding, Run
<1> DEFINE r == [run EXCEPT !.left = @ \ {d}, !.at = {d}, !.seen = FALSE, !.ok = TRUE]
<1>3. /\ r \in Run /\ r.at = {d} /\ r.left = run.left \ {d} /\ r.recovery = run.recovery
  BY <1>1 DEF Heeding, Run
<1>4. PICK whole \in BOOLEAN :
          run' = IF device[d].shown = "found" THEN [r EXCEPT !.phase = "mark", !.whole = TRUE]
                 ELSE [r EXCEPT !.phase = "look", !.whole = whole]
  BY DEF Recover
<1> HIDE DEF r
<1>5. /\ run' \in Run /\ run'.at = {d} /\ run'.left = run.left \ {d}
      /\ run'.recovery = run.recovery
      /\ run'.phase = IF device[d].shown = "found" THEN "mark" ELSE "look"
  <2>1. CASE device[d].shown = "found"
    BY <1>3, <1>4, <2>1 DEF Run, Phases
  <2>2. CASE device[d].shown # "found"
    BY <1>3, <1>4, <2>2 DEF Run, Phases
  <2> QED BY <2>1, <2>2
<1>6. Heeding(run')
  BY <1>2, <1>5 DEF Heeding, Testing, Restoring
<1>7. Shape'
  BY <1>1 DEF Shape
<1>8. ASSUME NEW e \in Devices
      PROVE  Fine(e, device'[e], journal'.held[e], journal'.disk[e], past'[e].sure, run')
  <2>0. Fine(e, device[e], journal.held[e], journal.disk[e], past[e].sure, run)
    BY FineNow
  <2>1. CASE e = d
    BY <1>1, <1>2, <1>5, <2>0, <2>1 DEF Fine, Known, Pristine, Touching, Restoring
  <2>2. CASE e # d
    BY <1>1, <1>5, <2>0, <2>2, FineApart
  <2> QED BY <2>1, <2>2
<1>9. FieldInv'
  BY <1>6, <1>7, <1>8 DEF FieldInv
<1> QED
  BY <1>1, <1>9 DEF Safe

-----------------------------------------------------------------------------
(* The theorems.                                                            *)

LEMMA FieldInvInit ==
    ASSUME FieldInit
    PROVE  FieldInv
<1> DEFINE v == [real |-> "found", shown |-> "found", running |-> FALSE, known |-> TRUE]
           k == [touched |-> FALSE, restored |-> FALSE]
           p == [sure |-> FALSE, outcome |-> "none"]
<1>1. v \in Device /\ k \in Record /\ p \in Past
  BY DEF Device, States, Record, Past
<1>2. /\ device = [d \in Devices |-> v] /\ past = [d \in Devices |-> p]
      /\ journal = [held |-> [d \in Devices |-> k], disk |-> [d \in Devices |-> k]]
      /\ run = Fresh(Devices, "start", 0)
  BY DEF FieldInit
<1>3. Shape
  <2> HIDE DEF v, k, p
  <2> QED BY <1>1, <1>2 DEF Shape
<1>4. /\ run \in Run /\ run.phase = "start" /\ run.at = {} /\ run.left = Devices
      /\ run.recovery = 0 /\ ~run.stop /\ ~run.fragileStop /\ ~run.signalled
      /\ ~run.seen /\ ~run.sent
  <2>1. 0 \in 0..MaxRecoveries /\ "start" \in Phases /\ Devices \in SUBSET Devices
    BY FieldAssumption DEF Phases
  <2>2. run = Fresh(Devices, "start", 0)
    BY <1>2
  <2> QED BY <2>1, <2>2, FreshIs
<1>5. Heeding(run)
  BY <1>4 DEF Heeding, Testing, Restoring
<1>6. ASSUME NEW d \in Devices
      PROVE  Fine(d, device[d], journal.held[d], journal.disk[d], past[d].sure, run)
  <2>1. device[d] = v /\ journal.held[d] = k /\ journal.disk[d] = k /\ past[d] = p
    BY <1>2
  <2>2. /\ v.real = "found" /\ ~v.running /\ v.shown = v.real
        /\ k.touched = FALSE /\ k.restored = FALSE /\ p.sure = FALSE
    OBVIOUS
  <2> HIDE DEF v, k, p
  <2>3. Known(device[d]) /\ ~Touching(d, run) /\ run.phase \notin Restoring \cup {"mark", "selfTest"}
    BY <1>1, <1>4, <2>1, <2>2 DEF Known, Touching, Restoring
  <2> QED
    BY <1>1, <2>1, <2>2, <2>3 DEF Fine
<1> QED
  BY <1>3, <1>5, <1>6 DEF FieldInv

LEMMA FieldInvNext ==
    ASSUME FieldInv, FieldNext
    PROVE  FieldInv' /\ Safe
<1>1. ASSUME NEW d \in Devices,
             PassOver(d) \/ Prepare(d) \/ Put(d) \/ Step(d)
             \/ Look(d) \/ Apply(d) \/ Verify(d) \/ PressSelfTest(d) \/ Mark(d)
             \/ NoteSignal(d) \/ PressCtrlC(d) \/ PressAgain(d) \/ LateEnd(d)
             \/ LeaveAlone(d) \/ Recover(d)
      PROVE  FieldInv' /\ Safe
  BY <1>1, PassOverKeeps, PrepareKeeps, PutKeeps, StepKeeps, LookKeeps, ApplyKeeps,
     VerifyKeeps, PressSelfTestKeeps, MarkKeeps, NoteSignalKeeps, PressCtrlCKeeps,
     PressAgainKeeps, LateEndKeeps, LeaveAloneKeeps, RecoverKeeps
<1> QED
  BY <1>1, StartRunKeeps, EndRunKeeps, EndStepsKeeps, BeginFinishKeeps, LeaveKeeps,
     SignalKeeps, KillKeeps, StartRecoveryKeeps DEF FieldNext

LEMMA FieldInvStutter ==
    ASSUME FieldInv, UNCHANGED vars
    PROVE  FieldInv' /\ Safe
  BY DEF FieldInv, Shape, Safe, vars

(* The strengthening holds at every step of every run.                      *)
LEMMA FieldInvHolds == FieldSpec => [](FieldInv)
<1>1. FieldInv /\ [FieldNext]_vars => FieldInv'
  BY FieldInvNext, FieldInvStutter
<1> QED
  BY FieldInvInit, <1>1, PTL DEF FieldSpec

(* The devices, the journal (runner.py, Journal) and the process (Runner)   *)
(* keep their types.                                                        *)
THEOREM FieldTyped == FieldSpec => []FieldTypeOK
<1>1. FieldInv => FieldTypeOK
  BY DEF FieldInv, Shape, Heeding, FieldTypeOK
<1> QED
  BY <1>1, FieldInvHolds, PTL

(* The journal covers the run (runner.py, Journal, Runner.run_device and    *)
(* _finish_device): a device that is changed, or that a call of the run may *)
(* still change, is on disk as tested and not as put back, unless its mark  *)
(* rests on what Home Assistant showed with no read since a failed call.    *)
THEOREM JournalCoversAll == FieldSpec => []JournalCovers
<1>1. FieldInv => JournalCovers
  BY DEF FieldInv, Fine, Known, JournalCovers
<1> QED
  BY <1>1, FieldInvHolds, PTL

(* A signal ends the run (runner.py, signals_raise and signals_deferred):   *)
(* once it is raised or noted, no other device is tested.                   *)
THEOREM SignalStops == FieldSpec => SignalEndsRun
<1>1. ASSUME FieldInv, [FieldNext]_vars, NEW d \in Devices, TakesUp(d)
      PROVE  ~(run.signalled \/ run.seen)
  <2>1. Safe /\ Heeding(run)
    BY <1>1, FieldInvNext, FieldInvStutter DEF FieldInv
  <2>2. run.phase = "next" /\ run'.at = {d}
    BY <1>1 DEF TakesUp
  <2>3. run.at = {} /\ run.recovery = 0
    BY <2>1, <2>2, FieldAssumption DEF Heeding, Testing, Run
  <2>4. ~run.stop
    BY <2>1, <2>2, <2>3 DEF Safe
  <2> QED
    BY <2>1, <2>2, <2>3, <2>4 DEF Heeding
<1>2. FieldInv /\ [FieldNext]_vars =>
        [run.signalled \/ run.seen => ~\E d \in Devices : TakesUp(d)]_vars
  BY <1>1
<1> QED
  BY <1>2, FieldInvHolds, PTL DEF FieldSpec, SignalEndsRun

(* Trouble at the fragile proxy (runner.py, _trouble) ends the run or the   *)
(* recovery: no device but the one in hand is connected to after it.        *)
THEOREM FragileLeftAlone == FieldSpec => FragileRests
<1>1. FieldInv /\ [FieldNext]_vars =>
        [run.fragileStop /\ run'.fragileStop => run'.at \subseteq run.at]_vars
  BY FieldInvNext, FieldInvStutter DEF Safe
<1> QED
  BY <1>1, FieldInvHolds, PTL DEF FieldSpec, FragileRests

-----------------------------------------------------------------------------
(* What a run leaves behind.                                                *)

(* A run that may go on to another device.                                  *)
Open(r) == r.recovery = 0 /\ r.phase \notin {"over", "dead"} /\ ~r.stop
(* A device v is changed, and known to be.                                  *)
Owed(v) == v.real = "changed" /\ v.known

(* A device v whose restore came out as o: nothing is left behind by a run  *)
(* that may go on, but for the device in hand, which is on its way.         *)
Left(e, v, o, r) ==
    Open(r) =>
      /\ o \in {"failed", "skipped"} => e \in r.at /\ r.seen /\ r.phase = "leave"
      /\ e \notin r.at /\ Owed(v) => o = "differs"
      /\ e \in r.at /\ r.phase = "mark" => r.ok \/ o = "differs"
      /\ e \in r.at /\ r.phase = "leave" /\ ~r.seen /\ Owed(v) => o = "differs"
LeftInv ==
    /\ run.recovery = 0 => run.whole
    /\ \A e \in Devices : Left(e, device[e], past[e].outcome, run)
RunInv == FieldInv /\ LeftInv

LEMMA LeftClosed ==
    ASSUME run'.recovery > 0 \/ (run'.stop /\ run'.whole) \/ (run'.phase \in {"over", "dead"} /\ run'.whole),
           run'.recovery \in Nat
    PROVE  LeftInv'
  BY DEF LeftInv, Left, Open

LEMMA LeftStep ==
    ASSUME LeftInv, run'.recovery = run.recovery, run'.whole = run.whole,
           Open(run') => Open(run),
           \A e \in Devices : e \notin run'.at => e \notin run.at
                              /\ past'[e].outcome = past[e].outcome
                              /\ (Owed(device'[e]) => Owed(device[e])),
           \A e \in Devices : e \in run'.at => Left(e, device'[e], past'[e].outcome, run')
    PROVE  LeftInv'
  BY DEF LeftInv, Left

(* The usual step: it keeps what is in hand there, on its way to its mark.  *)
LEMMA LeftOnWay ==
    ASSUME LeftInv, run'.recovery = run.recovery, run'.whole = run.whole,
           Open(run') => Open(run), run'.at = run.at,
           run.phase # "leave", run'.phase \notin {"mark", "leave"},
           UNCHANGED past,
           \A e \in Devices : e \notin run.at => device'[e] = device[e]
    PROVE  LeftInv'
<1>1. ASSUME NEW e \in Devices, e \in run'.at
      PROVE  Left(e, device'[e], past'[e].outcome, run')
  BY <1>1 DEF LeftInv, Left
<1> QED
  BY <1>1, LeftStep

LEMMA LeavingWhole ==
    ASSUME NEW r \in Run
    PROVE  Leaving(r).whole
<1> DEFINE phase == IF Recovering THEN "recoverNext" ELSE "next"
           f == Fresh(r.left, phase, r.recovery)
<1>1. f.whole
  BY DEF Fresh
<1>2. Leaving(r) = [f EXCEPT !.stop = r.stop, !.fragileStop = r.fragileStop,
                             !.signalled = r.signalled, !.seen = r.seen]
  BY DEF Leaving
<1> QED BY <1>1, <1>2

LEMMA StartRunLeft ==
    ASSUME RunInv, StartRun
    PROVE  LeftInv'
<1>1. run.phase = "start" /\ Heeding(run) /\ LeftInv /\ UNCHANGED <<device, past>>
  BY DEF StartRun, RunInv, FieldInv
<1>2. PICK p \in {"next", "over"} : run' = [run EXCEPT !.phase = p]
  BY DEF StartRun
<1>3. /\ run'.phase = p /\ run'.at = run.at /\ run'.recovery = run.recovery
      /\ run'.stop = run.stop /\ run'.whole = run.whole
  BY <1>1, <1>2 DEF Heeding, Run, Phases
<1>4. Open(run') => Open(run)
  BY <1>1, <1>3 DEF Open
<1> QED
  BY <1>1, <1>3, <1>4, LeftOnWay

LEMMA PassOverLeft ==
    ASSUME RunInv, NEW d \in Devices, PassOver(d)
    PROVE  LeftInv'
<1>1. run.phase = "next" /\ ~run.stop /\ Heeding(run) /\ LeftInv /\ UNCHANGED <<device, past>>
  BY DEF PassOver, Keep, RunInv, FieldInv
<1>2. PICK stop \in BOOLEAN, bad \in BOOLEAN :
         run' = Troubled([run EXCEPT !.left = @ \ {d}, !.stop = stop], d, bad)
  BY DEF PassOver
<1> DEFINE r == [run EXCEPT !.left = @ \ {d}, !.stop = stop]
<1>3. /\ r \in Run /\ r.phase = run.phase /\ r.at = run.at /\ r.recovery = run.recovery
      /\ r.whole = run.whole
  BY <1>1 DEF Heeding, Run
<1> HIDE DEF r
<1>3a. run' = Troubled(r, d, bad)
  BY <1>2 DEF r
<1>4. /\ run'.phase = "next" /\ run'.at = run.at /\ run'.recovery = run.recovery
      /\ run'.whole = run.whole
  BY <1>1, <1>3, <1>3a, TroubledIs
<1>5. Open(run') => Open(run)
  BY <1>1, <1>4 DEF Open
<1> QED
  BY <1>1, <1>4, <1>5, LeftOnWay

LEMMA EndRunLeft ==
    ASSUME RunInv, EndRun
    PROVE  LeftInv'
<1>1. Heeding(run) /\ LeftInv /\ run' = [run EXCEPT !.phase = "over"]
  BY DEF EndRun, RunInv, FieldInv
<1>2. run'.phase = "over" /\ run'.recovery = run.recovery /\ run'.whole = run.whole /\ run'.recovery \in Nat
  BY <1>1, FieldAssumption DEF Heeding, Run
<1> QED
  BY <1>1, <1>2 DEF LeftInv, Left, Open

LEMMA EndStepsLeft ==
    ASSUME RunInv, EndSteps
    PROVE  LeftInv'
<1>1. run.phase = "steps" /\ Heeding(run) /\ LeftInv /\ UNCHANGED <<device, past>>
  BY DEF EndSteps, Keep, RunInv, FieldInv
<1>2. PICK late \in BOOLEAN : run' = [run EXCEPT !.phase = "unwound", !.stop = @ \/ late]
  BY DEF EndSteps
<1>3. /\ run'.phase = "unwound" /\ run'.at = run.at /\ run'.recovery = run.recovery
      /\ (run.stop => run'.stop) /\ run'.whole = run.whole
  BY <1>1, <1>2 DEF Heeding, Run, Phases
<1>4. Open(run') => Open(run)
  BY <1>1, <1>3 DEF Open
<1> QED
  BY <1>1, <1>3, <1>4, LeftOnWay

LEMMA BeginFinishLeft ==
    ASSUME RunInv, BeginFinish
    PROVE  LeftInv'
<1>1. run.phase = "unwound" /\ Heeding(run) /\ LeftInv /\ UNCHANGED <<device, past>>
  BY DEF BeginFinish, Keep, RunInv, FieldInv
<1>2. PICK p \in {"look", "mark"} : run' = [run EXCEPT !.phase = p, !.ok = TRUE]
  BY DEF BeginFinish
<1>3. /\ run'.phase = p /\ run'.ok /\ run'.at = run.at /\ run'.recovery = run.recovery
      /\ run'.stop = run.stop /\ run'.whole = run.whole
  BY <1>1, <1>2 DEF Heeding, Run, Phases
<1>4. Open(run') => Open(run)
  BY <1>1, <1>3 DEF Open
<1>5. ASSUME NEW e \in Devices, e \in run'.at
      PROVE  Left(e, device'[e], past'[e].outcome, run')
  BY <1>1, <1>3, <1>4, <1>5 DEF LeftInv, Left
<1> QED
  BY <1>1, <1>3, <1>4, <1>5, LeftStep

(* The device in hand is marked, or left to a signal seen: it stays behind  *)
(* as its last check said.                                                  *)
LEMMA LeaveLeft ==
    ASSUME RunInv, Leave
    PROVE  LeftInv'
<1>1. run.phase = "leave" /\ Heeding(run) /\ LeftInv /\ UNCHANGED <<device, past>>
  BY DEF Leave, Keep, RunInv, FieldInv
<1>2. run' = [Leaving(run) EXCEPT !.stop = @ \/ run.seen]
  BY DEF Leave
<1> DEFINE s == Leaving(run)
<1>3. /\ s \in Run /\ s.at = {} /\ s.recovery = run.recovery /\ s.whole /\ s.stop = run.stop
  BY <1>1, LeavingIs, LeavingWhole DEF Heeding
<1> HIDE DEF s
<1>4. run' = [s EXCEPT !.stop = @ \/ run.seen]
  BY <1>2 DEF s
<1>5. /\ run'.at = {} /\ run'.recovery = run.recovery /\ run'.whole
      /\ run'.stop = (run.stop \/ run.seen)
  BY <1>1, <1>3, <1>4 DEF Run, Heeding
<1>6. ASSUME NEW e \in Devices PROVE Left(e, device[e], past[e].outcome, run')
  <2>1. Open(run') => Open(run) /\ ~run.seen
    BY <1>1, <1>5 DEF Open
  <2> QED
    BY <1>1, <1>5, <2>1 DEF LeftInv, Left
<1> QED
  BY <1>1, <1>5, <1>6 DEF LeftInv

LEMMA PrepareLeft ==
    ASSUME RunInv, NEW d \in Devices, Prepare(d)
    PROVE  LeftInv'
<1>1. /\ run.phase = "next" /\ ~run.stop /\ Heeding(run) /\ LeftInv /\ UNCHANGED past
      /\ device \in [Devices -> Device]
  BY DEF Prepare, RunInv, FieldInv, Shape
<1>2. run' = [run EXCEPT !.phase = "put", !.left = @ \ {d}, !.at = {d}, !.seen = FALSE]
  BY DEF Prepare
<1>3. /\ run'.phase = "put" /\ run'.at = {d} /\ run'.recovery = run.recovery
      /\ run'.stop = run.stop /\ run'.whole = run.whole
  BY <1>1, <1>2, ZenonT(60) DEF Heeding, Run, Phases
<1>4. PICK w : device' = [device EXCEPT ![d] = w]
  BY BecomesIs DEF Prepare
<1>5. run.at = {} /\ (Open(run') => Open(run))
  BY <1>1, <1>3 DEF Open, Heeding
<1>6. ASSUME NEW e \in Devices, e \notin run'.at PROVE device'[e] = device[e]
  BY <1>1, <1>3, <1>4, <1>6
<1>7. ASSUME NEW e \in Devices, e \in run'.at
      PROVE  Left(e, device'[e], past'[e].outcome, run')
  BY <1>1, <1>3, <1>5, <1>7 DEF LeftInv, Left
<1> QED
  BY <1>1, <1>3, <1>5, <1>6, <1>7, LeftStep

LEMMA PutLeft ==
    ASSUME RunInv, NEW d \in Devices, Put(d)
    PROVE  LeftInv'
<1>1. run.phase = "put" /\ Heeding(run) /\ LeftInv /\ UNCHANGED <<device, past>>
  BY DEF Put, RunInv, FieldInv
<1>2. \/ run' = [run EXCEPT !.phase = "steps"]
      \/ run' = [run EXCEPT !.phase = "unwound", !.stop = TRUE]
  BY DEF Put
<1>3. /\ run'.phase \in {"steps", "unwound"} /\ run'.at = run.at
      /\ run'.recovery = run.recovery /\ (run.stop => run'.stop) /\ run'.whole = run.whole
  <2>1. CASE run' = [run EXCEPT !.phase = "steps"]
    BY <1>1, <2>1 DEF Heeding, Run, Phases
  <2>2. CASE run' = [run EXCEPT !.phase = "unwound", !.stop = TRUE]
    BY <1>1, <2>2 DEF Heeding, Run, Phases
  <2> QED BY <1>2, <2>1, <2>2
<1>4. Open(run') => Open(run)
  BY <1>1, <1>3 DEF Open
<1> QED
  BY <1>1, <1>3, <1>4, LeftOnWay

(* A command to the device in hand changes no other.                        *)
LEMMA HandOnly ==
    ASSUME FieldInv, NEW d \in Devices, NEW values, Becomes(d, values)
    PROVE  \A e \in Devices : e # d => device'[e] = device[e]
  BY BecomesIs DEF FieldInv, Shape

LEMMA StepLeft ==
    ASSUME RunInv, NEW d \in Devices, Step(d)
    PROVE  LeftInv'
<1>1. run.phase = "steps" /\ Heeding(run) /\ LeftInv /\ run.at = {d} /\ UNCHANGED past
  BY DEF Step, InHand, RunInv, FieldInv
<1>2. PICK bad \in BOOLEAN, call \in BOOLEAN :
          LET r == Troubled([run EXCEPT !.sent = TRUE], d, bad)
              after == IF r.fragileStop THEN "unwound" ELSE "steps"
              ended == Failed(device[d]) \cup UNION {Polls(d, v) : v \in Answered(device[d])}
          IN  \/ Becomes(d, ended) /\ run' = [r EXCEPT !.phase = after]
              \/ /\ Becomes(d, ended) \/ Becomes(d, Lost(device[d]))
                 /\ run' = [Troubled(r, d, call) EXCEPT !.phase = "unwound", !.stop = TRUE]
  BY DEF Step
<1>3. \A e \in Devices : e \notin run.at => device'[e] = device[e]
  BY <1>1, <1>2, HandOnly DEF RunInv
<1> DEFINE sent == [run EXCEPT !.sent = TRUE]
           r == Troubled(sent, d, bad)
           t == Troubled(r, d, call)
<1>4. /\ sent \in Run /\ sent.at = run.at /\ sent.recovery = run.recovery
      /\ sent.whole = run.whole /\ sent.stop = run.stop
  BY <1>1 DEF Heeding, Run
<1> HIDE DEF sent
<1>5. /\ r \in Run /\ r.at = run.at /\ r.recovery = run.recovery /\ r.whole = run.whole
      /\ (run.stop => r.stop)
  BY <1>4, TroubledIs
<1> HIDE DEF r
<1>6. /\ t \in Run /\ t.at = run.at /\ t.recovery = run.recovery /\ t.whole = run.whole
  BY <1>5, TroubledIs
<1> HIDE DEF t
<1>7. PICK p \in {"steps", "unwound"} :
          run' = [r EXCEPT !.phase = p] \/ run' = [t EXCEPT !.phase = "unwound", !.stop = TRUE]
  BY <1>2 DEF sent, r, t
<1>8. /\ run'.phase \in {"steps", "unwound"} /\ run'.at = run.at /\ run'.whole = run.whole
      /\ run'.recovery = run.recovery /\ (run.stop => run'.stop)
  <2>1. CASE run' = [r EXCEPT !.phase = p]
    BY <1>5, <2>1 DEF Run, Phases
  <2>2. CASE run' = [t EXCEPT !.phase = "unwound", !.stop = TRUE]
    BY <1>6, <2>2 DEF Run, Phases
  <2> QED BY <1>7, <2>1, <2>2
<1>9. Open(run') => Open(run)
  BY <1>1, <1>8 DEF Open
<1> QED
  BY <1>1, <1>3, <1>8, <1>9, LeftOnWay

-----------------------------------------------------------------------------
(* The restore: a run that goes on knows how it came out.                   *)

LEMMA RestoredLeft ==
    ASSUME RunInv, run.phase \in Restoring, NEW d \in Devices, run.at = {d}, NEW r, Same(r),
           NEW ok \in BOOLEAN, NEW failed \in BOOLEAN, Restored(r, d, ok, failed),
           \A e \in Devices : e # d => device'[e] = device[e]
    PROVE  LeftInv'
<1> DEFINE stop == r.stop \/ (failed /\ ~Recovering)
           s == [r EXCEPT !.ok = ok, !.stop = stop]
           tests == SelfTest /\ ~Recovering /\ ~r.tested /\ ok /\ ~s.stop /\ ~s.seen
           phase == IF tests THEN "selfTest" ELSE "mark"
           outcome == IF ok THEN "ok" ELSE IF failed THEN "failed" ELSE "differs"
<1>1. /\ run' = [s EXCEPT !.phase = phase]
      /\ past' = [past EXCEPT ![d].outcome = outcome]
  BY DEF Restored
<1>2. phase \in {"selfTest", "mark"}
  OBVIOUS
<1>3. stop \in BOOLEAN /\ (r.stop => stop) /\ (run.recovery = 0 /\ failed => stop)
  BY FieldAssumption DEF Same, Run, Recovering
<1>4. outcome \in {"failed", "skipped"} => failed
  OBVIOUS
<1>5. ok \/ failed \/ outcome = "differs"
  OBVIOUS
<1> HIDE DEF stop, outcome
<1>6. /\ s \in Run /\ s.ok = ok /\ s.stop = stop /\ s.at = r.at
      /\ s.recovery = r.recovery /\ s.whole = r.whole
  BY <1>3 DEF Same, Run
<1> HIDE DEF phase, s
<1>7. /\ run'.phase = phase /\ run'.ok = ok /\ run'.stop = stop
      /\ run'.at = r.at /\ run'.recovery = r.recovery /\ run'.whole = r.whole
  BY <1>1, <1>2, <1>6 DEF Run, Phases
<1>8. past'[d].outcome = outcome /\ (\A e \in Devices : e # d => past'[e] = past[e])
  BY <1>1 DEF RunInv, FieldInv, Shape, Past
<1>9. Open(run') => Open(run) /\ ~failed
  BY <1>2, <1>3, <1>7 DEF Open, Same, Restoring
<1>10. Left(d, device'[d], past'[d].outcome, run')
  BY <1>2, <1>4, <1>5, <1>7, <1>8, <1>9 DEF Left, Same
<1>11. LeftInv /\ run'.at = {d} /\ run'.recovery = run.recovery /\ run'.whole = run.whole
  BY <1>7 DEF Same, RunInv
<1> QED
  BY <1>8, <1>9, <1>10, <1>11, LeftStep

LEMMA RaisedLeft ==
    ASSUME RunInv, run.phase \in Restoring, NEW d \in Devices, run.at = {d}, NEW r, Same(r),
           Raised(r, d), \A e \in Devices : e # d => device'[e] = device[e]
    PROVE  LeftInv'
<1>1. run.recovery \in Nat /\ LeftInv
  BY FieldAssumption DEF RunInv, FieldInv, Heeding, Run
<1>2. CASE Recovering
  <2>1. run' = Leaving(r)
    BY <1>2 DEF Raised
  <2>2. run'.recovery = run.recovery
    BY <2>1, LeavingIs DEF Same
  <2> QED
    BY <1>1, <1>2, <2>2, LeftClosed DEF Recovering
<1>3. CASE ~Recovering /\ r.again
  <2>1. Restored(r, d, FALSE, TRUE)
    BY <1>3 DEF Raised
  <2> QED BY <2>1, RestoredLeft
<1>4. CASE ~Recovering /\ ~r.again
  <2>1. run' = [r EXCEPT !.phase = "look", !.again = TRUE] /\ UNCHANGED past
    BY <1>4 DEF Raised
  <2>2. /\ run'.phase = "look" /\ run'.stop = r.stop /\ run'.at = r.at
        /\ run'.recovery = r.recovery /\ run'.whole = r.whole
    BY <2>1 DEF Same, Run, Phases
  <2>3. Open(run') => Open(run)
    BY <2>2 DEF Open, Same, Restoring
  <2> QED
    BY <1>1, <2>1, <2>2, <2>3, LeftOnWay DEF Same, Restoring
<1> QED
  BY <1>2, <1>3, <1>4

(* A restore that goes on.                                                  *)
LEMMA SameLeft ==
    ASSUME RunInv, run.phase \in Restoring, NEW d \in Devices, run.at = {d}, Same(run'),
           run'.phase \in Restoring, UNCHANGED past,
           \A e \in Devices : e # d => device'[e] = device[e]
    PROVE  LeftInv'
<1>1. Open(run') => Open(run)
  BY DEF Open, Same, Restoring
<1> QED
  BY <1>1, LeftOnWay DEF RunInv, Same, Restoring

LEMMA LookLeft ==
    ASSUME RunInv, NEW d \in Devices, Look(d)
    PROVE  LeftInv'
<1>1. /\ run.phase = "look" /\ run.phase \in Restoring /\ run.at = {d} /\ Same(run)
      /\ UNCHANGED device
  BY DEF Look, RunInv, FieldInv, InHand, Restoring, Same, Heeding
<1>2. CASE run' = [run EXCEPT !.phase = "apply", !.attempt = 1] /\ UNCHANGED past
  <2>1. 1 \in 0..2
    OBVIOUS
  <2>2. Same(run') /\ run'.phase = "apply"
    BY <1>1, <1>2, <2>1 DEF Same, Run, Phases
  <2> QED
    BY <1>1, <1>2, <2>2, SameLeft DEF Restoring
<1>3. \/ run' = [run EXCEPT !.phase = "apply", !.attempt = 1] /\ UNCHANGED past
      \/ Restored(run, d, TRUE, FALSE) \/ Raised(run, d)
  BY DEF Look
<1> QED
  BY <1>1, <1>2, <1>3, RestoredLeft, RaisedLeft

LEMMA ApplyLeft ==
    ASSUME RunInv, NEW d \in Devices, Apply(d)
    PROVE  LeftInv'
<1>1. /\ run.phase = "apply" /\ run.phase \in Restoring /\ run.at = {d} /\ Same(run)
  BY DEF Apply, RunInv, FieldInv, InHand, Restoring, Same, Heeding
<1>2. PICK errors \in BOOLEAN, bad \in BOOLEAN, call \in BOOLEAN :
          LET r == [Troubled(run, d, bad) EXCEPT !.phase = "verify", !.errors = errors]
          IN  \/ /\ Becomes(d, IF errors THEN Failed(device[d]) ELSE Applied(device[d]))
                 /\ run' = r /\ UNCHANGED past
              \/ /\ Becomes(d, Failed(device[d]))
                 /\ Raised(Troubled(r, d, call), d)
  BY DEF Apply
<1>3. \A e \in Devices : e # d => device'[e] = device[e]
  BY <1>2, HandOnly DEF RunInv
<1> DEFINE t == Troubled(run, d, bad)
           r == [t EXCEPT !.phase = "verify", !.errors = errors]
<1>4. Same(t)
  BY <1>1, TroubledSame
<1> HIDE DEF t
<1>5. Same(r) /\ r.phase = "verify"
  BY <1>4 DEF Same, Run, Phases
<1> HIDE DEF r
<1>6. Same(Troubled(r, d, call))
  BY <1>5, TroubledSame
<1>7. (run' = r /\ UNCHANGED past) \/ Raised(Troubled(r, d, call), d)
  BY <1>2 DEF r, t
<1>8. CASE run' = r /\ UNCHANGED past
  BY <1>1, <1>3, <1>5, <1>8, SameLeft DEF Restoring
<1> QED
  BY <1>1, <1>3, <1>6, <1>7, <1>8, RaisedLeft

LEMMA VerifyLeft ==
    ASSUME RunInv, NEW d \in Devices, Verify(d)
    PROVE  LeftInv'
<1>1. /\ run.phase = "verify" /\ run.phase \in Restoring /\ run.at = {d} /\ Same(run)
  BY DEF Verify, RunInv, FieldInv, InHand, Restoring, Same, Heeding
<1>2. PICK bad \in BOOLEAN, polling \in BOOLEAN :
          LET r == Troubled(run, d, bad /\ d \in Read)
          IN  \/ \E v \in Polls(d, device[d]) :
                    /\ Becomes(d, {v})
                    /\ \E differs \in Differs(v) :
                          IF ~differs /\ ~r.errors THEN Restored(r, d, TRUE, FALSE)
                          ELSE IF r.attempt = 2 THEN Restored(r, d, FALSE, r.errors)
                          ELSE /\ run' = [r EXCEPT !.phase = "apply", !.attempt = 2]
                               /\ UNCHANGED past
              \/ /\ Becomes(d, Polls(d, device[d]))
                 /\ Raised(Troubled(r, d, polling /\ d \in Read), d)
  BY DEF Verify
<1>3. \A e \in Devices : e # d => device'[e] = device[e]
  BY <1>2, HandOnly DEF RunInv
<1> DEFINE r == Troubled(run, d, bad /\ d \in Read)
<1>4. Same(r) /\ Same(Troubled(r, d, polling /\ d \in Read))
  BY <1>1, TroubledSame
<1> HIDE DEF r
<1>5. \/ Restored(r, d, TRUE, FALSE) \/ Restored(r, d, FALSE, r.errors)
      \/ run' = [r EXCEPT !.phase = "apply", !.attempt = 2] /\ UNCHANGED past
      \/ Raised(Troubled(r, d, polling /\ d \in Read), d)
  BY <1>2 DEF r
<1>6. CASE run' = [r EXCEPT !.phase = "apply", !.attempt = 2] /\ UNCHANGED past
  <2>1. 2 \in 0..2
    OBVIOUS
  <2>2. Same(run') /\ run'.phase = "apply"
    BY <1>4, <1>6, <2>1 DEF Same, Run, Phases
  <2> QED
    BY <1>1, <1>3, <1>6, <2>2, SameLeft DEF Restoring
<1>7. r.errors \in BOOLEAN
  BY <1>4 DEF Same, Run
<1> QED
  BY <1>1, <1>3, <1>4, <1>5, <1>6, <1>7, RestoredLeft, RaisedLeft

LEMMA PressSelfTestLeft ==
    ASSUME RunInv, NEW d \in Devices, PressSelfTest(d)
    PROVE  LeftInv'
<1>0. run.phase = "selfTest" /\ run.at = {d} /\ UNCHANGED past /\ Heeding(run) /\ LeftInv
  BY DEF PressSelfTest, InHand, RunInv, FieldInv
<1>1. /\ run.phase \in Restoring /\ run.at = {d} /\ Same(run)
      /\ UNCHANGED past /\ run.recovery \in Nat /\ LeftInv
  <2>1. run.recovery \in Nat
    BY <1>0, FieldAssumption DEF Heeding, Run
  <2> QED
    BY <1>0, <2>1 DEF Restoring, Same, Heeding
<1>2. CASE run' = [run EXCEPT !.phase = "mark", !.stop = TRUE]
  <2>1. run'.stop /\ run'.recovery = run.recovery /\ run'.whole = run.whole
    BY <1>1, <1>2 DEF Same, Run
  <2> QED
    BY <1>1, <2>1 DEF LeftInv, Left, Open
<1>3. CASE \E raised, bad \in BOOLEAN :
             LET r == Troubled(run, d, bad)
             IN  /\ run' = [r EXCEPT !.phase = "look", !.tested = TRUE, !.attempt = 0,
                                     !.again = FALSE, !.errors = FALSE, !.stop = @ \/ raised]
                 /\ Becomes(d, IF raised /\ bad THEN Lost(device[d]) ELSE Failed(device[d]))
  <2>1. PICK raised \in BOOLEAN, bad \in BOOLEAN :
             LET r == Troubled(run, d, bad)
             IN  /\ run' = [r EXCEPT !.phase = "look", !.tested = TRUE, !.attempt = 0,
                                     !.again = FALSE, !.errors = FALSE, !.stop = @ \/ raised]
                 /\ Becomes(d, IF raised /\ bad THEN Lost(device[d]) ELSE Failed(device[d]))
    BY <1>3
  <2>2. \A e \in Devices : e # d => device'[e] = device[e]
    BY <2>1, HandOnly DEF RunInv
  <2> DEFINE r == Troubled(run, d, bad)
  <2>3. Same(r)
    BY <1>1, TroubledSame
  <2> HIDE DEF r
  <2>4. run' = [r EXCEPT !.phase = "look", !.tested = TRUE, !.attempt = 0,
                         !.again = FALSE, !.errors = FALSE, !.stop = @ \/ raised]
    BY <2>1 DEF r
  <2>5. 0 \in 0..2
    OBVIOUS
  <2>6. Same(run') /\ run'.phase = "look"
    BY <2>3, <2>4, <2>5, ZenonT(60) DEF Same, Run, Phases
  <2> QED
    BY <1>1, <2>2, <2>6, SameLeft DEF Restoring
<1> QED
  BY <1>2, <1>3 DEF PressSelfTest

(* A device marked as put back is as found, if that is known: one that is   *)
(* changed was found to differ.                                             *)
LEMMA MarkLeft ==
    ASSUME RunInv, NEW d \in Devices, Mark(d)
    PROVE  LeftInv'
<1>1. /\ run.phase = "mark" /\ run.at = {d} /\ Heeding(run) /\ LeftInv /\ UNCHANGED device
      /\ past \in [Devices -> Past] /\ run.recovery \in Nat
  BY FieldAssumption DEF Mark, RunInv, FieldInv, Shape, InHand, Heeding, Run
<1> DEFINE held == [journal.held EXCEPT ![d].restored = run.ok /\ run.whole]
           sure == IF held[d].restored THEN device[d].known ELSE past[d].sure
<1>2. past' = [past EXCEPT ![d].sure = sure]
  BY <1>1 DEF Mark
<1> HIDE DEF sure
<1>3. \A e \in Devices : past'[e].outcome = past[e].outcome
  BY <1>1, <1>2 DEF Past
<1>4. CASE run' = [run EXCEPT !.phase = "leave"]
  <2>1. /\ run'.phase = "leave" /\ run'.at = {d} /\ run'.recovery = run.recovery
        /\ run'.stop = run.stop /\ run'.seen = run.seen /\ run'.whole = run.whole
    BY <1>1, <1>4 DEF Heeding, Run, Phases
  <2>2. Open(run') => Open(run)
    BY <1>1, <2>1 DEF Open
  <2>3. run.ok /\ run.whole => ~Owed(device[d])
    BY <1>1 DEF RunInv, FieldInv, Fine, Owed
  <2>4. Left(d, device'[d], past'[d].outcome, run')
    BY <1>1, <1>3, <2>1, <2>2, <2>3 DEF LeftInv, Left, Open
  <2> QED
    BY <1>1, <1>3, <2>1, <2>2, <2>4, LeftStep
<1>5. CASE run' = [Leaving(run) EXCEPT !.stop = ~Recovering]
  <2> DEFINE s == Leaving(run)
  <2>1. s \in Run /\ s.recovery = run.recovery /\ s.whole
    BY <1>1, LeavingIs, LeavingWhole DEF Heeding
  <2> HIDE DEF s
  <2>2. run' = [s EXCEPT !.stop = ~Recovering]
    BY <1>5 DEF s
  <2>3. run'.recovery = run.recovery /\ run'.whole /\ run'.stop = ~Recovering
    BY <2>1, <2>2 DEF Run
  <2> QED
    BY <1>1, <2>3, LeftClosed DEF Recovering
<1> QED
  BY <1>4, <1>5 DEF Mark

LEMMA NoteSignalLeft ==
    ASSUME RunInv, NEW d \in Devices, NoteSignal(d)
    PROVE  LeftInv'
<1>1. /\ run.phase \in Deferring /\ Heeding(run) /\ LeftInv /\ UNCHANGED <<device, past>>
      /\ run' = [run EXCEPT !.seen = TRUE]
  BY DEF NoteSignal, Keep, RunInv, FieldInv
<1>2. /\ run'.phase = run.phase /\ run'.ok = run.ok /\ run'.whole = run.whole
      /\ run'.at = run.at /\ run'.recovery = run.recovery /\ run'.stop = run.stop
  BY <1>1 DEF Heeding, Run
<1>3. ASSUME NEW e \in Devices, e \in run'.at
      PROVE  Left(e, device'[e], past'[e].outcome, run')
  BY <1>1, <1>2, <1>3 DEF LeftInv, Left, Open, Deferring
<1> QED
  BY <1>1, <1>2, <1>3, LeftStep DEF Open

LEMMA PressCtrlCLeft ==
    ASSUME RunInv, NEW d \in Devices, PressCtrlC(d)
    PROVE  LeftInv'
<1> DEFINE r == [run EXCEPT !.seen = TRUE, !.presses = @ + 1]
           marked == [r EXCEPT !.phase = "mark", !.ok = FALSE, !.stop = TRUE]
           left == [r EXCEPT !.phase = "leave"]
<1>1. /\ Heeding(run) /\ run.phase \in Deferring /\ run.at = {d} /\ run.presses < MaxPresses
      /\ run.recovery \in Nat /\ LeftInv
  BY FieldAssumption DEF PressCtrlC, InHand, RunInv, FieldInv, Heeding, Run
<1>2. /\ r \in Run /\ r.seen /\ r.phase = run.phase /\ r.ok = run.ok /\ r.whole = run.whole
      /\ r.at = run.at /\ r.recovery = run.recovery /\ r.stop = run.stop
  <2>1. run.presses + 1 \in 0..MaxPresses
    BY <1>1, FieldAssumption DEF Heeding, Run
  <2> QED BY <1>1, <2>1 DEF Heeding, Run
<1> HIDE DEF r
<1>3. CASE run' = r /\ UNCHANGED <<device, past>>
  <2>1. ASSUME NEW e \in Devices, e \in run'.at
        PROVE  Left(e, device'[e], past'[e].outcome, run')
    BY <1>1, <1>2, <1>3, <2>1 DEF LeftInv, Left, Open, Deferring
  <2> QED
    BY <1>1, <1>2, <1>3, <2>1, LeftStep DEF Open
<1>4. CASE /\ run' = IF Recovering THEN Leaving(r) ELSE IF r.phase = "mark" THEN left ELSE marked
           /\ Becomes(d, IF r.phase \in {"apply", "selfTest"} THEN Lost(device[d])
                         ELSE {device[d]})
           /\ past' = [past EXCEPT ![d].outcome = "failed"]
  <2>1. CASE Recovering
    <3>1. run'.recovery = run.recovery
      BY <1>2, <1>4, <2>1, LeavingIs
    <3> QED
      BY <1>1, <2>1, <3>1, LeftClosed DEF Recovering
  <2>2. CASE ~Recovering /\ r.phase = "mark"
    <3>1. /\ run'.at = run.at /\ run'.recovery = run.recovery /\ run'.phase = "leave"
          /\ run'.stop = run.stop /\ run'.seen /\ run'.whole = run.whole
      BY <1>2, <1>4, <2>2 DEF Run, Phases
    <3>2. Open(run') => Open(run)
      BY <1>1, <3>1 DEF Open, Deferring
    <3>3. \A e \in Devices : e # d => device'[e] = device[e] /\ past'[e] = past[e]
      BY <1>4, HandOnly DEF RunInv, FieldInv, Shape
    <3>4. Left(d, device'[d], past'[d].outcome, run')
      BY <1>1, <3>1 DEF Left
    <3> QED
      BY <1>1, <3>1, <3>2, <3>3, <3>4, LeftStep
  <2>3. CASE ~Recovering /\ r.phase # "mark"
    <3>1. run'.recovery = run.recovery /\ run'.stop /\ run'.whole = run.whole
      BY <1>2, <1>4, <2>3 DEF Run, Phases
    <3> QED
      BY <1>1, <3>1 DEF LeftInv, Left, Open
  <2> QED BY <2>1, <2>2, <2>3
<1> QED
  BY <1>3, <1>4 DEF PressCtrlC, r

-----------------------------------------------------------------------------
(* Signals, the end of the process, and late ends.                          *)

LEMMA SignalLeft ==
    ASSUME RunInv, Signal
    PROVE  LeftInv'
<1> DEFINE r == [run EXCEPT !.signalled = TRUE, !.stop = TRUE]
<1>1. Heeding(run) /\ LeftInv /\ run.recovery = 0 /\ run.whole
  BY FieldAssumption DEF Signal, RunInv, LeftInv, FieldInv, Recovering, Heeding, Run
<1>2. r \in Run /\ r.stop /\ r.recovery = 0 /\ r.whole
  BY <1>1 DEF Heeding, Run
<1> HIDE DEF r
<1>3. \/ run' = [r EXCEPT !.phase = "over"]
      \/ run' = [r EXCEPT !.phase = "unwound", !.sent = @ \/ run.phase = "steps"]
      \/ run' = Leaving(r)
  BY DEF Signal, r
<1>4. run'.recovery = 0 /\ run'.stop /\ run'.whole
  <2>1. CASE run' = [r EXCEPT !.phase = "over"]
    BY <1>2, <2>1 DEF Run
  <2>2. CASE run' = [r EXCEPT !.phase = "unwound", !.sent = @ \/ run.phase = "steps"]
    BY <1>2, <2>2 DEF Run
  <2>3. CASE run' = Leaving(r)
    BY <1>2, <2>3, LeavingIs, LeavingWhole
  <2> QED BY <1>3, <2>1, <2>2, <2>3
<1> QED
  BY <1>4, LeftClosed

LEMMA PressAgainLeft ==
    ASSUME RunInv, NEW d \in Devices, PressAgain(d)
    PROVE  LeftInv'
<1>1. /\ Heeding(run) /\ run.phase = "mark" /\ run.at = {d} /\ run.recovery = 0
      /\ UNCHANGED <<device, past>> /\ LeftInv
  BY FieldAssumption DEF PressAgain, Keep, InHand, RunInv, FieldInv, Heeding, Recovering, Run
<1>2. CASE run' = [run EXCEPT !.phase = "leave", !.seen = TRUE]
  <2>1. /\ run'.at = run.at /\ run'.recovery = run.recovery /\ run'.phase = "leave"
        /\ run'.stop = run.stop /\ run'.seen /\ run'.whole = run.whole
    BY <1>1, <1>2 DEF Heeding, Run, Phases
  <2>2. Open(run') => Open(run)
    BY <1>1, <2>1 DEF Open
  <2>3. Left(d, device'[d], past'[d].outcome, run')
    BY <1>1, <2>1 DEF Left
  <2> QED
    BY <1>1, <2>1, <2>2, <2>3, LeftStep
<1>3. CASE run' = Fresh({}, "over", 0)
  <2>1. run'.phase = "over" /\ run'.whole /\ run'.recovery = 0
    BY <1>3 DEF Fresh
  <2> QED
    BY <2>1, LeftClosed
<1> QED
  BY <1>2, <1>3 DEF PressAgain

LEMMA KillLeft ==
    ASSUME RunInv, Kill
    PROVE  LeftInv'
<1>1. run' = Fresh({}, "dead", run.recovery) /\ run.recovery \in Nat
  BY FieldAssumption DEF Kill, RunInv, FieldInv, Heeding, Run
<1>2. run'.phase = "dead" /\ run'.whole /\ run'.recovery = run.recovery
  BY <1>1 DEF Fresh
<1> QED
  BY <1>1, <1>2, LeftClosed

LEMMA StartRecoveryLeft ==
    ASSUME RunInv, StartRecovery
    PROVE  LeftInv'
<1>1. PICK left : run' = Fresh(left, "recoverNext", run.recovery + 1)
  BY DEF StartRecovery
<1>2. run'.recovery = run.recovery + 1 /\ run.recovery \in Nat
  BY <1>1, FieldAssumption DEF Fresh, RunInv, FieldInv, Heeding, Run
<1> QED
  BY <1>2, LeftClosed

LEMMA RecoveryLeft ==
    ASSUME RunInv, NEW d \in Devices, LeaveAlone(d) \/ Recover(d)
    PROVE  LeftInv'
<1>1. Heeding(run) /\ run.recovery > 0 /\ run.recovery \in Nat
  <2>1. run.phase = "recoverNext" /\ Heeding(run)
    BY DEF RunInv, FieldInv, LeaveAlone, Recover
  <2> QED
    BY <2>1, FieldAssumption DEF Heeding, Run
<1> DEFINE r == [run EXCEPT !.left = @ \ {d}, !.at = {d}, !.seen = FALSE, !.ok = TRUE]
<1>2. r \in Run /\ r.recovery = run.recovery
  BY <1>1 DEF Heeding, Run
<1>3. \/ run' = [run EXCEPT !.left = @ \ {d}]
      \/ \E whole \in BOOLEAN :
            \/ run' = [r EXCEPT !.phase = "mark", !.whole = TRUE]
            \/ run' = [r EXCEPT !.phase = "look", !.whole = whole]
  BY DEF LeaveAlone, Recover
<1> HIDE DEF r
<1>4. run'.recovery = run.recovery
  BY <1>1, <1>2, <1>3 DEF Heeding, Run
<1> QED
  BY <1>1, <1>4, LeftClosed

(* A call that ends late leaves what is known unknown.                      *)
LEMMA LateEndLeft ==
    ASSUME RunInv, NEW d \in Devices, LateEnd(d)
    PROVE  LeftInv'
<1>1. /\ UNCHANGED <<run, past>> /\ LeftInv /\ device \in [Devices -> Device]
      /\ Known(device[d]) /\ device[d].running
  BY FineNow DEF LateEnd, RunInv, FieldInv, Shape, Fine
<1>2. PICK s \in {device[d].real, "changed"} :
         Becomes(d, {[device[d] EXCEPT !.running = FALSE, !.real = s, !.shown = t] :
                        t \in {device[d].shown, s}})
  BY DEF LateEnd
<1>3. PICK t \in {device[d].shown, s} :
         device' = [device EXCEPT ![d] = [device[d] EXCEPT !.running = FALSE, !.real = s, !.shown = t]]
  BY <1>2, BecomesIs
<1> DEFINE w == [device[d] EXCEPT !.running = FALSE, !.real = s, !.shown = t]
<1>4. ~w.known
  BY <1>1 DEF Known, Device
<1> HIDE DEF w
<1>5. device' = [device EXCEPT ![d] = w]
  BY <1>3 DEF w
<1>6. \A e \in Devices : device'[e] = device[e] \/ ~Owed(device'[e])
  BY <1>1, <1>4, <1>5 DEF Owed
<1> QED
  BY <1>1, <1>6 DEF LeftInv, Left

-----------------------------------------------------------------------------

LEMMA LeftInit ==
    ASSUME FieldInit
    PROVE  LeftInv
<1>1. /\ run = Fresh(Devices, "start", 0)
      /\ \A e \in Devices : device[e].real = "found" /\ past[e].outcome = "none"
  BY DEF FieldInit
<1>2. run.whole /\ run.at = {}
  BY <1>1 DEF Fresh
<1> QED
  BY <1>1, <1>2 DEF LeftInv, Left, Owed

LEMMA LeftNext ==
    ASSUME RunInv, FieldNext
    PROVE  LeftInv'
<1>1. ASSUME NEW d \in Devices,
             PassOver(d) \/ Prepare(d) \/ Put(d) \/ Step(d)
             \/ Look(d) \/ Apply(d) \/ Verify(d) \/ PressSelfTest(d) \/ Mark(d)
             \/ NoteSignal(d) \/ PressCtrlC(d) \/ PressAgain(d) \/ LateEnd(d)
             \/ LeaveAlone(d) \/ Recover(d)
      PROVE  LeftInv'
  BY <1>1, PassOverLeft, PrepareLeft, PutLeft, StepLeft, LookLeft, ApplyLeft,
     VerifyLeft, PressSelfTestLeft, MarkLeft, NoteSignalLeft, PressCtrlCLeft,
     PressAgainLeft, LateEndLeft, RecoveryLeft
<1> QED
  BY <1>1, StartRunLeft, EndRunLeft, EndStepsLeft, BeginFinishLeft, LeaveLeft,
     SignalLeft, KillLeft, StartRecoveryLeft DEF FieldNext

LEMMA RunInvHolds == FieldSpec => [](RunInv)
<1>1. FieldInit => RunInv
  BY FieldInvInit, LeftInit DEF RunInv
<1>2. ASSUME RunInv, [FieldNext]_vars PROVE RunInv'
  <2>1. CASE FieldNext
    BY <1>2, <2>1, FieldInvNext, LeftNext DEF RunInv
  <2>2. CASE UNCHANGED vars
    BY <1>2, <2>2, FieldInvStutter DEF RunInv, LeftInv, vars
  <2> QED BY <1>2, <2>1, <2>2
<1> QED
  BY <1>1, <1>2, PTL DEF FieldSpec

(* A run goes on to another device only with none left behind (runner.py,   *)
(* Runner.run_device and _finish_device): no restore before it had calls    *)
(* fail, was abandoned or passed over, and a device it is known to have     *)
(* left changed was found to differ, for any devices and presses.           *)
THEOREM NoneIsLeftBehind == FieldSpec => NoneLeftBehind
<1>1. ASSUME RunInv, [FieldNext]_vars, NEW d \in Devices, TakesUp(d), NEW e \in Devices \ {d}
      PROVE  /\ past[e].outcome \notin {"failed", "skipped"}
             /\ device[e].real = "changed" /\ device[e].known => past[e].outcome = "differs"
  <2>1. Safe /\ Heeding(run) /\ LeftInv
    BY <1>1, FieldInvNext, FieldInvStutter DEF FieldInv, RunInv
  <2>2. run.phase = "next" /\ run'.at = {d}
    BY <1>1 DEF TakesUp
  <2>3. run.at = {} /\ run.recovery = 0
    BY <2>1, <2>2, FieldAssumption DEF Heeding, Testing, Run
  <2>4. Open(run)
    BY <2>1, <2>2, <2>3 DEF Safe, Open
  <2> QED
    BY <2>1, <2>2, <2>3, <2>4 DEF LeftInv, Left, Owed
<1>2. RunInv /\ [FieldNext]_vars =>
        [\A d \in Devices : TakesUp(d) =>
          \A e \in Devices \ {d} :
              /\ past[e].outcome \notin {"failed", "skipped"}
              /\ device[e].real = "changed" /\ device[e].known => past[e].outcome = "differs"]_vars
  BY <1>1
<1> QED
  BY <1>2, RunInvHolds, PTL DEF FieldSpec, NoneLeftBehind

=============================================================================
