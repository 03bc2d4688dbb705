----------------------------- MODULE EntryLife -----------------------------
(***************************************************************************)
(* The config entry of one Govee device: the flows that create it, replace  *)
(* its key or reload it (config_flow.py), its setup at the pact the device  *)
(* advertises, and what reloads it: the first pact heard after a setup      *)
(* without one, and a segment count that two reads in a row answer          *)
(* (__init__.py, helpers.py, coordinator.py).  A broadcast header is its    *)
(* pact.  Polls, commands and every entity but the segment lights are left  *)
(* to the other modules.                                                    *)
(***************************************************************************)
EXTENDS Naturals

CONSTANTS Flows, Pacts,
          NoPact,      \* no Govee header heard, or none that parses
          Served,      \* pacts (and NoPact) create_device serves the model at
          Modelled,    \* those it serves only once modelled models are allowed
          Gated,       \* those whose profile needs a secret key
          Segmented,   \* those whose profile has segments
          MaxCount     \* the segments of such a profile

VARIABLES record,    \* Home Assistant's connectable record of the device:
                     \* absent, or the header it carries
          flows,     \* the flows in progress
          entry,     \* the config entry, or None; its secret is the right key or not
          loaded,    \* what its setup built, or None
          reload,    \* a reload is scheduled
          lights,    \* the segment lights in the entity registry
          strip      \* the segments the device has, and (history) had at the
                     \* last two reads a push saw, whether a right one went by
                     \* unseen since, and the fewer it had at those behind the
                     \* count stored
vars == <<record, flows, entry, loaded, reload, lights, strip>>

None == [none |-> TRUE]
Headers == Pacts \cup {NoPact}
Counts == 0..MaxCount
Unknown == MaxCount + 1     \* no segment count: none stored, or none read

ASSUME EntryAssumption ==
    /\ NoPact \notin Pacts /\ "absent" \notin Headers /\ MaxCount \in Nat
    /\ Served \cup Modelled \cup Gated \cup Segmented \subseteq Headers

-----------------------------------------------------------------------------
(* The library: support looked up at a pact, or with none at any; and what  *)
(* create_device accepts.                                                   *)

ServedAt(modelled) == IF modelled THEN Served \cup Modelled ELSE Served
Supported(p, modelled) ==
    IF p = NoPact THEN ServedAt(modelled) # {} ELSE p \in ServedAt(modelled)
Creates(p, modelled) == p \in ServedAt(modelled)
Profile(p) == [gated |-> p \in Gated, segmented |-> p \in Segmented]

-----------------------------------------------------------------------------
(* Flows.  Those that add the device, from where its advert offered it to   *)
(* where it is confirmed, and the key is collected if it needs one.         *)

Idle == [step |-> "idle", pact |-> NoPact, modelled |-> FALSE]
Adding(g) == flows[g].step \in {"confirm", "modelled", "reading", "key"}
Becomes(f, step) == flows' = [flows EXCEPT ![f].step = step]

(* A supported advert, as _supported_device flags it.                       *)
Offered(p) ==
    [step |-> "form", pact |-> p, modelled |-> ~Supported(p, FALSE)]

(* Discovery: aborted when configured, or another flow adds the device.     *)
Discover(f) ==
    /\ flows[f] = Idle /\ entry = None /\ \A g \in Flows : ~Adding(g)
    /\ record # "absent" /\ Supported(record, TRUE)
    /\ LET o == Offered(record)
       IN  flows' = [flows EXCEPT ![f] = [o EXCEPT !.step = IF o.modelled THEN "modelled"
                                                            ELSE "confirm"]]
    /\ UNCHANGED <<record, entry, loaded, reload, lights, strip>>

(* The form of the devices heard.                                           *)
ListDevices(f) ==
    /\ flows[f] = Idle /\ entry = None
    /\ record # "absent" /\ Supported(record, TRUE)
    /\ flows' = [flows EXCEPT ![f] = Offered(record)]
    /\ UNCHANGED <<record, entry, loaded, reload, lights, strip>>

(* The entry is created: Home Assistant aborts the other flows that add the *)
(* device, and sets the entry up.                                           *)
Create(f, pact, secret) ==
    /\ entry' = [state |-> "new", secret |-> secret, modelled |-> flows[f].modelled,
                 header |-> pact, count |-> Unknown]
    /\ flows' = [g \in Flows |-> IF g = f \/ Adding(g) THEN Idle ELSE flows[g]]
    /\ UNCHANGED <<record, loaded, reload, lights, strip>>

(* Mutant of Finish: the pact of the advert setup routes by isn't rechecked. *)
FinishUnchecked(f) ==
    LET pact == IF record \in Pacts THEN record ELSE flows[f].pact
    IN  IF pact \in Gated THEN
           /\ flows' = [flows EXCEPT ![f] = [@ EXCEPT !.step = "reading", !.pact = pact]]
           /\ UNCHANGED <<record, entry, loaded, reload, lights, strip>>
        ELSE Create(f, pact, FALSE)

(* _finish: rechecked at the pact setup will route by, if it differs.       *)
Finish(f) ==
    LET pact == IF record \in Pacts THEN record ELSE flows[f].pact
        refused == pact # flows[f].pact /\ ~Supported(pact, flows[f].modelled)
    IN  IF ~refused /\ pact \notin Gated THEN Create(f, pact, FALSE)
        ELSE /\ flows' = [flows EXCEPT ![f] = IF refused THEN Idle
                             ELSE [@ EXCEPT !.step = "reading", !.pact = pact]]
             /\ UNCHANGED <<record, entry, loaded, reload, lights, strip>>

(* The device is picked from the form: aborted if configured since.         *)
Pick(f) ==
    /\ flows[f].step = "form"
    /\ IF entry = None /\ ~flows[f].modelled THEN Finish(f)
       ELSE /\ flows' = [flows EXCEPT ![f] = IF entry # None THEN Idle
                                              ELSE [@ EXCEPT !.step = "modelled"]]
            /\ UNCHANGED <<record, entry, loaded, reload, lights, strip>>
Confirm(f) == flows[f].step \in {"confirm", "modelled"} /\ Finish(f)

(* Declined, or the dialog is closed.                                       *)
Abort(f) ==
    /\ flows[f] # Idle /\ flows' = [flows EXCEPT ![f] = Idle]
    /\ UNCHANGED <<record, entry, loaded, reload, lights, strip>>

(* The key is read off the device, if it is unbound and setup would serve   *)
(* it; else the user provides it.                                           *)
ReadSecret(f) ==
    /\ flows[f].step = "reading"
    /\ \/ /\ record # "absent" /\ Creates(record, flows[f].modelled)
          /\ Create(f, flows[f].pact, TRUE)
       \/ Becomes(f, "key") /\ UNCHANGED <<record, entry, loaded, reload, lights, strip>>

(* A key entered by hand or fetched from the cloud account, right or not    *)
(* (on first setup none will do); on reauth it replaces the stored one.     *)
EnterSecret(f) ==
    \/ flows[f].step = "key"
       /\ \E secret \in BOOLEAN : Create(f, flows[f].pact, secret)
    \/ /\ flows[f].step = "reauth"
       /\ \E secret \in BOOLEAN : entry' = [entry EXCEPT !.secret = secret]
       /\ reload' = TRUE /\ Becomes(f, "idle")
       /\ UNCHANGED <<record, loaded, lights, strip>>

(* The device rejects the key, in a poll or a command: reauth starts, once. *)
RejectSecret(f) ==
    /\ loaded # None /\ loaded.built \in Gated /\ ~entry.secret
    /\ flows[f] = Idle /\ \A g \in Flows : flows[g].step # "reauth"
    /\ Becomes(f, "reauth")
    /\ UNCHANGED <<record, entry, loaded, reload, lights, strip>>

(* Reconfigure: the key kept, replaced or cleared if the model, at no pact, *)
(* needs one; the entry reloads either way.                                 *)
Reconfigure ==
    /\ entry # None
    /\ \E secret \in {entry.secret} \cup (IF NoPact \in Gated THEN BOOLEAN ELSE {}) :
          entry' = [entry EXCEPT !.secret = secret]
    /\ reload' = TRUE
    /\ UNCHANGED <<record, flows, loaded, lights, strip>>

-----------------------------------------------------------------------------
(* Setup.                                                                   *)

Kept(n) == lights \cap 0..(n - 1)

(* _async_size_segment_lights: how many lights to build, and those that     *)
(* stay in the registry.                                                    *)
Sized(p, stored) ==
    CASE p \notin Segmented -> [built |-> 0, kept |-> Kept(0)]
      [] p \in Segmented /\ stored = Unknown -> [built |-> MaxCount, kept |-> lights]
      [] OTHER -> [built |-> stored, kept |-> Kept(stored)]

(* The header advertised, or the one stored; it is stored even if the       *)
(* library refuses it.  A refusal is final only for a model not listed.     *)
SetUp ==
    /\ entry # None /\ entry.state \in {"new", "retry"}
    /\ LET header == IF record \in Pacts THEN record ELSE entry.header
           heard == record # "absent"
           built == heard /\ Creates(header, entry.modelled)
           sized == Sized(header, entry.count)
           state == IF built THEN "loaded"
                    ELSE IF heard /\ ServedAt(entry.modelled) = {} THEN "error" ELSE "retry"
       IN  /\ entry' = [entry EXCEPT !.state = state, !.header = IF heard THEN header ELSE @]
           /\ loaded' = IF built THEN [built |-> header, bare |-> header = NoPact,
                                       lights |-> sized.built, count |-> Unknown, fresh |-> FALSE, last |-> Unknown]
                        ELSE None
           /\ lights' = IF built THEN sized.kept \cup 0..(sized.built - 1) ELSE lights
    /\ UNCHANGED <<record, flows, reload, strip>>

(* A scheduled reload, and the entry's removal: reauth goes with it.        *)
Reload ==
    /\ reload /\ entry # None
    /\ reload' = FALSE /\ loaded' = None /\ entry' = [entry EXCEPT !.state = "new"]
    /\ UNCHANGED <<record, flows, lights, strip>>
Remove ==
    /\ entry # None
    /\ entry' = None /\ loaded' = None /\ reload' = FALSE /\ lights' = {}
    /\ flows' = [f \in Flows |-> IF flows[f].step = "reauth" THEN Idle ELSE flows[f]]
    /\ strip' = [strip EXCEPT !.stored = MaxCount, !.before = 0, !.read = 0,
                              !.hid = FALSE]
    /\ UNCHANGED record

-----------------------------------------------------------------------------
(* Advertisements.                                                          *)

(* Mutant of KeptHeader: a header once stored stays.                        *)
KeptHeaderFirst(stored, routedBy, p) ==
    IF stored # NoPact THEN stored ELSE IF routedBy \in Pacts THEN routedBy ELSE p

(* _async_keep_broadcast: the header of the record setup routes by replaces *)
(* another; with none stored, any scanner's first is stored.                *)
KeptHeader(stored, routedBy, p) ==
    CASE routedBy \in Pacts -> routedBy
      [] stored = NoPact /\ routedBy \notin Pacts -> p
      [] OTHER -> stored

(* An advert with new content, from a connectable scanner or not: a setup   *)
(* without a pact is done again if the first one heard routes the model to  *)
(* another profile.                                                         *)
Advertise(p, connectable) ==
    /\ record' = IF connectable THEN p ELSE record
    /\ IF loaded = None THEN UNCHANGED <<entry, loaded, reload>>
       ELSE /\ entry' = [entry EXCEPT !.header = KeptHeader(@, record', p)]
            /\ loaded' = [loaded EXCEPT !.bare = @ /\ p = NoPact]
            /\ reload' = (reload \/ (/\ loaded.bare /\ p # NoPact /\ Supported(p, entry.modelled)
                                     /\ Profile(p) # Profile(loaded.built)))
    /\ UNCHANGED <<flows, lights, strip>>

Vanish ==
    /\ record' = "absent"
    /\ UNCHANGED <<flows, entry, loaded, reload, lights, strip>>

-----------------------------------------------------------------------------
(* Segment counts.                                                          *)

(* The strip is cut short, or lengthened.                                   *)
Cut ==
    /\ \E n \in 1..MaxCount : strip' = [strip EXCEPT !.has = n]
    /\ UNCHANGED <<record, flows, entry, loaded, reload, lights>>

(* A right read that no push has shown yet is gone.                         *)
Hidden == strip.hid \/ (loaded.fresh /\ ~strip.bad)

(* The device answers a read with its count, or once with a wrong one (no   *)
(* two reads in a row are bad).  A poll pushes what it read; a self-test    *)
(* reads after each of its steps and pushes only once it ends, so a read    *)
(* may replace one that no push has shown.                                  *)
ReadCount ==
    /\ loaded # None /\ loaded.built \in Segmented
    /\ \E n \in Counts :
          /\ n # strip.has => ~strip.bad
          /\ loaded' = [loaded EXCEPT !.count = n, !.fresh = TRUE]
          /\ strip' = [strip EXCEPT !.bad = n # strip.has, !.read = strip.has, !.hid = Hidden]
    /\ UNCHANGED <<record, flows, entry, reload, lights>>

(* The library drops the count: the profile's again.                        *)
DropCount ==
    /\ loaded # None /\ loaded.count # Unknown
    /\ loaded' = [loaded EXCEPT !.count = Unknown, !.fresh = FALSE]
    /\ strip' = [strip EXCEPT !.read = 0, !.hid = Hidden]
    /\ UNCHANGED <<record, flows, entry, reload, lights>>

(* The fewer segments the strip had at the two reads behind a count; none   *)
(* is known if a right read between them went by unseen.                    *)
Fewer == IF strip.hid THEN Unknown
         ELSE IF strip.read < strip.before THEN strip.read ELSE strip.before

(* A count that two reads in a row answered is stored, and reloads the      *)
(* entry if the lights built differ; else those past it go now.             *)
Take(n) ==
    /\ entry' = [entry EXCEPT !.count = n]
    /\ strip' = [strip EXCEPT !.before = strip.read, !.read = 0, !.hid = FALSE,
                              !.stored = Fewer]
    /\ IF n # loaded.lights THEN reload' = TRUE /\ UNCHANGED lights
       ELSE lights' = Kept(n) /\ UNCHANGED reload

(* Mutant of Push: a state pushed again counts as another read.             *)
PushCounted ==
    /\ loaded # None /\ loaded.count # Unknown
    /\ loaded' = [loaded EXCEPT !.last = loaded.count]
    /\ IF loaded.count # entry.count /\ loaded.last = loaded.count THEN Take(loaded.count)
       ELSE UNCHANGED <<entry, reload, lights, strip>>
    /\ UNCHANGED <<record, flows>>

(* Any push of the state (_check): a new read is compared with the one      *)
(* before, and a dropped count starts the row over.                         *)
Push ==
    /\ loaded # None /\ loaded.built \in Segmented
    /\ LET n == loaded.count
           new == loaded.fresh
       IN  /\ loaded' = [loaded EXCEPT !.fresh = FALSE,
                                       !.last = IF new \/ n = Unknown THEN n ELSE @]
           /\ IF new /\ n # entry.count /\ loaded.last = n THEN Take(n)
              ELSE /\ UNCHANGED <<entry, reload, lights>>
                   /\ strip' = IF new THEN [strip EXCEPT !.before = strip.read, !.read = 0,
                                                          !.hid = FALSE]
                               ELSE strip
    /\ UNCHANGED <<record, flows>>

-----------------------------------------------------------------------------

(* No entry yet; or one an earlier version created, which stored neither    *)
(* header nor count and built the profile's lights.                         *)
EntryInit ==
    /\ record \in Headers \cup {"absent"} /\ flows = [f \in Flows |-> Idle]
    /\ entry \in {None} \cup [state : {"new"}, secret : BOOLEAN, modelled : {FALSE},
                              header : {NoPact}, count : {Unknown}]
    /\ loaded = None /\ reload = FALSE
    /\ lights = IF entry = None THEN {} ELSE 0..(MaxCount - 1)
    /\ strip \in {[has |-> n, bad |-> FALSE, read |-> 0, before |-> 0, hid |-> FALSE,
                   stored |-> MaxCount] : n \in 1..MaxCount}

EntryNext ==
    \/ \E f \in Flows :
          \/ Discover(f) \/ ListDevices(f) \/ Pick(f) \/ Confirm(f) \/ Abort(f)
          \/ ReadSecret(f) \/ EnterSecret(f) \/ RejectSecret(f)
    \/ Reconfigure \/ SetUp \/ Reload \/ Remove
    \/ \E p \in Headers, connectable \in BOOLEAN : Advertise(p, connectable)
    \/ Vanish \/ Cut \/ ReadCount \/ DropCount \/ Push

EntrySpec == EntryInit /\ [][EntryNext]_vars

-----------------------------------------------------------------------------

(* Nothing removes a segment light the device has, as long as every right   *)
(* read is pushed: one removed while its entry stays lies past what the     *)
(* strip had at one of the two reads behind the count stored, or its model  *)
(* has no segments (_async_track_segment_count: "one read alone (a bad one) *)
(* ... remove and reload nothing"; "a count read short must not delete a    *)
(* light").  The exception is what the code allows: two wrong reads whose   *)
(* right one between went by unseen make a row, as in a self-test.          *)
NoLightLost ==
    [][\A i \in lights \ lights' :
          \/ entry' = None
          \/ loaded' # None /\ loaded'.built \notin Segmented
          \/ strip'.stored = Unknown
          \/ i >= strip'.stored]_vars

(* Unless a reload is due, an entry is built as it is stored: as many       *)
(* segment lights as the count stored, in the registry too, and the header  *)
(* stored is the one the record shows, which the next setup would route by  *)
(* without a record (_async_broadcast, _async_keep_broadcast).              *)
SetUpCurrent ==
    loaded # None =>
       /\ record \in Pacts => entry.header = record
       /\ ~reload /\ entry.count # Unknown /\ loaded.built \in Segmented =>
             loaded.lights = entry.count /\ lights = 0..(entry.count - 1)

(* No entry is created that its setup would refuse: its header is served,   *)
(* modelled only if the user agreed, and is the one its setup routes by     *)
(* unless the user was asked for a key meanwhile (_finish: "don't create an *)
(* entry it would refuse").                                                 *)
CreatedServable ==
    [][entry = None /\ entry' # None =>
          /\ entry'.header \in Pacts => Supported(entry'.header, entry'.modelled)
          /\ record \in Pacts =>
                \/ entry'.header = record
                \/ \E f \in Flows : flows[f].step \in {"reading", "key"} /\ flows'[f] = Idle]_vars

=============================================================================
