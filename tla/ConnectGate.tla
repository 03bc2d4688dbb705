----------------------------- MODULE ConnectGate -----------------------------
(***************************************************************************)
(* The domain-wide connect gate (connect_gate.py, class ConnectGate): every *)
(* library call that may open a BLE connect queues here, and passes over    *)
(* the queue admit the calls as the Bluetooth radios have room.             *)
(*                                                                          *)
(* The gate runs in Home Assistant's event loop: each handler below runs to *)
(* its end before another starts, and a handler that pumps the queue does   *)
(* so as its last act.  What the gate reads of the radios is `air`: it      *)
(* changes between handlers and is read once per pass.                      *)
(*                                                                          *)
(* Times are counted in clock units (action Advance).  A waiting call and a *)
(* ticket age up to MaxWait; avoided, released and a pending release check  *)
(* count down to zero.  The tick (0.25 s) is shorter than a unit: it may    *)
(* fire at any moment while armed.                                          *)
(***************************************************************************)
EXTENDS Integers, FiniteSets

CONSTANTS
    Calls,             \* the concurrent library calls; a call ended may start again
    Addresses,         \* the devices
    Radios,            \* the connectable scanners
    Proxies,           \* the remote ones among them
    AddressOf,         \* the device a call is for
    Polls,             \* the calls that are background polls
    Lasts,             \* the turn-offs of devices already off ("last")
    Airs,              \* the states of the air a pass may read
    MaxWait,           \* CONNECT_GATE_MAX_WAIT_SECONDS, in clock units
    Grace,             \* CONNECT_GATE_RELEASE_GRACE_SECONDS
    AvoidFor,          \* CONNECT_GATE_AVOID_SECONDS
    RssiFloor,         \* CONNECT_GATE_RSSI_FLOOR, on the model's scale
    InFlightPerProxy,  \* CONNECT_GATE_IN_FLIGHT_PER_PROXY
    MaxDeferred,       \* bound: turn-offs waiting in the deferral at once
    MaxReleasing,      \* bound: releases of one device's link at once
    NoTicket

VARIABLES
    call,          \* each call: its phase, how long it has waited, its outcome
    place,         \* _waiters: a waiting call's place in arrival order, else 0
    tickets,       \* _tickets: the ticket of each device, or NoTicket
    avoided,       \* _avoided: the time left for each radio
    released,      \* _released: the time left of each radio's grace
    checks,        \* _release_checks, with the time until each is due
    releasing,     \* _releasing: releases of each device's link in progress
    deferredOffs,  \* _deferred_offs
    tick,          \* whether the tick is armed
    air            \* the scanners, as Home Assistant's API shows them

vars == <<call, place, tickets, avoided, released, checks, releasing,
          deferredOffs, tick, air>>

Phases == {"idle", "waiting", "resolved", "inside"}
Outcomes == {"linked", "joined", "unseen", "admitted", "capped", "unjudged",
             "released"}
Holding == {"joined", "admitted", "capped"}   \* the outcomes that carry a ticket

NoCount == -1   \* a radio that reports no slot count

CallState == [phase : Phases, waited : 0..MaxWait, outcome : Outcomes \cup {"none"}]
Ticket == [scanner : Radios, age : 0..MaxWait, holders : Nat, connected : BOOLEAN]
Check == [address : Addresses, scanner : Radios, connected : BOOLEAN, due : 0..Grace]

(* Where a pass stops if reading a scanner fails: at a due release check,   *)
(* at the paths and radios of the calls and tickets, while it avoids stuck  *)
(* radios, or at the paths' failures and scores once the tickets are found. *)
BrokenAt == {"no", "checking", "reading", "avoiding", "judging"}

(* One reading of the scanners: who hears whom and how well, each path's    *)
(* score and whether it keeps failing, what each radio reports, and where   *)
(* the reading fails, with the radios a failing step was through with.      *)
Air == [hears : [Addresses -> SUBSET Radios],
        rssi : [Addresses -> [Radios -> Int]],
        score : [Addresses -> [Radios -> Int]],
        failing : SUBSET (Addresses \X Radios),
        free : [Radios -> Nat \cup {NoCount}],
        allocated : [Radios -> SUBSET Addresses],
        inProgress : [Radios -> Nat],
        deaf : SUBSET Radios,
        broken : BrokenAt,
        reached : SUBSET Radios]

ASSUME ConstantsAssumption ==
    /\ IsFiniteSet(Calls) /\ IsFiniteSet(Addresses) /\ IsFiniteSet(Radios)
    /\ Proxies \subseteq Radios
    /\ AddressOf \in [Calls -> Addresses]
    /\ Polls \subseteq Calls /\ Lasts \subseteq Calls \ Polls
    /\ Airs \subseteq Air
    /\ MaxWait \in Nat \ {0} /\ Grace \in Nat /\ AvoidFor \in Nat
    /\ RssiFloor \in Int /\ InFlightPerProxy \in Nat
    /\ MaxDeferred \in Nat /\ MaxReleasing \in Nat
    /\ NoTicket \notin Ticket

-----------------------------------------------------------------------------
(* What a pass reads of a radio.                                            *)

Lists(r, a) == a \in air.allocated[r]
HasFreeSlot(r) == air.free[r] # 0

(* Deaf without connecting normally (a connect with its slot listed).       *)
Stuck(r) == r \in air.deaf /\ ~(air.inProgress[r] > 0 /\ air.allocated[r] # {})

(* The fit paths of a device, or all of them if none is.                    *)
Fit(r, a, avoiding) ==
    air.rssi[a][r] >= RssiFloor /\ <<a, r>> \notin air.failing /\ avoiding[r] = 0
Usable(a, avoiding) ==
    LET fit == {r \in air.hears[a] : Fit(r, a, avoiding)}
    IN  IF fit = {} THEN air.hears[a] ELSE fit

(* habluetooth's score of a path: its RSSI when it is the only one.         *)
Score(a, r) == IF air.hears[a] = {r} THEN air.rssi[a][r] ELSE air.score[a][r]
Outranks(a, r, q) ==
    \/ Score(a, r) > Score(a, q)
    \/ Score(a, r) = Score(a, q) /\ air.rssi[a][r] >= air.rssi[a][q]

(* The paths with a free slot, and the one habluetooth would pick of them.  *)
Pickable(a) == {r \in air.hears[a] : HasFreeSlot(r)}
Predicted(a) == CHOOSE r \in Pickable(a) : \A q \in Pickable(a) : Outranks(a, r, q)

(* The tickets on a radio that still count, and whether it has room for one *)
(* connect more.                                                            *)
Ours(tks, r) ==
    {a \in Addresses : tks[a] # NoTicket /\ tks[a].scanner = r /\ tks[a].age < MaxWait}
Connecting(tks, r) == Cardinality({a \in Ours(tks, r) : ~tks[a].connected})
Unlisted(tks, r) == Cardinality({a \in Ours(tks, r) : ~Lists(r, a)})
(* Mutant of HasRoom: only what the radio reports counts, not our tickets.  *)
HasRoomAsReported(tks, r) ==
    /\ r \in Proxies => air.inProgress[r] < InFlightPerProxy
    /\ air.free[r] # 0
HasRoom(tks, r) ==
    /\ r \in Proxies => /\ air.inProgress[r] < InFlightPerProxy
                        /\ Connecting(tks, r) < InFlightPerProxy
    /\ air.free[r] # NoCount => air.free[r] - Unlisted(tks, r) > 0

Busy(tks, r) == air.inProgress[r] > 0 \/ ~HasRoom(tks, r)

(* Whether a connect over the predicted path may start now.                 *)
GoesNow(tks, a, avoiding) ==
    /\ Pickable(a) # {}
    /\ HasRoom(tks, Predicted(a))
    /\ \/ Predicted(a) \in Usable(a, avoiding)
       \/ \A r \in Usable(a, avoiding) :
             air.rssi[a][r] > Score(a, Predicted(a)) => ~Busy(tks, r)

(* Where a call that waited long enough goes regardless.                    *)
CapTarget(a, avoiding) ==
    IF Pickable(a) # {} THEN Predicted(a)
    ELSE CHOOSE r \in Usable(a, avoiding) :
            \A q \in Usable(a, avoiding) : air.rssi[a][r] >= air.rssi[a][q]

-----------------------------------------------------------------------------
(* The queue.                                                               *)

Waiting(calls) == {c \in Calls : calls[c].phase = "waiting"}

(* Commands before polls, the last turn-offs after the other commands, a    *)
(* device with one usable path before one with a choice, then by arrival.   *)
ServingClass(c, avoiding) ==
    (IF c \in Polls THEN 4 ELSE 0)
        + (IF c \in Lasts THEN 2 ELSE 0)
        + (IF Cardinality(Usable(AddressOf[c], avoiding)) > 1 THEN 1 ELSE 0)
ServingKey(c, avoiding, pl) ==
    ServingClass(c, avoiding) * (Cardinality(Calls) + 1) + pl[c]
NextServed(left, avoiding, pl) ==
    CHOOSE c \in left :
        \A d \in left : ServingKey(c, avoiding, pl) <= ServingKey(d, avoiding, pl)

(* The places of the calls still waiting, closed up.                        *)
Places(pl, calls) ==
    [c \in Calls |-> IF calls[c].phase # "waiting" THEN 0
                     ELSE Cardinality({d \in Waiting(calls) : pl[d] <= pl[c]})]

Idle == [phase |-> "idle", waited |-> 0, outcome |-> "none"]
Resolved(calls, c, outcome) ==
    [calls EXCEPT ![c] = [phase |-> "resolved", waited |-> 0, outcome |-> outcome]]

-----------------------------------------------------------------------------
(* One pass.  Its argument and its result are the gate's data as a record.  *)

Gate == [call |-> call, tickets |-> tickets, avoided |-> avoided,
         released |-> released, checks |-> checks, releasing |-> releasing]

(* A failed call's radio is avoided once its check is due, if the radio is  *)
(* still stuck, still hears the device and never carried its link.          *)
Condemns(check) ==
    /\ check.due = 0
    /\ ~check.connected
    /\ ~(Lists(check.scanner, check.address) /\ air.inProgress[check.scanner] = 0)
    /\ check.scanner \in air.hears[check.address]
    /\ Stuck(check.scanner)
ReleaseChecked(g) ==
    [g EXCEPT !.checks = {k \in @ : k.due > 0},
              !.avoided = [r \in Radios |->
                  IF \E k \in g.checks : k.scanner = r /\ Condemns(k)
                  THEN AvoidFor ELSE @[r]]]

(* The radios this pass reads: those that hear a ticket's or a waiter's     *)
(* device.  The stuck ones past their grace are avoided.                    *)
Read(g) ==
    UNION {air.hears[a] : a \in {b \in Addresses : g.tickets[b] # NoTicket}
                                 \cup {AddressOf[c] : c \in Waiting(g.call)}}
Avoiding(g) ==
    [g EXCEPT !.avoided = [r \in Radios |->
        IF r \in Read(g) /\ Stuck(r) /\ g.released[r] = 0 THEN AvoidFor ELSE @[r]]]

(* Each ticket moves to the radio that lists its device; one seen connected *)
(* ends that radio's avoidance.                                             *)
Listing(a) == {r \in air.hears[a] : Lists(r, a)}
SeenOn(a) == CHOOSE r \in Listing(a) : TRUE
SeenUp(g, a) == air.inProgress[SeenOn(a)] = 0 /\ g.releasing[a] = 0
Seen(g, a) ==
    IF Listing(a) = {} THEN [g.tickets[a] EXCEPT !.connected = FALSE]
    ELSE [g.tickets[a] EXCEPT !.scanner = SeenOn(a), !.connected = SeenUp(g, a)]
Refreshed(g) ==
    [g EXCEPT
        !.tickets = [a \in Addresses |->
            IF @[a] = NoTicket THEN NoTicket ELSE Seen(g, a)],
        !.avoided = [r \in Radios |->
            IF \E a \in Addresses : /\ g.tickets[a] # NoTicket
                                     /\ Listing(a) # {} /\ SeenOn(a) = r /\ SeenUp(g, a)
            THEN 0 ELSE @[r]]]

(* Mutants of Decision: a call doesn't join its device's ticket but gets a  *)
(* new one; one admission per radio and pass; no cap.                       *)
DecisionNotJoining(g, p, c) ==
    LET a == AddressOf[c]
    IN  IF air.hears[a] = {} THEN "unseen"
        ELSE IF g.releasing[a] = 0 /\ Listing(a) # {} THEN "linked"
        ELSE IF ~(c \in Polls /\ p.commandWaiting) /\ GoesNow(p.tickets, a, g.avoided)
             THEN "admitted"
        ELSE IF p.call[c].waited = MaxWait /\ CapTarget(a, g.avoided) \notin p.capped
             THEN "capped"
        ELSE "waits"
DecisionOnePerRadio(g, p, c) ==
    LET a == AddressOf[c]
    IN  IF p.tickets[a] # NoTicket THEN "joined"
        ELSE IF air.hears[a] = {} THEN "unseen"
        ELSE IF g.releasing[a] = 0 /\ Listing(a) # {} THEN "linked"
        ELSE IF CapTarget(a, g.avoided) \in p.capped THEN "waits"
        ELSE IF ~(c \in Polls /\ p.commandWaiting) /\ GoesNow(p.tickets, a, g.avoided)
             THEN "admitted"
        ELSE IF p.call[c].waited = MaxWait THEN "capped"
        ELSE "waits"
DecisionCapYielding(g, p, c) ==
    LET a == AddressOf[c]
    IN  IF p.tickets[a] # NoTicket THEN "joined"
        ELSE IF air.hears[a] = {} THEN "unseen"
        ELSE IF g.releasing[a] = 0 /\ Listing(a) # {} THEN "linked"
        ELSE IF c \in Polls /\ p.commandWaiting THEN "waits"
        ELSE IF GoesNow(p.tickets, a, g.avoided) THEN "admitted"
        ELSE IF p.call[c].waited = MaxWait /\ CapTarget(a, g.avoided) \notin p.capped
             THEN "capped"
        ELSE "waits"

(* The judgement of one waiting call, after the ones served before it.      *)
Decision(g, p, c) ==
    LET a == AddressOf[c]
    IN  IF p.tickets[a] # NoTicket THEN "joined"
        ELSE IF air.hears[a] = {} THEN "unseen"
        ELSE IF g.releasing[a] = 0 /\ Listing(a) # {} THEN "linked"
        ELSE IF ~(c \in Polls /\ p.commandWaiting) /\ GoesNow(p.tickets, a, g.avoided)
             THEN "admitted"
        ELSE IF p.call[c].waited = MaxWait /\ CapTarget(a, g.avoided) \notin p.capped
             THEN "capped"
        ELSE "waits"
NewTicket(r) == [scanner |-> r, age |-> 0, holders |-> 1, connected |-> FALSE]
Ticketed(g, p, c, outcome) ==
    LET a == AddressOf[c]
    IN  CASE outcome = "joined" -> [p.tickets EXCEPT ![a].holders = @ + 1]
          [] outcome = "admitted" -> [p.tickets EXCEPT ![a] = NewTicket(Predicted(a))]
          [] outcome = "capped" -> [p.tickets EXCEPT ![a] = NewTicket(CapTarget(a, g.avoided))]
          [] OTHER -> p.tickets
(* Mutant of Judged: an admission doesn't keep a capped call off its radio. *)
JudgedForgettingAdmissions(g, p, c) ==
    LET outcome == Decision(g, p, c)
        after == Ticketed(g, p, c, outcome)
    IN  [call |-> IF outcome = "waits" THEN p.call ELSE Resolved(p.call, c, outcome),
         tickets |-> after,
         left |-> p.left \ {c},
         commandWaiting |-> p.commandWaiting \/ (outcome = "waits" /\ c \notin Polls),
         capped |-> IF outcome = "capped"
                    THEN p.capped \cup {after[AddressOf[c]].scanner} ELSE p.capped]
Judged(g, p, c) ==
    LET outcome == Decision(g, p, c)
        after == Ticketed(g, p, c, outcome)
    IN  [call |-> IF outcome = "waits" THEN p.call ELSE Resolved(p.call, c, outcome),
         tickets |-> after,
         left |-> p.left \ {c},
         commandWaiting |-> p.commandWaiting \/ (outcome = "waits" /\ c \notin Polls),
         capped |-> IF outcome \in {"admitted", "capped"}
                    THEN p.capped \cup {after[AddressOf[c]].scanner} ELSE p.capped]

(* Mutant of FirstJudgement: the turn-offs in the deferral don't count.     *)
FirstJudgementUndeferred(g) ==
    [call |-> g.call, tickets |-> g.tickets, left |-> Waiting(g.call),
     commandWaiting |-> FALSE, capped |-> {}]

(* The calls are judged one after the other, in serving order.              *)
FirstJudgement(g) ==
    [call |-> g.call, tickets |-> g.tickets, left |-> Waiting(g.call),
     commandWaiting |-> deferredOffs > 0, capped |-> {}]
Judgements(g, pl) ==
    LET judged[i \in 0..Cardinality(Waiting(g.call))] ==
            IF i = 0 THEN FirstJudgement(g)
            ELSE Judged(g, judged[i-1], NextServed(judged[i-1].left, g.avoided, pl))
    IN  judged
(* Mutant of Passed: stuck radios are avoided after the tickets are found.  *)
PassedAvoidingLast(g, pl) ==
    LET read == Avoiding(Refreshed(g))
        last == Judgements(read, pl)[Cardinality(Waiting(g.call))]
    IN  [read EXCEPT !.call = last.call, !.tickets = last.tickets]
Passed(g, pl) ==
    LET read == Refreshed(Avoiding(g))
        last == Judgements(read, pl)[Cardinality(Waiting(g.call))]
    IN  [read EXCEPT !.call = last.call, !.tickets = last.tickets]

(* What a pass that breaks off has done: of the step that failed, only the  *)
(* radios it had reached; the checks that were due are lost either way.     *)
Half(g, h) ==
    [h EXCEPT !.avoided = [r \in Radios |-> IF r \in air.reached THEN @[r] ELSE g.avoided[r]]]
BrokenOff(g) ==
    LET checked == ReleaseChecked(g)
        stuckAvoided == Avoiding(checked)
    IN  CASE air.broken = "checking" -> Half(g, checked)
          [] air.broken = "reading" -> checked
          [] air.broken = "avoiding" -> Half(checked, stuckAvoided)
          [] OTHER -> Refreshed(stuckAvoided)
LetGo(calls) ==
    [c \in Calls |-> IF calls[c].phase = "waiting" THEN Resolved(calls, c, "unjudged")[c]
                     ELSE calls[c]]

(* _async_pump: nothing is read unless a call waits; a failure to read the  *)
(* scanners breaks the pass off and lets every waiting call go unjudged.    *)
Pumped(g, pl) ==
    IF Waiting(g.call) = {} THEN g
    ELSE IF air.broken = "no" THEN Passed(ReleaseChecked(g), pl)
    ELSE [BrokenOff(g) EXCEPT !.call = LetGo(g.call)]

(* A handler that leaves the gate's data at g, its queue in the order pl.   *)
Becomes(g, pl) ==
    /\ call' = g.call
    /\ place' = Places(pl, g.call)
    /\ tickets' = g.tickets
    /\ avoided' = g.avoided
    /\ released' = g.released
    /\ checks' = g.checks
    /\ releasing' = g.releasing
    /\ UNCHANGED <<deferredOffs, air>>

(* Mutant of Scheduled: an armed tick is never cancelled.                   *)
ScheduledForGood(g) == tick' = (tick \/ Waiting(g.call) # {})

(* _async_schedule: the tick is armed if a call waits now, else cancelled.  *)
Scheduled(g) == tick' = (Waiting(g.call) # {})
Settles(g, pl) == Becomes(g, pl) /\ Scheduled(g)

-----------------------------------------------------------------------------
(* The calls.                                                               *)

WentIn(calls, c) ==
    [calls EXCEPT ![c].phase = IF @ = "resolved" THEN "inside" ELSE @]

(* A call queues and the queue is pumped; admitted at once, it goes inside  *)
(* without yielding to the loop.                                            *)
Arrive(c) ==
    /\ call[c].phase = "idle"
    /\ LET queued == [call EXCEPT ![c] = [Idle EXCEPT !.phase = "waiting"]]
           pl == [place EXCEPT ![c] = Cardinality(Waiting(call)) + 1]
           g == Pumped([Gate EXCEPT !.call = queued], pl)
       IN  Settles([g EXCEPT !.call = WentIn(g.call, c)], pl)

(* A call whose future a later pass resolved resumes.                       *)
Resume(c) ==
    /\ call[c].phase = "resolved"
    /\ call' = [call EXCEPT ![c].phase = "inside"]
    /\ UNCHANGED <<place, tickets, avoided, released, checks, releasing,
                   deferredOffs, tick, air>>

(* A call is cancelled while it waits.                                      *)
CancelWaiting(c) ==
    /\ call[c].phase = "waiting"
    /\ Settles([Gate EXCEPT !.call = [call EXCEPT ![c] = Idle]], place)

(* _async_release: the last holder gives the ticket back, opens its radio's *)
(* grace, queues a check if the call failed, and pumps the queue.           *)
Released(g, a, check) ==
    LET ticket == g.tickets[a]
    IN  [g EXCEPT
            !.tickets = [@ EXCEPT ![a] = NoTicket],
            !.released = [@ EXCEPT ![ticket.scanner] = Grace],
            !.checks = IF check
                       THEN @ \cup {[address |-> a, scanner |-> ticket.scanner,
                                     connected |-> ticket.connected, due |-> Grace]}
                       ELSE @]
GiveBack(c, check) ==
    LET a == AddressOf[c]
        gone == [Gate EXCEPT !.call = [call EXCEPT ![c] = Idle]]
    IN  CASE call[c].outcome \notin Holding ->
               Becomes(gone, place) /\ UNCHANGED tick
          [] call[c].outcome \in Holding /\ tickets[a].holders # 1 ->
               /\ Becomes([gone EXCEPT !.tickets = [tickets EXCEPT ![a].holders = @ - 1]],
                          place)
               /\ UNCHANGED tick
          [] OTHER -> Settles(Pumped(Released(gone, a, check), place), place)

(* A call is cancelled after a pass admitted it and before it resumed.      *)
CancelResolved(c) == call[c].phase = "resolved" /\ GiveBack(c, FALSE)

(* A call ends: it worked, or it failed or was cancelled.                   *)
Succeed(c) == call[c].phase = "inside" /\ GiveBack(c, FALSE)
Fail(c) == call[c].phase = "inside" /\ GiveBack(c, TRUE)

(* The entry of a device unloads, or Home Assistant stops.                  *)
ReleaseWaiters(a) ==
    /\ \E c \in Waiting(call) : AddressOf[c] = a
    /\ Settles([Gate EXCEPT !.call = [c \in Calls |->
           IF @[c].phase = "waiting" /\ AddressOf[c] = a
           THEN Resolved(@, c, "released")[c] ELSE @[c]]], place)

-----------------------------------------------------------------------------
(* The other callers of the gate, and the world around it.                  *)

NoteDeferredOff ==
    /\ deferredOffs < MaxDeferred
    /\ deferredOffs' = deferredOffs + 1
    /\ UNCHANGED <<call, place, tickets, avoided, released, checks, releasing, tick, air>>
EndDeferredOff ==
    /\ deferredOffs > 0
    /\ deferredOffs' = deferredOffs - 1
    /\ UNCHANGED <<call, place, tickets, avoided, released, checks, releasing, tick, air>>

NoteReleasing(a) ==
    /\ releasing[a] < MaxReleasing
    /\ releasing' = [releasing EXCEPT ![a] = @ + 1]
    /\ UNCHANGED <<call, place, tickets, avoided, released, checks, deferredOffs, tick, air>>
EndReleasing(a) ==
    /\ releasing[a] > 0
    /\ Settles(Pumped([Gate EXCEPT !.releasing = [releasing EXCEPT ![a] = @ - 1]], place), place)

OnTick == tick /\ Settles(Pumped(Gate, place), place)

AirChange ==
    /\ air' \in Airs \ {air}
    /\ UNCHANGED <<call, place, tickets, avoided, released, checks, releasing,
                   deferredOffs, tick>>

(* Mutant of Less: a deadline that has passed goes on counting.             *)
LessAndLess(n) == n - 1

(* The clock: what ages, ages; what counts down, counts down.               *)
Older(n) == IF n < MaxWait THEN n + 1 ELSE n
Less(n) == IF n > 0 THEN n - 1 ELSE 0
Advance ==
    /\ call' = [c \in Calls |-> IF call[c].phase = "waiting"
                                THEN [call[c] EXCEPT !.waited = Older(@)] ELSE call[c]]
    /\ tickets' = [a \in Addresses |-> IF tickets[a] = NoTicket THEN NoTicket
                                       ELSE [tickets[a] EXCEPT !.age = Older(@)]]
    /\ avoided' = [r \in Radios |-> Less(avoided[r])]
    /\ released' = [r \in Radios |-> Less(released[r])]
    /\ checks' = {[k EXCEPT !.due = Less(@)] : k \in checks}
    /\ UNCHANGED <<place, releasing, deferredOffs, tick, air>>

-----------------------------------------------------------------------------

Init ==
    /\ call = [c \in Calls |-> Idle]
    /\ place = [c \in Calls |-> 0]
    /\ tickets = [a \in Addresses |-> NoTicket]
    /\ avoided = [r \in Radios |-> 0]
    /\ released = [r \in Radios |-> 0]
    /\ checks = {}
    /\ releasing = [a \in Addresses |-> 0]
    /\ deferredOffs = 0
    /\ tick = FALSE
    /\ air \in Airs

Next ==
    \/ \E c \in Calls : \/ Arrive(c) \/ Resume(c) \/ CancelWaiting(c)
                        \/ CancelResolved(c) \/ Succeed(c) \/ Fail(c)
    \/ \E a \in Addresses : ReleaseWaiters(a) \/ NoteReleasing(a) \/ EndReleasing(a)
    \/ NoteDeferredOff \/ EndDeferredOff
    \/ OnTick \/ Advance \/ AirChange

Spec == Init /\ [][Next]_vars

-----------------------------------------------------------------------------
(* The gate's data have the types the code gives them.                      *)
TypeOK ==
    /\ call \in [Calls -> CallState]
    /\ place \in [Calls -> Nat]
    /\ tickets \in [Addresses -> Ticket \cup {NoTicket}]
    /\ avoided \in [Radios -> 0..AvoidFor]
    /\ released \in [Radios -> 0..Grace]
    /\ checks \subseteq Check
    /\ releasing \in [Addresses -> Nat]
    /\ deferredOffs \in Nat
    /\ tick \in BOOLEAN
    /\ air \in Airs

(* The calls that hold a device's ticket: admitted on it or joined to it,   *)
(* and not ended yet.  The tickets account for the calls: a device has one  *)
(* exactly while some call holds it, and it counts those calls.             *)
Holders(calls, a) ==
    {c \in Calls : /\ AddressOf[c] = a
                   /\ calls[c].phase \in {"resolved", "inside"}
                   /\ calls[c].outcome \in Holding}
Accounted(calls, tks) ==
    \A a \in Addresses :
        /\ tks[a] = NoTicket => Holders(calls, a) = {}
        /\ tks[a] # NoTicket =>
               Holders(calls, a) # {} /\ tks[a].holders = Cardinality(Holders(calls, a))

(* No ticket leaks (its device would be joined for ever), and none is given *)
(* back twice or in place of another's, whatever order the passes, the      *)
(* cancellations and the ends of calls come in.                             *)
TicketAccounting == Accounted(call, tickets)

(* No lost wake-up: the tick is armed exactly while a call waits.           *)
TickWhileWaiting == tick = (Waiting(call) # {})

(* A step lets a waiting or arriving call through with an outcome.          *)
Goes(c, outcome) ==
    /\ call[c].phase \in {"idle", "waiting"}
    /\ call'[c].phase \in {"resolved", "inside"}
    /\ call'[c].outcome = outcome
RadioOf(c) == tickets'[AddressOf[c]].scanner

(* A device's connect counts as up on a radio that is avoided.              *)
CarrierAvoided(a) ==
    /\ tickets[a] # NoTicket
    /\ tickets[a].connected
    /\ avoided[tickets[a].scanner] # 0

(* A connect seen up through a radio ends its avoidance, in whatever order  *)
(* the pass judges the radio stuck and finds the ticket: a tick's or an     *)
(* arriving call's pass leaves no such radio avoided, and no step avoids    *)
(* one, except a pass that breaks off before it found the tickets.          *)
CarriersNotAvoided ==
    [][\A a \in Addresses : CarrierAvoided(a)' =>
          \/ CarrierAvoided(a) /\ ~OnTick /\ \A c \in Calls : ~Arrive(c)
          \/ /\ air.broken \in {"checking", "reading", "avoiding"}
             /\ \E c \in Calls : Goes(c, "unjudged")]_vars

(* However many calls one pass admits, in whatever order it serves them, no *)
(* radio is overbooked by an admission: a proxy gets no second connect      *)
(* while one is in progress, and the tickets of devices a radio doesn't     *)
(* list fit in the free slots it reported.                                  *)
AdmitsWithinRoom ==
    [][\A c \in Calls : Goes(c, "admitted") =>
          LET r == RadioOf(c)
          IN  /\ r \in Proxies =>
                    /\ air.inProgress[r] < InFlightPerProxy
                    /\ Connecting(tickets', r) <= InFlightPerProxy
              /\ air.free[r] # NoCount => Unlisted(tickets', r) <= air.free[r]]_vars

(* A poll is admitted to a new connect only when no command waits, the      *)
(* turn-offs waiting in the deferral included.                              *)
PollsYield ==
    [][\A c \in Polls : Goes(c, "admitted") =>
          deferredOffs = 0 /\ Waiting(call') \subseteq Polls]_vars

(* Whether a pass serves d before c: an arriving call is its class's last.  *)
ServedBefore(d, c) ==
    LET class(x) == ServingClass(x, avoided')
    IN  \/ class(d) < class(c)
        \/ class(d) = class(c) /\ call[d].phase = "waiting" /\ place[d] < place[c]

(* The calls that waited out the cap spread: no two of one pass go to the   *)
(* same radio, and none goes to a radio a call served before it was just    *)
(* admitted to.                                                             *)
CapsSpread ==
    [][\A c, d \in Calls :
          Goes(c, "capped") /\ (\/ Goes(d, "capped") /\ c # d
                                \/ Goes(d, "admitted") /\ ServedBefore(d, c))
              => RadioOf(c) # RadioOf(d)]_vars

(* No admission is lost: a tick leaves no command waiting whose predicted   *)
(* radio still has room for it at the end of the pass, unless its device    *)
(* got a ticket in that pass (it is joined at the next).                    *)
NoRoomLeftUnused ==
    [][OnTick /\ air.broken = "no" =>
          \A c \in Waiting(call') \ Polls :
             \/ tickets'[AddressOf[c]] # NoTicket
             \/ ~GoesNow(tickets', AddressOf[c], avoided')]_vars

=============================================================================
