------------------------- MODULE CommandBurstProofs -------------------------
(***************************************************************************)
(* The tracker of commands (CommandBurst), proved for any set of devices,   *)
(* any number of commands and any order of its callers' calls.  The four    *)
(* parts of the invariant support each other: that no tail runs beside a    *)
(* command is what lets the end of one leave it alone, and a tail is only   *)
(* armed for a burst that is active and loaded.                             *)
(***************************************************************************)
EXTENDS CommandBurst, TLAPS

BurstInv == BurstTypeOK /\ ActiveEnds /\ SeveralHold /\ TailNeedsEntry

(* What the counts of one device say of the whole.                          *)
Involves(run, offs, d) == run[d] > 0 \/ offs[d] > 0

LEMMA IdleMeans ==
    ASSUME NEW run, NEW offs
    PROVE  Idle(run, offs) <=> \A d \in Devices : ~Involves(run, offs, d)
  BY DEF Idle, Involved, Involves

LEMMA SeveralMeans ==
    ASSUME NEW run, NEW offs
    PROVE  Several(run, offs) <=>
              \E d, e \in Devices : d # e /\ Involves(run, offs, d) /\ Involves(run, offs, e)
  BY DEF Several, Involved, Involves

(* With nothing involved, not two devices are.                              *)
LEMMA IdleNotSeveral ==
    ASSUME NEW run, NEW offs, Idle(run, offs)
    PROVE  ~Several(run, offs)
  BY IdleMeans, SeveralMeans

LEMMA FewerIs ==
    ASSUME NEW n \in Nat
    PROVE  /\ Fewer(n) \in Nat
           /\ Fewer(n) > 0 => n > 0
  BY DEF Fewer

(* Counts that only shrink leave no device involved that was not.           *)
LEMMA Shrinking ==
    ASSUME NEW run, NEW offs, NEW run2, NEW offs2,
           \A d \in Devices : Involves(run2, offs2, d) => Involves(run, offs, d)
    PROVE  /\ Idle(run, offs) => Idle(run2, offs2)
           /\ Several(run2, offs2) => Several(run, offs)
  BY IdleMeans, SeveralMeans

(* A step that starts something keeps the invariant's parts.                *)
LEMMA GrowthKept ==
    ASSUME BurstInv, NEW d \in Devices,
           running' \in [Devices -> Nat], deferred' \in [Devices -> Nat],
           Involves(running', deferred', d),
           tail' = "off", active' \in BOOLEAN, Several(running', deferred') => active',
           UNCHANGED entry
    PROVE  BurstInv'
<1>2. ~Idle(running', deferred')
  BY IdleMeans
<1>3. BurstTypeOK'
  BY DEF BurstInv, BurstTypeOK, Timers
<1>4. ActiveEnds'
  BY <1>2 DEF ActiveEnds
<1>5. SeveralHold'
  BY DEF SeveralHold
<1>6. TailNeedsEntry'
  BY DEF TailNeedsEntry
<1>. QED
  BY <1>3, <1>4, <1>5, <1>6 DEF BurstInv

(* So does one that ends something, matched by a start or not.              *)
LEMMA ShrinkingKept ==
    ASSUME BurstInv,
           running' \in [Devices -> Nat], deferred' \in [Devices -> Nat],
           \A d \in Devices : Involves(running', deferred', d) => Involves(running, deferred, d),
           BurstShrinks(running', deferred'), UNCHANGED entry
    PROVE  BurstInv'
<1>1. /\ Idle(running, deferred) => Idle(running', deferred')
      /\ Several(running', deferred') => Several(running, deferred)
  BY Shrinking
<1>2. Idle(running', deferred') => ~Several(running', deferred')
  BY IdleNotSeveral
<1>3. CASE ~active \/ ~Idle(running', deferred')
  <2>1. active' = active /\ tail' = tail
    BY <1>3 DEF BurstShrinks
  <2>2. tail = "off"
    BY <1>1, <1>3 DEF BurstInv, SeveralHold
  <2>. QED
    BY <1>1, <1>3, <2>1, <2>2
    DEF BurstInv, BurstTypeOK, ActiveEnds, SeveralHold, TailNeedsEntry, Timers
<1>4. CASE active /\ Idle(running', deferred') /\ Loaded = {}
  <2>1. active' = FALSE /\ tail' = "off"
    BY <1>4 DEF BurstShrinks
  <2>. QED
    BY <1>2, <1>4, <2>1
    DEF BurstInv, BurstTypeOK, ActiveEnds, SeveralHold, TailNeedsEntry, Timers
<1>5. CASE active /\ Idle(running', deferred') /\ Loaded # {}
  <2>1. active' = active /\ tail' = "armed"
    BY <1>5 DEF BurstShrinks
  <2>2. \E d \in Devices : Alive(d)
    BY <1>5 DEF Loaded, Alive
  <2>3. TailNeedsEntry'
    BY <2>2 DEF TailNeedsEntry, Alive
  <2>. QED
    BY <1>2, <1>5, <2>1, <2>3
    DEF BurstInv, BurstTypeOK, ActiveEnds, SeveralHold, Timers
<1>. QED
  BY <1>3, <1>4, <1>5

(* And one that only changes the entries, none of them gone.                *)
LEMMA EntriesKept ==
    ASSUME BurstInv, NEW d \in Devices, NEW state \in EntryStates \ {"gone"},
           EntryBecomes(d, state), UNCHANGED <<running, deferred, active, tail>>
    PROVE  BurstInv'
<1>1. entry' \in [Devices -> EntryStates]
  BY DEF BurstInv, BurstTypeOK, EntryBecomes
<1>2. entry'[d] # "gone"
  BY DEF BurstInv, BurstTypeOK, EntryBecomes
<1>3. TailNeedsEntry'
  BY <1>2 DEF TailNeedsEntry, Alive
<1>4. BurstTypeOK' /\ ActiveEnds' /\ SeveralHold'
  BY <1>1 DEF BurstInv, BurstTypeOK, ActiveEnds, SeveralHold
<1>. QED
  BY <1>3, <1>4 DEF BurstInv

LEMMA ShutDownKept ==
    ASSUME BurstInv, NEW d \in Devices, ShutDown(d)
    PROVE  BurstInv'
<1>1. entry' \in [Devices -> EntryStates]
  BY DEF BurstInv, BurstTypeOK, ShutDown, EntryBecomes, EntryStates
<1>2. Idle(running, deferred) => ~Several(running, deferred)
  BY IdleNotSeveral
<1>3. UNCHANGED <<running, deferred>>
  BY DEF ShutDown
<1>4. CASE Loaded = {}
  <2>1. tail' = "off" /\ active' = (active /\ ~Idle(running, deferred))
    BY <1>4 DEF ShutDown, UnloadNoted
  <2>. QED
    BY <1>1, <1>2, <1>3, <2>1
    DEF BurstInv, BurstTypeOK, ActiveEnds, SeveralHold, TailNeedsEntry, Timers
<1>5. CASE Loaded # {}
  <2>1. active' = active /\ tail' = tail
    BY <1>5 DEF ShutDown, UnloadNoted
  <2>2. PICK e \in Devices : entry[e] = "loaded"
    BY <1>5 DEF Loaded
  <2>3. entry'[e] = "loaded"
    BY <2>2 DEF BurstInv, BurstTypeOK, ShutDown, EntryBecomes
  <2>4. TailNeedsEntry'
    BY <2>3 DEF TailNeedsEntry, Alive
  <2>. QED
    BY <1>1, <1>3, <2>1, <2>4
    DEF BurstInv, BurstTypeOK, ActiveEnds, SeveralHold
<1>. QED
  BY <1>4, <1>5

(* What the tracker's callers do to it, in any order.                       *)
BurstSteps ==
    \/ \E d \in Devices :
          \/ CommandStarts(d) \/ CommandEnds(d) \/ OffWaits(d) \/ OffGoes(d)
          \/ SetUp(d) \/ Load(d) \/ StartUnload(d) \/ FailUnload(d) \/ ShutDown(d)
    \/ BurstEnds
    \/ TailAdvances /\ UNCHANGED <<running, deferred, active, entry>>
    \/ UNCHANGED burstVars

LEMMA BurstStepKept ==
    ASSUME BurstInv, BurstSteps
    PROVE  BurstInv'
<1>1. ASSUME NEW d \in Devices, CommandStarts(d) PROVE BurstInv'
  <2>1. running' \in [Devices -> Nat] /\ deferred' \in [Devices -> Nat] /\ running'[d] > 0
    BY <1>1 DEF BurstInv, BurstTypeOK, CommandStarts
  <2>2. /\ tail' = "off" /\ active' = (active \/ Several(running', deferred'))
        /\ UNCHANGED entry
    BY <1>1 DEF CommandStarts, BurstGrows
  <2>3. Involves(running', deferred', d)
    BY <2>1 DEF Involves
  <2>4. active' \in BOOLEAN
    BY <2>2 DEF BurstInv, BurstTypeOK, Several
  <2>. QED
    BY <2>1, <2>2, <2>3, <2>4, GrowthKept
<1>2. ASSUME NEW d \in Devices, CommandEnds(d) PROVE BurstInv'
  <2>1. /\ running' = [running EXCEPT ![d] = Fewer(@)] /\ deferred' = deferred
        /\ BurstShrinks(running', deferred') /\ UNCHANGED entry
    BY <1>2 DEF CommandEnds
  <2>2. /\ running' \in [Devices -> Nat] /\ deferred' \in [Devices -> Nat]
        /\ \A e \in Devices : running'[e] > 0 => running[e] > 0
    BY <2>1, FewerIs DEF BurstInv, BurstTypeOK
  <2>3. \A e \in Devices : Involves(running', deferred', e) => Involves(running, deferred, e)
    BY <2>1, <2>2 DEF Involves
  <2>. QED
    BY <2>1, <2>2, <2>3, ShrinkingKept
<1>3. ASSUME NEW d \in Devices, OffWaits(d) PROVE BurstInv'
  <2>1. running' \in [Devices -> Nat] /\ deferred' \in [Devices -> Nat] /\ deferred'[d] > 0
    BY <1>3 DEF BurstInv, BurstTypeOK, OffWaits
  <2>2. /\ tail' = "off" /\ active' = (active \/ Several(running', deferred'))
        /\ UNCHANGED entry
    BY <1>3 DEF OffWaits, BurstGrows
  <2>3. Involves(running', deferred', d)
    BY <2>1 DEF Involves
  <2>4. active' \in BOOLEAN
    BY <2>2 DEF BurstInv, BurstTypeOK, Several
  <2>. QED
    BY <2>1, <2>2, <2>3, <2>4, GrowthKept
<1>4. ASSUME NEW d \in Devices, OffGoes(d) PROVE BurstInv'
  <2>1. /\ deferred' = [deferred EXCEPT ![d] = Fewer(@)] /\ running' = running
        /\ BurstShrinks(running', deferred') /\ UNCHANGED entry
    BY <1>4 DEF OffGoes
  <2>2. /\ running' \in [Devices -> Nat] /\ deferred' \in [Devices -> Nat]
        /\ \A e \in Devices : deferred'[e] > 0 => deferred[e] > 0
    BY <2>1, FewerIs DEF BurstInv, BurstTypeOK
  <2>3. \A e \in Devices : Involves(running', deferred', e) => Involves(running, deferred, e)
    BY <2>1, <2>2 DEF Involves
  <2>. QED
    BY <2>1, <2>2, <2>3, ShrinkingKept
<1>5. ASSUME NEW d \in Devices,
             SetUp(d) \/ Load(d) \/ StartUnload(d) \/ FailUnload(d)
      PROVE  BurstInv'
  <2>1. PICK state \in EntryStates \ {"gone"} :
           EntryBecomes(d, state) /\ UNCHANGED <<running, deferred, active, tail>>
    BY <1>5 DEF SetUp, Load, StartUnload, FailUnload, EntryStates
  <2>. QED
    BY <2>1, EntriesKept
<1>6. ASSUME NEW d \in Devices, ShutDown(d) PROVE BurstInv'
  BY <1>6, ShutDownKept
<1>7. CASE BurstEnds
  <2>1. Idle(running, deferred)
    BY <1>7 DEF BurstInv, SeveralHold, BurstEnds
  <2>2. ~Several(running, deferred)
    BY <2>1, IdleNotSeveral
  <2>. QED
    BY <1>7, <2>2
    DEF BurstEnds, BurstInv, BurstTypeOK, ActiveEnds, SeveralHold, TailNeedsEntry, Timers
<1>8. CASE TailAdvances /\ UNCHANGED <<running, deferred, active, entry>>
  BY <1>8
  DEF TailAdvances, BurstInv, BurstTypeOK, ActiveEnds, SeveralHold, TailNeedsEntry,
      Timers, Alive
<1>9. CASE UNCHANGED burstVars
  BY <1>9
  DEF burstVars, BurstInv, BurstTypeOK, ActiveEnds, SeveralHold, TailNeedsEntry, Alive
<1>. QED
  BY <1>1, <1>2, <1>3, <1>4, <1>5, <1>6, <1>7, <1>8, <1>9 DEF BurstSteps

LEMMA BurstInvHolds == BurstSpec => []BurstInv
<1>1. BurstInit => BurstInv
  <2>. SUFFICES ASSUME BurstInit PROVE BurstInv
    OBVIOUS
  <2>1. BurstTypeOK
    BY DEF BurstInit, BurstTypeOK, Timers, EntryStates
  <2>2. Idle(running, deferred)
    BY IdleMeans DEF BurstInit, Involves
  <2>3. ~Several(running, deferred)
    BY <2>2, IdleNotSeveral
  <2>. QED
    BY <2>1, <2>3 DEF BurstInit, BurstInv, ActiveEnds, SeveralHold, TailNeedsEntry
<1>2. BurstInv /\ [BurstNext]_burstVars => BurstInv'
  BY BurstStepKept DEF BurstNext, BurstSteps
<1>. QED
  BY <1>1, <1>2, PTL DEF BurstSpec

-----------------------------------------------------------------------------
(* The tracker keeps its counts and its timer to their types, whatever      *)
(* unmatched ends its callers call it with (CommandBurst).                  *)
THEOREM BurstTypeCorrect == BurstSpec => []BurstTypeOK
<1>1. BurstInv => BurstTypeOK
  BY DEF BurstInv
<1>. QED
  BY <1>1, BurstInvHolds, PTL

(* A burst always has something to end it: a command, a waiting turn-off or *)
(* its tail (_async_maybe_start, _async_start_tail, _async_note_unload).    *)
THEOREM BurstEndable == BurstSpec => []ActiveEnds
<1>1. BurstInv => ActiveEnds
  BY DEF BurstInv
<1>. QED
  BY <1>1, BurstInvHolds, PTL

(* While two devices are involved the burst holds, and a tail never runs    *)
(* beside a command (_async_cancel_end before every start).                 *)
THEOREM BurstHolds == BurstSpec => []SeveralHold
<1>1. BurstInv => SeveralHold
  BY DEF BurstInv
<1>. QED
  BY <1>1, BurstInvHolds, PTL

(* No tail is armed once every entry is gone (_async_note_unload).          *)
THEOREM NoTailLeftBehind == BurstSpec => []TailNeedsEntry
<1>1. BurstInv => TailNeedsEntry
  BY DEF BurstInv
<1>. QED
  BY <1>1, BurstInvHolds, PTL

=============================================================================
