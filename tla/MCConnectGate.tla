---------------------------- MODULE MCConnectGate ----------------------------
(***************************************************************************)
(* Finite instances of ConnectGate: a bulb heard by a proxy and a local     *)
(* adapter, and a nightstand heard by the proxy only.  The airs are         *)
(* readings a pass meets in a house: each run takes some of them, and the   *)
(* air may change from any one to any other between two handlers.           *)
(***************************************************************************)
EXTENDS ConnectGate, TLC

CONSTANTS command, other, poll, late,     \* calls
          bulb, nightstand,               \* devices
          proxy, adapter                  \* radios

McAddressOf == [c \in Calls |-> IF c \in {command, late} THEN bulb ELSE nightstand]

(* Everything idle: the bulb is heard a little better by the proxy, and     *)
(* habluetooth prefers it there.                                            *)
Quiet ==
    [hears |-> bulb :> {proxy, adapter} @@ nightstand :> {proxy},
     rssi |-> bulb :> (proxy :> 2 @@ adapter :> 1) @@ nightstand :> (proxy :> 1 @@ adapter :> 0),
     score |-> bulb :> (proxy :> 2 @@ adapter :> 1) @@ nightstand :> (proxy :> 1 @@ adapter :> 0),
     failing |-> {},
     free |-> proxy :> 2 @@ adapter :> 1,
     allocated |-> proxy :> {} @@ adapter :> {},
     inProgress |-> proxy :> 0 @@ adapter :> 0,
     deaf |-> {},
     broken |-> "no", reached |-> {}]

(* The bulb is connected through the proxy, which has gone deaf.            *)
DeafBulbUp == [Quiet EXCEPT !.free[proxy] = 1, !.allocated[proxy] = {bulb}, !.deaf = {proxy}]
(* Somebody else's connect goes through the proxy; or its slots are gone.   *)
Foreign == [Quiet EXCEPT !.free[proxy] = 1, !.inProgress[proxy] = 1, !.score[bulb][proxy] = 0]
Full == [Quiet EXCEPT !.free[proxy] = 0, !.free[adapter] = 0]
(* The proxy has one slot left, and the adapter reports no slot count.      *)
LastSlot == [Quiet EXCEPT !.free[proxy] = 1, !.free[adapter] = NoCount]
(* The proxy hears the bulb too weakly, though it scores best there; it is  *)
(* heard by nothing; it keeps failing through the proxy.                    *)
Weak == [Quiet EXCEPT !.rssi[bulb][proxy] = -1]
(* The proxy is away: the adapter alone hears both devices, with two slots. *)
AdapterOnly == [Quiet EXCEPT !.hears = bulb :> {adapter} @@ nightstand :> {adapter},
                             !.free[adapter] = 2]
Unheard == [Quiet EXCEPT !.hears[bulb] = {}]
Failing == [Quiet EXCEPT !.failing = {<<bulb, proxy>>}]
(* The proxy is full, and the adapter hears the bulb too weakly.            *)
FullAndWeak == [AdapterOnly EXCEPT !.hears[bulb] = {proxy, adapter},
                                   !.rssi[bulb][adapter] = -1, !.score[bulb][adapter] = -1,
                                   !.free[proxy] = 0]
(* A scanner can't be read: at once; at a check or a stuck radio, once the  *)
(* proxy was avoided; once the tickets were found.                          *)
Unreadable == [Quiet EXCEPT !.broken = "reading"]
HalfChecked == [DeafBulbUp EXCEPT !.broken = "checking", !.reached = {proxy}]
HalfAvoided == [DeafBulbUp EXCEPT !.broken = "avoiding", !.reached = {proxy}]
HalfJudged == [DeafBulbUp EXCEPT !.broken = "judging"]

BusyAirs == {Quiet, DeafBulbUp, Unreadable, HalfChecked, HalfAvoided, HalfJudged}
RoomAirs == {Quiet, Foreign, LastSlot, Full, Weak, Failing, AdapterOnly, Unheard, FullAndWeak}

=============================================================================
