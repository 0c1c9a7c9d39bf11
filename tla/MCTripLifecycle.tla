--------------------------- MODULE MCTripLifecycle ---------------------------
(***************************************************************************)
(* Model checking a trip under way in one run: TripLifecycle and KioskQr.    *)
(* They have different state and no message in common, so each behaviour has *)
(* the steps of one of them, the part chosen at first: what is checked is    *)
(* what a run of each would check.                                          *)
(***************************************************************************)
EXTENDS TripLifecycle, KioskQr

VARIABLE part
tripMachines == <<vars, kioskVars, part>>

Cycle(A) == part = "lifecycle" /\ A /\ UNCHANGED <<kioskVars, part>>
Kiosk(A) == part = "kiosk" /\ A /\ UNCHANGED <<vars, part>>

TripsInit ==
  /\ part \in {"lifecycle", "kiosk"}
  /\ Init /\ KioskInit

TripsNext ==
  \/ \E h \in Starters :
       \/ \E t \in Trips : Cycle(StartCheck(h, t))
       \/ Cycle(StartUpdate(h)) \/ Cycle(StartCache(h)) \/ Cycle(StartSet(h))
       \/ Cycle(StartCount(h)) \/ Cycle(StartState(h)) \/ Cycle(StartAbort(h))
  \/ \E h \in Enders :
       \/ \E t \in Trips : Cycle(EndCheck(h, t))
       \/ Cycle(EndUpdate(h)) \/ Cycle(EndCache(h)) \/ Cycle(EndSet(h))
       \/ Cycle(EndCount(h)) \/ Cycle(EndState(h)) \/ Cycle(EndTask(h))
       \/ Cycle(EndAbort(h))
  \/ \E t \in Trips : \/ Cycle(Deactivate(t)) \/ Cycle(Deliver(t))
                      \/ \E h \in Readers : Cycle(Lookup(h, t))
  \/ \E h \in Readers : Cycle(Fill(h)) \/ Cycle(LookupAbort(h))
  \/ Cycle(CacheExpires) \/ Cycle(ReconcileRead) \/ Cycle(ReconcileWrite) \/ Cycle(ReconcileAbort)
  \/ \E t \in KioskTrips : Kiosk(OpenKiosk(t)) \/ Kiosk(KioskTripEnds(t))
  \/ Kiosk(CloseKiosk) \/ Kiosk(TokenChanges)
  \/ Kiosk(Connect) \/ Kiosk(ConnectRefused) \/ Kiosk(LoseConnection)
  \/ \E c \in Conns : Kiosk(HandleJoin(c)) \/ Kiosk(HandleLeave(c)) \/ Kiosk(HandleDisconnect(c))
  \/ \E n \in Rotations : Kiosk(SetRotation(n)) \/ Kiosk(RotationTick(n)) \/ Kiosk(IssueFails(n))

(* What is fair in the kiosk is not enabled in its initial state, where it   *)
(* rests while the trips move.                                              *)
TripsSpec == TripsInit /\ [][TripsNext]_tripMachines /\ KioskFairness
=============================================================================
