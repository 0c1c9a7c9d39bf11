------------------------------- MODULE KioskQr -------------------------------
(***************************************************************************)
(* The QR code on the driver's kiosk: the screen's effect                   *)
(* (hooks/useKioskSocket.ts), the client's socket (lib/socket.ts), and the  *)
(* server's rotation of codes (websocket/socket.ts, modules/qr).            *)
(*                                                                         *)
(* socket.io (external) keeps what a client emits while it has no           *)
(* connection, sends it at the next one in order, and tells the server of a *)
(* lost connection some time later.  startQrRotation awaits the first code  *)
(* between clearing the socket's old interval and setting its own, so a     *)
(* rotation is first "issuing", then "running".  The 25 s of the interval   *)
(* and the 35 s of a code are not measured.                                 *)
(***************************************************************************)
EXTENDS Integers, Sequences

CONSTANTS
  KioskTrips, NoKioskTrip,
  Rotations, NoRotation, \* names of rotations
  MaxConns,  \* bound: connections of the client
  MaxOpens,  \* bound: times the screen is opened or the token changes
  MaxErrors  \* bound: errors of Postgres or Redis

ASSUME KioskConstants ==
  /\ MaxConns \in Nat /\ MaxOpens \in Nat /\ MaxErrors \in Nat
  /\ NoKioskTrip \notin KioskTrips /\ NoRotation \notin Rotations

Conns == 1..MaxConns
NoConn == 0

VARIABLES
  open,       \* the trip whose kiosk screen is mounted
  conn,       \* the client's connection
  conns,      \* connections so far
  refused,    \* the server refused its last handshake: the socket is inactive
  unsent,     \* what the client's socket keeps
  wire,       \* connection -> what is on its way to the server
  alive,      \* connections the server takes to be up
  rotation,   \* rotation -> its connection, its trip, its place
  registered, \* qrTimers: connection -> the rotation it would clear
  underway,   \* trip -> it is ACTIVE, with this driver
  code,       \* history: the trip of the code the last step delivered
  overlapped, \* history: connections with an event during an issuing
  opens, errors \* bounded counters

clientVars == <<open, conn, conns, refused, unsent>>
serverState == <<alive, rotation, registered>>
kioskVars == <<clientVars, wire, serverState, underway, code, overlapped, opens, errors>>

Messages == [op : {"join", "leave"}, trip : KioskTrips]
Join(t) == [op |-> "join", trip |-> t]
Leave(t) == [op |-> "leave", trip |-> t]
RotationRecords == [conn : Conns \cup {NoConn}, trip : KioskTrips \cup {NoKioskTrip},
                    pc : {"none", "issuing", "running"}]
Unused == [conn |-> NoConn, trip |-> NoKioskTrip, pc |-> "none"]

KioskTypeOK ==
  /\ open \in KioskTrips \cup {NoKioskTrip}
  /\ conns \in 0..MaxConns /\ conn \in 0..conns
  /\ refused \in BOOLEAN
  /\ unsent \in Seq(Messages) /\ wire \in [Conns -> Seq(Messages)]
  /\ alive \subseteq Conns
  /\ rotation \in [Rotations -> RotationRecords]
  /\ registered \in [Conns -> Rotations \cup {NoRotation}]
  /\ \A c \in Conns : registered[c] # NoRotation =>
       rotation[registered[c]].pc = "running" /\ rotation[registered[c]].conn = c
  /\ underway \in [KioskTrips -> BOOLEAN]
  /\ code \in KioskTrips \cup {NoKioskTrip} /\ overlapped \subseteq Conns
  /\ opens \in 0..MaxOpens /\ errors \in 0..MaxErrors

KioskInit ==
  /\ open = NoKioskTrip /\ conn = NoConn /\ conns = 0 /\ refused = FALSE /\ unsent = <<>>
  /\ wire = [c \in Conns |-> <<>>]
  /\ alive = {} /\ rotation = [n \in Rotations |-> Unused]
  /\ registered = [c \in Conns |-> NoRotation]
  /\ underway = [t \in KioskTrips |-> TRUE]
  /\ code = NoKioskTrip /\ overlapped = {} /\ opens = 0 /\ errors = 0

-----------------------------------------------------------------------------
(* The client.                                                              *)
Emit(message) ==
  IF conn = NoConn
  THEN unsent' = Append(unsent, message) /\ UNCHANGED wire
  ELSE wire' = [wire EXCEPT ![conn] = Append(@, message)] /\ UNCHANGED unsent

(* The effect of the screen: a socket without a connection is told to        *)
(* connect, and the rooms are joined at once, connected or not.              *)
OpenKiosk(t) ==
  /\ open = NoKioskTrip /\ opens < MaxOpens
  /\ open' = t /\ opens' = opens + 1 /\ code' = NoKioskTrip
  /\ Emit(Join(t)) /\ refused' = FALSE
  /\ UNCHANGED <<conn, conns, serverState, underway, overlapped, errors>>

CloseKiosk ==
  /\ open # NoKioskTrip
  /\ open' = NoKioskTrip /\ code' = NoKioskTrip
  /\ Emit(Leave(open))
  /\ UNCHANGED <<conn, conns, refused, serverState, underway, overlapped, opens, errors>>

(* A refreshed token: the store's subscriber disconnects and connects, and   *)
(* the effect of an open screen runs again, which leaves and joins.          *)
TokenChanges ==
  /\ opens > 0 /\ opens < MaxOpens /\ opens' = opens + 1
  /\ conn # NoConn => conns < MaxConns
  /\ conn' = NoConn /\ refused' = FALSE /\ code' = NoKioskTrip
  /\ unsent' = IF open = NoKioskTrip THEN unsent ELSE Append(Append(unsent, Leave(open)), Join(open))
  /\ UNCHANGED <<open, conns, wire, serverState, underway, overlapped, errors>>

(* Mutant: the rooms are not joined again.                                  *)
ConnectSilently ==
  /\ conn = NoConn /\ ~refused /\ opens > 0 /\ conns < MaxConns
  /\ conns' = conns + 1 /\ conn' = conns + 1
  /\ wire' = [wire EXCEPT ![conns + 1] = unsent]
  /\ unsent' = <<>> /\ alive' = alive \cup {conns + 1} /\ code' = NoKioskTrip
  /\ UNCHANGED <<open, refused, rotation, registered, underway, overlapped, opens, errors>>

(* What was kept is sent, and the connect handler joins the rooms again.     *)
Connect ==
  /\ conn = NoConn /\ ~refused /\ opens > 0 /\ conns < MaxConns
  /\ conns' = conns + 1 /\ conn' = conns + 1
  /\ wire' = [wire EXCEPT ![conns + 1] =
       unsent \o (IF open = NoKioskTrip THEN <<>> ELSE <<Join(open)>>)]
  /\ unsent' = <<>> /\ alive' = alive \cup {conns + 1} /\ code' = NoKioskTrip
  /\ UNCHANGED <<open, refused, rotation, registered, underway, overlapped, opens, errors>>

(* The server's middleware answers the handshake with an error: the token    *)
(* has expired, Redis or Postgres fail, or the check takes more than 3 s.    *)
(* socket.io does not try again by itself.                                  *)
ConnectRefused ==
  /\ conn = NoConn /\ ~refused /\ opens > 0
  /\ refused' = TRUE /\ code' = NoKioskTrip
  /\ UNCHANGED <<open, conn, conns, unsent, wire, serverState, underway, overlapped, opens, errors>>

(* The network fails.  (Bound: the last connection lasts.)                   *)
LoseConnection ==
  /\ conn # NoConn /\ conns < MaxConns
  /\ conn' = NoConn /\ code' = NoKioskTrip
  /\ UNCHANGED <<open, conns, refused, unsent, wire, serverState, underway, overlapped, opens, errors>>

-----------------------------------------------------------------------------
(* The server.                                                              *)
FreeRotation == CHOOSE n \in Rotations : rotation[n] = Unused

Cleared(c) ==
  IF registered[c] = NoRotation THEN rotation
  ELSE [rotation EXCEPT ![registered[c]] = Unused]

Noticed(c) ==
  overlapped' = IF \E n \in Rotations : rotation[n].conn = c /\ rotation[n].pc = "issuing"
                THEN overlapped \cup {c} ELSE overlapped

(* joinTripRoom and startQrRotation up to its await.                        *)
HandleJoin(c) ==
  /\ c \in alive /\ wire[c] # <<>> /\ Head(wire[c]).op = "join"
  /\ \E n \in Rotations : rotation[n] = Unused
  /\ rotation' = [Cleared(c) EXCEPT ![FreeRotation] =
       [conn |-> c, trip |-> Head(wire[c]).trip, pc |-> "issuing"]]
  /\ registered' = [registered EXCEPT ![c] = NoRotation]
  /\ wire' = [wire EXCEPT ![c] = Tail(@)]
  /\ Noticed(c) /\ code' = NoKioskTrip
  /\ UNCHANGED <<clientVars, alive, underway, opens, errors>>

(* leaveTripRoom clears the socket's interval, whatever trip it is for.      *)
HandleLeave(c) ==
  /\ c \in alive /\ wire[c] # <<>> /\ Head(wire[c]).op = "leave"
  /\ rotation' = Cleared(c) /\ registered' = [registered EXCEPT ![c] = NoRotation]
  /\ wire' = [wire EXCEPT ![c] = Tail(@)]
  /\ Noticed(c) /\ code' = NoKioskTrip
  /\ UNCHANGED <<clientVars, alive, underway, opens, errors>>

(* Mutant: the interval is left to run.                                     *)
HandleDisconnectOnly(c) ==
  /\ c \in alive /\ c # conn
  /\ alive' = alive \ {c} /\ wire' = [wire EXCEPT ![c] = <<>>]
  /\ Noticed(c) /\ code' = NoKioskTrip
  /\ registered' = [registered EXCEPT ![c] = NoRotation]
  /\ UNCHANGED <<clientVars, rotation, underway, opens, errors>>

HandleDisconnect(c) ==
  /\ c \in alive /\ c # conn
  /\ alive' = alive \ {c} /\ wire' = [wire EXCEPT ![c] = <<>>]
  /\ rotation' = Cleared(c) /\ registered' = [registered EXCEPT ![c] = NoRotation]
  /\ Noticed(c) /\ code' = NoKioskTrip
  /\ UNCHANGED <<clientVars, underway, opens, errors>>

(* issueQrForSocket: a code for an ACTIVE trip of the driver, pushed to the  *)
(* socket it was asked on.                                                  *)
Issue(n) ==
  code' = IF underway[rotation[n].trip] /\ rotation[n].conn = conn
          THEN rotation[n].trip ELSE NoKioskTrip

(* The rest of startQrRotation.                                             *)
SetRotation(n) ==
  /\ rotation[n].pc = "issuing" /\ Issue(n)
  /\ rotation' = [rotation EXCEPT ![n].pc = "running"]
  /\ registered' = [registered EXCEPT ![rotation[n].conn] = n]
  /\ UNCHANGED <<clientVars, wire, alive, underway, overlapped, opens, errors>>

RotationTick(n) ==
  /\ rotation[n].pc = "running" /\ Issue(n)
  /\ UNCHANGED <<clientVars, wire, serverState, underway, overlapped, opens, errors>>

(* A query or a Redis call of issueQrForSocket fails: nobody catches it, and *)
(* the process ends with every connection it had.                           *)
IssueFails(n) ==
  /\ rotation[n].pc # "none" /\ errors < MaxErrors /\ conns < MaxConns
  /\ errors' = errors + 1
  /\ alive' = {} /\ conn' = NoConn /\ wire' = [c \in Conns |-> <<>>]
  /\ rotation' = [m \in Rotations |-> Unused]
  /\ registered' = [c \in Conns |-> NoRotation]
  /\ code' = NoKioskTrip
  /\ UNCHANGED <<open, conns, refused, unsent, underway, overlapped, opens>>

KioskTripEnds(t) ==
  /\ underway[t] /\ underway' = [underway EXCEPT ![t] = FALSE] /\ code' = NoKioskTrip
  /\ UNCHANGED <<clientVars, wire, serverState, overlapped, opens, errors>>

-----------------------------------------------------------------------------
ServerHandles(c) ==
  HandleJoin(c) \/ HandleLeave(c) \/ HandleDisconnect(c)
RotationSteps(n) == SetRotation(n) \/ RotationTick(n)

KioskNext ==
  \/ \E t \in KioskTrips : OpenKiosk(t) \/ KioskTripEnds(t)
  \/ CloseKiosk \/ TokenChanges \/ Connect \/ ConnectRefused \/ LoseConnection
  \/ \E c \in Conns : ServerHandles(c)
  \/ \E n \in Rotations : RotationSteps(n) \/ IssueFails(n)

KioskSpec == KioskInit /\ [][KioskNext]_kioskVars

(* A client whose handshake the server has not refused reconnects (within    *)
(* its 50 attempts), messages arrive, a lost connection is noticed, calls    *)
(* return and intervals fire.                                               *)
KioskFairness ==
  /\ WF_kioskVars(Connect)
  /\ \A c \in Conns : WF_kioskVars(ServerHandles(c))
  /\ \A n \in Rotations : WF_kioskVars(RotationSteps(n))

-----------------------------------------------------------------------------
(* An interval runs on without a socket that would clear it only where a     *)
(* join, a leave or a disconnection was handled while the first code of an   *)
(* earlier join of the socket was being issued (socket.ts:47-90,196-260).    *)
LeakNeedsOverlap ==
  \A n \in Rotations :
    rotation[n].pc = "running" =>
      \/ rotation[n].conn \in alive /\ registered[rotation[n].conn] = n
      \/ rotation[n].conn \in overlapped

(* A kiosk that stays on a trip under way gets a new code of that trip again *)
(* and again: whatever connections were lost, handshakes refused before,     *)
(* tokens changed, joins repeated or overlapped, screens opened and closed,  *)
(* or server processes ended - unless a refused handshake is the last word:  *)
(* it then waits for another token or another opening of the screen          *)
(* (useKioskSocket.ts:16-107, lib/socket.ts:33-52, socket.ts:55-90,157-172). *)
RotationNeverStops ==
  \A t \in KioskTrips : <>[](open = t /\ underway[t] /\ ~refused) => []<>(code = t)

(* What that rests on, in every state: of a connected kiosk the server has   *)
(* still to handle a join of the trip it shows, after everything else that   *)
(* the kiosk sent, or a rotation runs for that trip on that connection; no   *)
(* leave, overlapping join or late disconnection takes it away              *)
(* (useKioskSocket.ts:73-107, socket.ts:55-90,196-260).                      *)
Rotating(t) ==
  \E n \in Rotations : rotation[n].pc # "none" /\ rotation[n].conn = conn /\ rotation[n].trip = t
CodeComes ==
  conn # NoConn =>
    /\ conn \in alive
    /\ open # NoKioskTrip =>
         IF wire[conn] = <<>> THEN Rotating(open) ELSE wire[conn][Len(wire[conn])] = Join(open)
=============================================================================
