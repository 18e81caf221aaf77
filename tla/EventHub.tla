------------------------------ MODULE EventHub ------------------------------
(***************************************************************************)
(* The WebSocket side of the server (server/internal/hub/hub.go and        *)
(* api/websocket.go): the handler of each connection from its access token *)
(* to its end, the hub's map of connections, Publish with its snapshot and *)
(* its sends one by one, and the handlers that publish clips and revoke    *)
(* devices. The clients appear as what the protocol asks of them: a pull   *)
(* at hello, a look at GET /devices at every event about a device.         *)
(*                                                                         *)
(* Abstractions: one user; device.updated and device.logged_in, which say  *)
(* nothing of clips or presence, are left out; roles are not checked.      *)
(***************************************************************************)
EXTENDS Integers, Sequences, Functions

CONSTANTS
  Device,
  Conn,      \* connections, reused once nothing is left of the last use
  DeviceOf,  \* the device of each connection
  SendCap,   \* capacity of Client.Send (16)
  Ending,    \* bound of the model: devices whose session may end
  MaxClips   \* bound of the model: clips uploaded

ASSUME HubAssumption ==
  /\ DeviceOf \in [Conn -> Device]
  /\ SendCap \in Nat \ {0}
  /\ Ending \subseteq Device
  /\ MaxClips \in Nat

VARIABLES
  alive,        \* devices with a session that is not revoked
  stage,        \* each device's revocation: what its handler does next
  pc,           \* each connection's handler
  hub,          \* the connections in Hub.users
  buf,          \* Client.Send of each connection
  closed,       \* connections whose Client.Done is closed
  clips,        \* the device of every committed clip, in order
  unpublished,  \* clips whose handler has not come to Publish yet
  mail,         \* sends that the loops of Publish still have to make
  greeted,      \* connections whose client has had hello
  known,        \* the clips each connection's client has
  view,         \* what it knows of who is online: nothing, or one set
  stale,        \* history: connections whose session was revoked under way
  late          \* history: of them, those that reached the hub afterwards

requests == <<alive, stage, clips, unpublished>>
client == <<greeted, known, view>>
history == <<stale, late>>
vars == <<requests, pc, hub, buf, closed, mail, client, history>>

Published ==
  [type : {"presence"}, of : Conn]
    \union [type : {"clip"}, of : 1..MaxClips]
    \union [type : {"revoked"}, of : Device]

Event == [type : {"hello"}, of : Conn] \union Published

TypeOK ==
  /\ alive \subseteq Device
  /\ stage \in [Device -> {"none", "publish", "close"}]
  /\ pc \in [Conn -> {"none", "authed", "announce", "hello", "open", "farewell"}]
  /\ hub \subseteq Conn /\ closed \subseteq Conn
  /\ buf \in [Conn -> Seq(Event)] /\ \A c \in Conn : Len(buf[c]) <= SendCap
  /\ clips \in Seq(Device) /\ Len(clips) <= MaxClips
  /\ unpublished \subseteq DOMAIN clips
  /\ mail \subseteq [ev : Event, to : Conn]
  /\ greeted \subseteq Conn
  /\ known \in [Conn -> SUBSET DOMAIN clips]
  /\ view \in [Conn -> SUBSET SUBSET Device]
  /\ stale \subseteq Conn /\ late \subseteq stale

Init ==
  /\ alive = Device
  /\ stage = [d \in Device |-> "none"]
  /\ pc = [c \in Conn |-> "none"]
  /\ hub = {} /\ closed = {}
  /\ buf = [c \in Conn |-> <<>>]
  /\ clips = <<>> /\ unpublished = {}
  /\ mail = {}
  /\ greeted = {}
  /\ known = [c \in Conn |-> {}]
  /\ view = [c \in Conn |-> {}]
  /\ stale = {} /\ late = {}

Presence(c) == [type |-> "presence", of |-> c]
ClipCreated(n) == [type |-> "clip", of |-> n]
Revoked(d) == [type |-> "revoked", of |-> d]

Connections(d) == {c \in hub : DeviceOf[c] = d}

(* IsOnline, for every device.                                             *)
Online == {DeviceOf[c] : c \in hub}

\* Mutant: only one connection of each device is sent to.
PublishToOne(d, ev) ==
  mail' = mail \union {[ev |-> ev, to |-> CHOOSE c \in Connections(e) : TRUE] :
                         e \in Online \ {d}}

(* Publish: who is sent to is settled under the lock, the sends follow.    *)
Publish(d, ev) ==
  mail' = mail \union {[ev |-> ev, to |-> c] : c \in hub \ Connections(d)}

Sent(ev) == \A m \in mail : m.ev # ev

Goto(c, to) == pc' = [pc EXCEPT ![c] = to]

-----------------------------------------------------------------------------
(* eventsWebSocket, one connection.                                        *)

(* The access token is accepted.                                           *)
Authenticate(c) ==
  /\ pc[c] = "none" /\ DeviceOf[c] \in alive
  /\ \A m \in mail : m.to # c /\ m.ev # Presence(c)
  /\ Goto(c, "authed")
  /\ UNCHANGED <<requests, hub, buf, closed, mail, client, history>>

(* hub.Add: the first connection of its device is announced.               *)
Add(c) ==
  /\ pc[c] = "authed"
  /\ Goto(c, IF Connections(DeviceOf[c]) = {} THEN "announce" ELSE "hello")
  /\ hub' = hub \union {c}
  /\ late' = IF c \in stale /\ stage[DeviceOf[c]] = "none" THEN late \union {c} ELSE late
  /\ UNCHANGED <<requests, buf, closed, mail, client, stale>>

(* device.presence_changed: online.                                        *)
Announce(c) ==
  /\ pc[c] = "announce"
  /\ Publish(DeviceOf[c], Presence(c))
  /\ Goto(c, "hello")
  /\ UNCHANGED <<requests, hub, buf, closed, client, history>>

(* client.Send <- hello, which blocks while the channel is full: nobody    *)
(* takes anything out before RunWriter is started, behind it.              *)
Hello(c) ==
  /\ pc[c] = "hello" /\ Sent(Presence(c))
  /\ Len(buf[c]) < SendCap
  /\ buf' = [buf EXCEPT ![c] = Append(@, [type |-> "hello", of |-> c])]
  /\ Goto(c, "open")
  /\ UNCHANGED <<requests, hub, closed, mail, client, history>>

(* RunWriter writes an event and the client handles it.                    *)
Deliver(c) ==
  /\ pc[c] = "open" /\ c \notin closed /\ buf[c] # <<>>
  /\ buf' = [buf EXCEPT ![c] = Tail(@)]
  /\ LET ev == Head(buf[c])
     IN  /\ greeted' = IF ev.type = "hello" THEN greeted \union {c} ELSE greeted
         /\ known' = CASE ev.type = "hello" -> [known EXCEPT ![c] = DOMAIN clips]
                       [] ev.type = "clip" -> [known EXCEPT ![c] = @ \union {ev.of}]
                       [] OTHER -> known
         /\ view' = IF ev.type \in {"presence", "revoked"}
                    THEN [view EXCEPT ![c] = {Online}] ELSE view
  /\ UNCHANGED <<requests, pc, hub, closed, mail, history>>

(* The user opens the list of devices.                                     *)
OpenList(c) ==
  /\ pc[c] = "open" /\ view[c] = {}
  /\ view' = [view EXCEPT ![c] = {Online}]
  /\ UNCHANGED <<requests, pc, hub, buf, closed, mail, greeted, known, history>>

(* The connection fails, the client leaves, or ExpiresAt is reached: Read  *)
(* or RunWriter returns, and the handler closes its client.                *)
HangUp(c) ==
  /\ pc[c] = "open" /\ c \notin closed
  /\ closed' = closed \union {c}
  /\ UNCHANGED <<requests, pc, hub, buf, mail, client, history>>

\* The connection is over, and with it what was kept for it.
Gone(c) ==
  /\ buf' = [buf EXCEPT ![c] = <<>>]
  /\ closed' = closed \ {c}
  /\ greeted' = greeted \ {c}
  /\ known' = [known EXCEPT ![c] = {}]
  /\ view' = [view EXCEPT ![c] = {}]
  /\ stale' = stale \ {c} /\ late' = late \ {c}

\* Mutant: the connection itself still counts when the last one is looked for.
RemoveAfterLooking(c) ==
  /\ pc[c] = "open" /\ c \in closed
  /\ hub' = hub \ {c}
  /\ Goto(c, IF Connections(DeviceOf[c]) = {} THEN "farewell" ELSE "none")
  /\ Gone(c)
  /\ UNCHANGED <<requests, mail>>

(* hub.Remove, once Read and RunWriter have returned.                      *)
Remove(c) ==
  /\ pc[c] = "open" /\ c \in closed
  /\ hub' = hub \ {c}
  /\ Goto(c, IF Connections(DeviceOf[c]) = {c} THEN "farewell" ELSE "none")
  /\ Gone(c)
  /\ UNCHANGED <<requests, mail>>

(* device.presence_changed: offline.                                       *)
Farewell(c) ==
  /\ pc[c] = "farewell"
  /\ Publish(DeviceOf[c], Presence(c))
  /\ Goto(c, "none")
  /\ UNCHANGED <<requests, hub, buf, closed, client, history>>

-----------------------------------------------------------------------------
\* Mutant: what does not fit is dropped, and the slow client is kept.
SendWhatFits(m) ==
  /\ m \in mail
  /\ mail' = mail \ {m}
  /\ IF Len(buf[m.to]) < SendCap /\ pc[m.to] # "none"
     THEN buf' = [buf EXCEPT ![m.to] = Append(@, m.ev)] ELSE UNCHANGED buf
  /\ UNCHANGED <<requests, pc, hub, closed, client, history>>

(* One send of a Publish. A client whose channel is full is closed. One    *)
(* that has left the hub is sent to all the same, to no effect.            *)
Send(m) ==
  /\ m \in mail
  /\ mail' = mail \ {m}
  /\ IF pc[m.to] \in {"none", "farewell"} THEN UNCHANGED <<buf, closed>>
     ELSE IF Len(buf[m.to]) < SendCap
     THEN buf' = [buf EXCEPT ![m.to] = Append(@, m.ev)] /\ UNCHANGED closed
     ELSE closed' = closed \union {m.to} /\ UNCHANGED buf
  /\ UNCHANGED <<requests, pc, hub, client, history>>

(* createClip: the clip is committed, and then published.                  *)
CreateClip(d) ==
  /\ d \in alive /\ Len(clips) < MaxClips
  /\ clips' = Append(clips, d)
  /\ unpublished' = unpublished \union {Len(clips) + 1}
  /\ UNCHANGED <<alive, stage, pc, hub, buf, closed, mail, client, history>>

PublishClip(n) ==
  /\ n \in unpublished
  /\ unpublished' = unpublished \ {n}
  /\ Publish(clips[n], ClipCreated(n))
  /\ UNCHANGED <<alive, stage, clips, pc, hub, buf, closed, client, history>>

\* A device's session ends; the handler goes on at `next`.
EndSession(d, next) ==
  /\ d \in alive \cap Ending /\ stage[d] = "none"
  /\ alive' = alive \ {d}
  /\ stage' = [stage EXCEPT ![d] = next]
  /\ stale' = stale \union {c \in Conn : DeviceOf[c] = d /\ pc[c] \notin {"none", "farewell"}}
  /\ UNCHANGED <<clips, unpublished, pc, hub, buf, closed, mail, client, late>>

(* revokeDevice, by another device, and logout.                            *)
RevokeDevice(d) == alive # {d} /\ EndSession(d, "publish")
Logout(d) == EndSession(d, "close")

PublishRevoked(d) ==
  /\ stage[d] = "publish"
  /\ stage' = [stage EXCEPT ![d] = "close"]
  /\ Publish(d, Revoked(d))
  /\ UNCHANGED <<alive, clips, unpublished, pc, hub, buf, closed, client, history>>

\* Mutant: only connections that have had their hello are closed.
CloseOpened(d) ==
  /\ stage[d] = "close" /\ Sent(Revoked(d))
  /\ stage' = [stage EXCEPT ![d] = "none"]
  /\ closed' = closed \union {c \in Connections(d) : pc[c] = "open"}
  /\ UNCHANGED <<alive, clips, unpublished, pc, hub, buf, mail, client, history>>

(* CloseDevice closes what is in the hub.                                  *)
CloseDevice(d) ==
  /\ stage[d] = "close" /\ Sent(Revoked(d))
  /\ stage' = [stage EXCEPT ![d] = "none"]
  /\ closed' = closed \union Connections(d)
  /\ UNCHANGED <<alive, clips, unpublished, pc, hub, buf, mail, client, history>>

Login(d) ==
  /\ d \notin alive /\ stage[d] = "none"
  /\ alive' = alive \union {d}
  /\ UNCHANGED <<stage, clips, unpublished, pc, hub, buf, closed, mail, client, history>>

Handle(c) == Add(c) \/ Announce(c) \/ Hello(c) \/ Remove(c) \/ Farewell(c)

Next ==
  \/ \E c \in Conn : Authenticate(c) \/ Handle(c) \/ Deliver(c) \/ OpenList(c) \/ HangUp(c)
  \/ \E m \in mail : Send(m)
  \/ \E n \in unpublished : PublishClip(n)
  \/ \E d \in Device : \/ CreateClip(d) \/ RevokeDevice(d) \/ Logout(d)
                       \/ PublishRevoked(d) \/ CloseDevice(d) \/ Login(d)

Spec == Init /\ [][Next]_vars

(* Handlers and writers are goroutines that run on, and a client reads.    *)
FairSpec ==
  /\ Spec
  /\ \A c \in Conn : WF_vars(Handle(c)) /\ WF_vars(Deliver(c))
  /\ \A n \in 1..MaxClips : WF_vars(PublishClip(n))
  /\ \A d \in Device : WF_vars(PublishRevoked(d)) /\ WF_vars(CloseDevice(d))
  /\ \A ev \in Published, c \in Conn : WF_vars(Send([ev |-> ev, to |-> c]))

-----------------------------------------------------------------------------
\* On its way to a connection: yet to be sent, or in its channel.
Coming(ev, c) == [ev |-> ev, to |-> c] \in mail \/ ev \in Range(buf[c])

(* README.md: events are the fast path and the pull at hello makes up for  *)
(* the time without a connection. Nothing falls between the two: what a    *)
(* client with an open connection has not, is on its way to it.            *)
NothingBetween ==
  \A c \in greeted \ closed, n \in DOMAIN clips :
    \/ clips[n] = DeviceOf[c]
    \/ n \in known[c] \/ n \in unpublished \/ Coming(ClipCreated(n), c)

(* Where a list of devices is wrong about who is online, an event that     *)
(* puts it right is to come, however connections of one device follow each *)
(* other (Add and Remove tell first and last; events may be out of order). *)
PresenceToCome ==
  \A c \in Conn \ closed :
    \A shown \in view[c], d \in Device \ {DeviceOf[c]} :
      ~(d \in shown <=> d \in Online) =>
        \E x \in Conn : /\ DeviceOf[x] = d
                        /\ pc[x] \in {"announce", "farewell"} \/ Coming(Presence(x), c)

(* shared/API.md: revoking a device closes its active connections. It does *)
(* so but for connections that reached the hub after CloseDevice had       *)
(* looked: their access token had been accepted before the revocation.     *)
OnlyLateStay ==
  \A c \in (stale \cap hub) \ late : c \in closed \/ stage[DeviceOf[c]] # "none"

(* Every clip reaches every greeted connection of the other devices, or    *)
(* the connection ends.                                                    *)
ClipsArrive ==
  \A c \in Conn, n \in 1..MaxClips :
    (c \in greeted /\ n \in DOMAIN clips /\ clips[n] # DeviceOf[c])
      ~> (n \in known[c] \/ c \notin greeted \/ c \in closed)
=============================================================================
