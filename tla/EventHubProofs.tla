--------------------------- MODULE EventHubProofs ---------------------------
(***************************************************************************)
(* Proofs about EventHub, for any number of devices, connections and       *)
(* clips and any capacity of the channels.                                 *)
(*                                                                         *)
(* What carries them: only a connection whose handler has opened it, and   *)
(* which is in the hub for as long, has a client that was greeted or shown *)
(* a list (Opened), and an event about a clip is about one that was        *)
(* committed (Committed).                                                  *)
(***************************************************************************)
EXTENDS EventHub, TLAPS

(* The hub holds the connections whose handler is between Add and Remove.  *)
Opened ==
  \A c \in Conn :
    /\ pc[c] \in {"announce", "hello", "open"} <=> c \in hub
    /\ c \in greeted \/ view[c] # {} => pc[c] = "open"

(* Events about clips are about committed ones.                            *)
Committed ==
  /\ \A m \in mail : m.ev.type = "clip" => m.ev.of \in DOMAIN clips
  /\ \A c \in Conn : \A ev \in Range(buf[c]) : ev.type = "clip" => ev.of \in DOMAIN clips

IInv == TypeOK /\ Opened /\ Committed /\ NothingBetween /\ PresenceToCome /\ OnlyLateStay

-----------------------------------------------------------------------------
(* What a channel holds after a send.                                      *)
LEMMA AfterAppend ==
  ASSUME NEW S, NEW q \in Seq(S), NEW x \in S
  PROVE  Range(Append(q, x)) = Range(q) \union {x}
<1>1. \A i \in DOMAIN q : i \in DOMAIN Append(q, x) /\ Append(q, x)[i] = q[i]
  OBVIOUS
<1>2. Len(q) + 1 \in DOMAIN Append(q, x) /\ Append(q, x)[Len(q) + 1] = x
  OBVIOUS
<1>3. \A i \in DOMAIN Append(q, x) : i \in DOMAIN q \/ i = Len(q) + 1
  OBVIOUS
<1>4. \A y \in Range(q) \union {x} : y \in Range(Append(q, x))
  BY <1>1, <1>2 DEF Range
<1>5. ASSUME NEW y \in Range(Append(q, x)) PROVE y \in Range(q) \union {x}
  <2>1. PICK i \in DOMAIN Append(q, x) : y = Append(q, x)[i]
    BY <1>5 DEF Range
  <2>2. CASE i \in DOMAIN q
    BY <1>1, <2>1, <2>2 DEF Range
  <2>3. CASE i = Len(q) + 1
    BY <1>2, <2>1, <2>3
  <2>4. QED
    BY <1>3, <2>1, <2>2, <2>3
<1>6. QED
  BY <1>4, <1>5

(* What a channel holds after a receive.                                   *)
LEMMA AfterTail ==
  ASSUME NEW S, NEW q \in Seq(S), q # <<>>
  PROVE  /\ Head(q) \in Range(q) /\ Range(Tail(q)) \subseteq Range(q)
         /\ Range(q) \subseteq Range(Tail(q)) \union {Head(q)}
<1>1. 1 \in DOMAIN q /\ Head(q) = q[1]
  OBVIOUS
<1>2. \A i \in DOMAIN Tail(q) : i + 1 \in DOMAIN q /\ Tail(q)[i] = q[i + 1]
  OBVIOUS
<1>3. \A i \in DOMAIN q : i = 1 \/ (i - 1 \in DOMAIN Tail(q) /\ Tail(q)[i - 1] = q[i])
  OBVIOUS
<1>4. Head(q) \in Range(q) /\ Range(Tail(q)) \subseteq Range(q)
  BY <1>1, <1>2 DEF Range
<1>5. ASSUME NEW y \in Range(q) PROVE y \in Range(Tail(q)) \union {Head(q)}
  <2>1. PICK i \in DOMAIN q : y = q[i]
    BY <1>5 DEF Range
  <2>2. QED
    BY <1>1, <1>3, <2>1 DEF Range
<1>6. QED
  BY <1>4, <1>5

(* The type invariant holds in every reachable state.                      *)
LEMMA TypeStep ==
  ASSUME TypeOK, Opened, Committed, [Next]_vars
  PROVE  TypeOK'
<1> USE HubAssumption DEF TypeOK, client, requests, history
<1>1. ASSUME NEW c \in Conn, Authenticate(c) PROVE TypeOK'
  BY <1>1 DEF Authenticate, Goto
<1>2. ASSUME NEW c \in Conn, Add(c) PROVE TypeOK'
  BY <1>2 DEF Add, Goto
<1>3. ASSUME NEW c \in Conn, Announce(c) PROVE TypeOK'
  BY <1>3 DEF Announce, Goto, Publish, Event, Published, Presence
<1>4. ASSUME NEW c \in Conn, Hello(c) PROVE TypeOK'
  BY <1>4 DEF Hello, Goto, Event
<1>5. ASSUME NEW c \in Conn, Remove(c) PROVE TypeOK'
  BY <1>5 DEF Remove, Goto, Gone
<1>6. ASSUME NEW c \in Conn, Farewell(c) PROVE TypeOK'
  BY <1>6 DEF Farewell, Goto, Publish, Event, Published, Presence
<1>7. ASSUME NEW c \in Conn, Deliver(c) PROVE TypeOK'
  <2>1. buf[c] # <<>> /\ buf' = [buf EXCEPT ![c] = Tail(@)]
    BY <1>7 DEF Deliver
  <2>2. Tail(buf[c]) \in Seq(Event) /\ Len(Tail(buf[c])) <= SendCap
    BY <2>1
  <2>3. buf' \in [Conn -> Seq(Event)] /\ \A x \in Conn : Len(buf'[x]) <= SendCap
    BY <2>1, <2>2
  <2>4. Head(buf[c]) \in Range(buf[c])
    BY <2>1, AfterTail
  <2>5. Head(buf[c]).type = "clip" => Head(buf[c]).of \in DOMAIN clips
    BY <2>4 DEF Committed
  <2>6. known' \in [Conn -> SUBSET DOMAIN clips] /\ greeted' \subseteq Conn
    BY <1>7, <2>5 DEF Deliver
  <2>7. Online \subseteq Device
    BY DEF Online
  <2>8. view' \in [Conn -> SUBSET SUBSET Device]
    BY <1>7, <2>7 DEF Deliver
  <2>9. QED
    BY <1>7, <2>3, <2>6, <2>8 DEF Deliver
<1>8. ASSUME NEW c \in Conn, OpenList(c) PROVE TypeOK'
  BY <1>8 DEF OpenList, Online
<1>9. ASSUME NEW c \in Conn, HangUp(c) PROVE TypeOK'
  BY <1>9 DEF HangUp
<1>10. ASSUME NEW m \in mail, Send(m) PROVE TypeOK'
  <2>1. m.to \in Conn /\ m.ev \in Event
    OBVIOUS
  <2>2. Len(buf[m.to]) < SendCap =>
          Append(buf[m.to], m.ev) \in Seq(Event) /\ Len(Append(buf[m.to], m.ev)) <= SendCap
    BY <2>1
  <2>3. \/ UNCHANGED buf
        \/ Len(buf[m.to]) < SendCap /\ buf' = [buf EXCEPT ![m.to] = Append(@, m.ev)]
    BY <1>10 DEF Send
  <2>4. buf' \in [Conn -> Seq(Event)] /\ \A x \in Conn : Len(buf'[x]) <= SendCap
    <3>1. CASE UNCHANGED buf
      BY <3>1
    <3>2. CASE Len(buf[m.to]) < SendCap /\ buf' = [buf EXCEPT ![m.to] = Append(@, m.ev)]
      BY <2>1, <2>2, <3>2
    <3>3. QED
      BY <2>3, <3>1, <3>2
  <2>5. closed' \subseteq Conn
    BY <1>10, <2>1 DEF Send
  <2>6. QED
    BY <1>10, <2>4, <2>5 DEF Send
<1>11. ASSUME NEW n \in unpublished, PublishClip(n) PROVE TypeOK'
  BY <1>11 DEF PublishClip, Publish, Event, Published, ClipCreated
<1>12. ASSUME NEW d \in Device, CreateClip(d) PROVE TypeOK'
  BY <1>12 DEF CreateClip
<1>13. ASSUME NEW d \in Device, RevokeDevice(d) PROVE TypeOK'
  BY <1>13 DEF RevokeDevice, EndSession
<1>14. ASSUME NEW d \in Device, Logout(d) PROVE TypeOK'
  BY <1>14 DEF Logout, EndSession
<1>15. ASSUME NEW d \in Device, PublishRevoked(d) PROVE TypeOK'
  BY <1>15 DEF PublishRevoked, Publish, Event, Published, Revoked
<1>16. ASSUME NEW d \in Device, CloseDevice(d) PROVE TypeOK'
  BY <1>16 DEF CloseDevice, Connections
<1>17. ASSUME NEW d \in Device, Login(d) PROVE TypeOK'
  BY <1>17 DEF Login
<1>18. CASE UNCHANGED vars
  BY <1>18 DEF vars
<1>19. QED
  BY <1>1, <1>2, <1>3, <1>4, <1>5, <1>6, <1>7, <1>8, <1>9, <1>10, <1>11,
     <1>12, <1>13, <1>14, <1>15, <1>16, <1>17, <1>18 DEF Next, Handle

(* Handlers, hub and clients go together.                                  *)
LEMMA OpenedStep ==
  ASSUME TypeOK, Opened, [Next]_vars
  PROVE  Opened'
<1> USE HubAssumption DEF TypeOK, Opened, client, requests, history
<1>1. ASSUME NEW c \in Conn, Authenticate(c) PROVE Opened'
  BY <1>1 DEF Authenticate, Goto
<1>2. ASSUME NEW c \in Conn, Add(c) PROVE Opened'
  BY <1>2 DEF Add, Goto
<1>3. ASSUME NEW c \in Conn, Announce(c) PROVE Opened'
  BY <1>3 DEF Announce, Goto
<1>4. ASSUME NEW c \in Conn, Hello(c) PROVE Opened'
  BY <1>4 DEF Hello, Goto
<1>5. ASSUME NEW c \in Conn, Remove(c) PROVE Opened'
  BY <1>5 DEF Remove, Goto, Gone
<1>6. ASSUME NEW c \in Conn, Farewell(c) PROVE Opened'
  BY <1>6 DEF Farewell, Goto
<1>7. ASSUME NEW c \in Conn, Deliver(c) PROVE Opened'
  BY <1>7 DEF Deliver
<1>8. ASSUME NEW c \in Conn, OpenList(c) PROVE Opened'
  BY <1>8 DEF OpenList
<1>9. ASSUME NEW c \in Conn, HangUp(c) PROVE Opened'
  BY <1>9 DEF HangUp
<1>10. ASSUME NEW m \in mail, Send(m) PROVE Opened'
  BY <1>10 DEF Send
<1>11. ASSUME NEW n \in unpublished, PublishClip(n) PROVE Opened'
  BY <1>11 DEF PublishClip
<1>12. ASSUME NEW d \in Device, CreateClip(d) PROVE Opened'
  BY <1>12 DEF CreateClip
<1>13. ASSUME NEW d \in Device, RevokeDevice(d) PROVE Opened'
  BY <1>13 DEF RevokeDevice, EndSession
<1>14. ASSUME NEW d \in Device, Logout(d) PROVE Opened'
  BY <1>14 DEF Logout, EndSession
<1>15. ASSUME NEW d \in Device, PublishRevoked(d) PROVE Opened'
  BY <1>15 DEF PublishRevoked
<1>16. ASSUME NEW d \in Device, CloseDevice(d) PROVE Opened'
  BY <1>16 DEF CloseDevice
<1>17. ASSUME NEW d \in Device, Login(d) PROVE Opened'
  BY <1>17 DEF Login
<1>18. CASE UNCHANGED vars
  BY <1>18 DEF vars
<1>19. QED
  BY <1>1, <1>2, <1>3, <1>4, <1>5, <1>6, <1>7, <1>8, <1>9, <1>10, <1>11,
     <1>12, <1>13, <1>14, <1>15, <1>16, <1>17, <1>18 DEF Next, Handle

(* Events are about committed clips.                                       *)
LEMMA CommittedStep ==
  ASSUME TypeOK, Committed, [Next]_vars
  PROVE  Committed'
<1> USE HubAssumption DEF TypeOK, Committed, client, requests, history
<1>1. ASSUME NEW c \in Conn, Authenticate(c) PROVE Committed'
  BY <1>1 DEF Authenticate, Goto
<1>2. ASSUME NEW c \in Conn, Add(c) PROVE Committed'
  BY <1>2 DEF Add, Goto
<1>3. ASSUME NEW c \in Conn, Announce(c) PROVE Committed'
  BY <1>3 DEF Announce, Goto, Publish, Presence
<1>4. ASSUME NEW c \in Conn, Hello(c) PROVE Committed'
  <2>1. /\ UNCHANGED <<mail, clips>> /\ buf' = [buf EXCEPT ![c] = Append(@, [type |-> "hello", of |-> c])]
    BY <1>4 DEF Hello
  <2>2. [type |-> "hello", of |-> c] \in Event
    BY DEF Event
  <2>3. Range(buf'[c]) = Range(buf[c]) \union {[type |-> "hello", of |-> c]}
    BY <2>1, <2>2, AfterAppend
  <2>4. QED
    BY <2>1, <2>3
<1>5. ASSUME NEW c \in Conn, Remove(c) PROVE Committed'
  BY SMTT(60), <1>5 DEF Remove, Goto, Gone, Range
<1>6. ASSUME NEW c \in Conn, Farewell(c) PROVE Committed'
  BY <1>6 DEF Farewell, Goto, Publish, Presence
<1>7. ASSUME NEW c \in Conn, Deliver(c) PROVE Committed'
  <2>1. /\ UNCHANGED <<mail, clips>> /\ buf[c] # <<>> /\ buf' = [buf EXCEPT ![c] = Tail(@)]
    BY <1>7 DEF Deliver
  <2>2. Range(Tail(buf[c])) \subseteq Range(buf[c])
    BY <2>1, AfterTail
  <2>3. QED
    BY <2>1, <2>2
<1>8. ASSUME NEW c \in Conn, OpenList(c) PROVE Committed'
  BY <1>8 DEF OpenList
<1>9. ASSUME NEW c \in Conn, HangUp(c) PROVE Committed'
  BY <1>9 DEF HangUp
<1>10. ASSUME NEW m \in mail, Send(m) PROVE Committed'
  <2>1. m.to \in Conn /\ m.ev \in Event /\ mail' = mail \ {m} /\ clips' = clips
    BY <1>10 DEF Send
  <2>2. buf' = buf \/ buf' = [buf EXCEPT ![m.to] = Append(@, m.ev)]
    BY <1>10 DEF Send
  <2>3. Range(Append(buf[m.to], m.ev)) = Range(buf[m.to]) \union {m.ev}
    BY <2>1, AfterAppend
  <2>4. QED
    BY <2>1, <2>2, <2>3
<1>11. ASSUME NEW n \in unpublished, PublishClip(n) PROVE Committed'
  BY <1>11 DEF PublishClip, Publish, ClipCreated
<1>12. ASSUME NEW d \in Device, CreateClip(d) PROVE Committed'
  BY <1>12 DEF CreateClip
<1>13. ASSUME NEW d \in Device, RevokeDevice(d) PROVE Committed'
  BY <1>13 DEF RevokeDevice, EndSession
<1>14. ASSUME NEW d \in Device, Logout(d) PROVE Committed'
  BY <1>14 DEF Logout, EndSession
<1>15. ASSUME NEW d \in Device, PublishRevoked(d) PROVE Committed'
  BY <1>15 DEF PublishRevoked, Publish, Revoked
<1>16. ASSUME NEW d \in Device, CloseDevice(d) PROVE Committed'
  BY <1>16 DEF CloseDevice
<1>17. ASSUME NEW d \in Device, Login(d) PROVE Committed'
  BY <1>17 DEF Login
<1>18. CASE UNCHANGED vars
  BY <1>18 DEF vars
<1>19. QED
  BY <1>1, <1>2, <1>3, <1>4, <1>5, <1>6, <1>7, <1>8, <1>9, <1>10, <1>11,
     <1>12, <1>13, <1>14, <1>15, <1>16, <1>17, <1>18 DEF Next, Handle

(* Nothing falls between the pull at hello and the events.                 *)
LEMMA NothingStep ==
  ASSUME TypeOK, Opened, Committed, NothingBetween, [Next]_vars
  PROVE  NothingBetween'
<1> USE HubAssumption DEF TypeOK, Opened, NothingBetween, Coming, client, requests, history
<1>1. ASSUME NEW c \in Conn, Authenticate(c) PROVE NothingBetween'
  BY <1>1 DEF Authenticate, Goto
<1>2. ASSUME NEW c \in Conn, Add(c) PROVE NothingBetween'
  BY <1>2 DEF Add, Goto
<1>3. ASSUME NEW c \in Conn, Announce(c) PROVE NothingBetween'
  BY <1>3 DEF Announce, Goto, Publish
<1>4. ASSUME NEW c \in Conn, Hello(c) PROVE NothingBetween'
  BY <1>4 DEF Hello, Goto
<1>5. ASSUME NEW c \in Conn, Remove(c) PROVE NothingBetween'
  BY <1>5 DEF Remove, Goto, Gone
<1>6. ASSUME NEW c \in Conn, Farewell(c) PROVE NothingBetween'
  BY <1>6 DEF Farewell, Goto, Publish
<1>7. ASSUME NEW c \in Conn, Deliver(c) PROVE NothingBetween'
  <2>1. /\ UNCHANGED <<mail, clips, closed, unpublished>>
        /\ buf[c] # <<>> /\ buf' = [buf EXCEPT ![c] = Tail(@)]
    BY <1>7 DEF Deliver
  <2>2. Range(buf[c]) \subseteq Range(Tail(buf[c])) \union {Head(buf[c])}
    BY <2>1, AfterTail
  <2>3. CASE Head(buf[c]).type = "hello"
    <3>1. greeted' = greeted \union {c} /\ known' = [known EXCEPT ![c] = DOMAIN clips]
      BY <1>7, <2>3 DEF Deliver
    <3>2. QED
      BY <2>1, <3>1
  <2>4. CASE Head(buf[c]).type = "clip"
    <3>1. greeted' = greeted /\ known' = [known EXCEPT ![c] = @ \union {Head(buf[c]).of}]
      BY <1>7, <2>4 DEF Deliver
    <3>2. \A n \in DOMAIN clips : Head(buf[c]) = ClipCreated(n) => n \in known'[c]
      BY <3>1 DEF ClipCreated
    <3>3. QED
      BY <2>1, <2>2, <3>1, <3>2
  <2>5. CASE Head(buf[c]).type \notin {"hello", "clip"}
    <3>1. greeted' = greeted /\ known' = known
      BY <1>7, <2>5 DEF Deliver
    <3>2. \A n : ClipCreated(n).type = "clip"
      BY DEF ClipCreated
    <3>3. QED
      BY <2>1, <2>2, <2>5, <3>1, <3>2
  <2>6. QED
    BY <2>3, <2>4, <2>5
<1>8. ASSUME NEW c \in Conn, OpenList(c) PROVE NothingBetween'
  BY <1>8 DEF OpenList
<1>9. ASSUME NEW c \in Conn, HangUp(c) PROVE NothingBetween'
  BY <1>9 DEF HangUp
<1>10. ASSUME NEW m \in mail, Send(m) PROVE NothingBetween'
  <2>1. /\ m.to \in Conn /\ m.ev \in Event /\ mail' = mail \ {m} /\ closed \subseteq closed'
        /\ UNCHANGED <<clips, unpublished, greeted, known>>
    BY <1>10 DEF Send
  <2>2. m.to \in greeted \ closed' => buf' = [buf EXCEPT ![m.to] = Append(@, m.ev)]
    BY <1>10 DEF Send
  <2>3. Range(Append(buf[m.to], m.ev)) = Range(buf[m.to]) \union {m.ev}
    BY <2>1, AfterAppend
  <2>4. \A c \in Conn : c # m.to => buf'[c] = buf[c]
    BY <1>10 DEF Send
  <2>5. ASSUME NEW c \in greeted \ closed', NEW ev, Coming(ev, c) PROVE Coming(ev, c)'
    <3>1. CASE ev \in Range(buf[c])
      <4>1. ev \in Range(buf'[c])
        BY <2>1, <2>2, <2>3, <2>4, <2>5, <3>1
      <4>2. QED
        BY <4>1
    <3>2. CASE [ev |-> ev, to |-> c] \in mail
      <4>1. CASE m = [ev |-> ev, to |-> c]
        <5>1. m.to = c /\ m.ev = ev
          BY <4>1
        <5>2. buf'[c] = Append(buf[c], ev)
          BY <2>1, <2>2, <2>5, <5>1
        <5>3. ev \in Range(buf'[c])
          BY <2>3, <5>1, <5>2
        <5>4. QED
          BY <5>3
      <4>2. CASE m # [ev |-> ev, to |-> c]
        BY <2>1, <3>2, <4>2
      <4>3. QED
        BY <4>1, <4>2
    <3>3. QED
      BY <2>5, <3>1, <3>2
  <2>6. \A c \in greeted \ closed', n \in DOMAIN clips :
          Coming(ClipCreated(n), c) => Coming(ClipCreated(n), c)'
    BY <2>5
  <2>7. QED
    BY <2>1, <2>6
<1>11. ASSUME NEW n \in unpublished, PublishClip(n) PROVE NothingBetween'
  BY ZenonT(60), <1>11 DEF PublishClip, Publish, Connections
<1>12. ASSUME NEW d \in Device, CreateClip(d) PROVE NothingBetween'
  BY <1>12 DEF CreateClip
<1>13. ASSUME NEW d \in Device, RevokeDevice(d) PROVE NothingBetween'
  BY <1>13 DEF RevokeDevice, EndSession
<1>14. ASSUME NEW d \in Device, Logout(d) PROVE NothingBetween'
  BY <1>14 DEF Logout, EndSession
<1>15. ASSUME NEW d \in Device, PublishRevoked(d) PROVE NothingBetween'
  BY <1>15 DEF PublishRevoked, Publish
<1>16. ASSUME NEW d \in Device, CloseDevice(d) PROVE NothingBetween'
  BY <1>16 DEF CloseDevice
<1>17. ASSUME NEW d \in Device, Login(d) PROVE NothingBetween'
  BY <1>17 DEF Login
<1>18. CASE UNCHANGED vars
  BY <1>18 DEF vars
<1>19. QED
  BY <1>1, <1>2, <1>3, <1>4, <1>5, <1>6, <1>7, <1>8, <1>9, <1>10, <1>11,
     <1>12, <1>13, <1>14, <1>15, <1>16, <1>17, <1>18 DEF Next, Handle

-----------------------------------------------------------------------------
\* An event about a connection of d is to come to c.
Righted(c, d) ==
  \E x \in Conn : DeviceOf[x] = d /\ (pc[x] \in {"announce", "farewell"} \/ Coming(Presence(x), c))

(* What is shown stays as wrong or right as it was.                        *)
LEMMA Steady ==
  ASSUME PresenceToCome, NEW c \in Conn \ closed, NEW d \in Device \ {DeviceOf[c]},
         NEW shown \in view[c],
         d \in Online' <=> d \in Online, Righted(c, d) => Righted(c, d)'
  PROVE  ~(d \in shown <=> d \in Online') => Righted(c, d)'
BY DEF PresenceToCome, Righted

(* A list that is wrong is put right.                                      *)
LEMMA PresenceStep ==
  ASSUME TypeOK, Opened, PresenceToCome, [Next]_vars
  PROVE  PresenceToCome'
<1> USE HubAssumption
<1> SUFFICES ASSUME NEW c \in Conn, c \notin closed', NEW shown \in view'[c],
                    NEW d \in Device \ {DeviceOf[c]}, ~(d \in shown <=> d \in Online')
             PROVE  Righted(c, d)'
  BY DEF PresenceToCome, Righted
<1>1. ASSUME NEW b \in Conn, Authenticate(b) PROVE Righted(c, d)'
  <2>1. UNCHANGED <<hub, buf, closed, mail, view>> /\ pc[b] = "none" /\ pc' = [pc EXCEPT ![b] = "authed"]
    BY <1>1 DEF Authenticate, Goto, client
  <2>2. Righted(c, d) => Righted(c, d)'
    BY <2>1 DEF Righted, Coming, TypeOK
  <2>3. QED
    BY <2>1, <2>2, Steady DEF Online
<1>2. ASSUME NEW b \in Conn, Add(b) PROVE Righted(c, d)'
  <2>1. /\ UNCHANGED <<buf, closed, mail, view>> /\ pc[b] = "authed" /\ hub' = hub \union {b}
        /\ pc' = [pc EXCEPT ![b] = IF Connections(DeviceOf[b]) = {} THEN "announce" ELSE "hello"]
    BY <1>2 DEF Add, Goto, client
  <2>2. Righted(c, d) => Righted(c, d)'
    BY <2>1 DEF Righted, Coming, TypeOK
  <2>3. CASE d = DeviceOf[b] /\ Connections(d) = {}
    BY <2>1, <2>3 DEF Righted, TypeOK
  <2>4. CASE d # DeviceOf[b] \/ Connections(d) # {}
    <3>1. d \in Online' <=> d \in Online
      BY <2>1, <2>4 DEF Online, Connections
    <3>2. QED
      BY <2>1, <2>2, <3>1, Steady
  <2>5. QED
    BY <2>3, <2>4
<1>3. ASSUME NEW b \in Conn, Announce(b) PROVE Righted(c, d)'
  <2>1. /\ UNCHANGED <<hub, buf, closed, view>> /\ pc' = [pc EXCEPT ![b] = "hello"]
        /\ mail' = mail \union {[ev |-> Presence(b), to |-> x] : x \in hub \ Connections(DeviceOf[b])}
    BY <1>3 DEF Announce, Goto, client, Publish
  <2>2. c \in hub /\ c \notin Connections(d)
    BY <2>1 DEF Opened, Connections, TypeOK
  <2>3. Righted(c, d) => Righted(c, d)'
    BY <2>1, <2>2 DEF Righted, Coming, TypeOK
  <2>4. QED
    BY <2>1, <2>3, Steady DEF Online
<1>4. ASSUME NEW b \in Conn, Hello(b) PROVE Righted(c, d)'
  <2>1. /\ UNCHANGED <<hub, closed, mail, view>> /\ pc[b] = "hello" /\ pc' = [pc EXCEPT ![b] = "open"]
        /\ buf' = [buf EXCEPT ![b] = Append(@, [type |-> "hello", of |-> b])]
    BY <1>4 DEF Hello, Goto, client
  <2>2. c # b
    BY <2>1 DEF Opened
  <2>3. Righted(c, d) => Righted(c, d)'
    BY <2>1, <2>2 DEF Righted, Coming, TypeOK
  <2>4. QED
    BY <2>1, <2>3, Steady DEF Online
<1>5. ASSUME NEW b \in Conn, Remove(b) PROVE Righted(c, d)'
  <2>1. /\ closed' = closed \ {b} /\ hub' = hub \ {b} /\ view' = [view EXCEPT ![b] = {}] /\ UNCHANGED mail
        /\ buf' = [buf EXCEPT ![b] = <<>>] /\ pc[b] = "open"
        /\ pc' = [pc EXCEPT ![b] = IF Connections(DeviceOf[b]) = {b} THEN "farewell" ELSE "none"]
    BY <1>5 DEF Remove, Gone, Goto
  <2>2. c # b /\ c \notin closed /\ shown \in view[c]
    BY <2>1 DEF TypeOK
  <2>3. Righted(c, d) => Righted(c, d)'
    BY <2>1, <2>2 DEF Righted, Coming, TypeOK
  <2>4. CASE d = DeviceOf[b] /\ Connections(d) = {b}
    BY <2>1, <2>4 DEF Righted, TypeOK
  <2>5. CASE d # DeviceOf[b] \/ Connections(d) # {b}
    <3>1. b \in hub
      BY <2>1 DEF Opened
    <3>2. d \in Online' <=> d \in Online
      BY <2>1, <2>5, <3>1 DEF Online, Connections
    <3>3. QED
      BY <2>2, <2>3, <3>2, Steady
  <2>6. QED
    BY <2>4, <2>5
<1>6. ASSUME NEW b \in Conn, Farewell(b) PROVE Righted(c, d)'
  <2>1. /\ UNCHANGED <<hub, buf, closed, view>> /\ pc' = [pc EXCEPT ![b] = "none"]
        /\ mail' = mail \union {[ev |-> Presence(b), to |-> x] : x \in hub \ Connections(DeviceOf[b])}
    BY <1>6 DEF Farewell, Goto, client, Publish
  <2>2. c \in hub /\ c \notin Connections(d)
    BY <2>1 DEF Opened, Connections, TypeOK
  <2>3. Righted(c, d) => Righted(c, d)'
    BY <2>1, <2>2 DEF Righted, Coming, TypeOK
  <2>4. QED
    BY <2>1, <2>3, Steady DEF Online
<1>7. ASSUME NEW b \in Conn, Deliver(b) PROVE Righted(c, d)'
  <2>1. /\ UNCHANGED <<hub, pc, closed, mail>> /\ buf[b] # <<>> /\ buf' = [buf EXCEPT ![b] = Tail(@)]
        /\ view' = IF Head(buf[b]).type \in {"presence", "revoked"}
                   THEN [view EXCEPT ![b] = {Online}] ELSE view
    BY <1>7 DEF Deliver
  <2>2. Online' = Online
    BY <2>1 DEF Online
  <2>3. ~(b = c /\ Head(buf[b]).type \in {"presence", "revoked"})
    BY <2>1, <2>2 DEF TypeOK
  <2>4. shown \in view[c]
    BY <2>1, <2>3 DEF TypeOK
  <2>5. Range(buf[b]) \subseteq Range(Tail(buf[b])) \union {Head(buf[b])}
    BY <2>1, AfterTail DEF TypeOK
  <2>6. b = c => \A x \in Conn : Presence(x) # Head(buf[b])
    BY <2>3 DEF Presence
  <2>7. Righted(c, d) => Righted(c, d)'
    BY <2>1, <2>5, <2>6 DEF Righted, Coming, TypeOK
  <2>8. QED
    BY <2>1, <2>2, <2>4, <2>7, Steady
<1>8. ASSUME NEW b \in Conn, OpenList(b) PROVE Righted(c, d)'
  <2>1. UNCHANGED <<hub, pc, closed, mail, buf>> /\ view' = [view EXCEPT ![b] = {Online}]
    BY <1>8 DEF OpenList
  <2>2. Online' = Online
    BY <2>1 DEF Online
  <2>3. c # b /\ shown \in view[c]
    BY <2>1, <2>2 DEF TypeOK
  <2>4. QED
    BY <2>1, <2>2, <2>3, Steady DEF Righted, Coming
<1>9. ASSUME NEW b \in Conn, HangUp(b) PROVE Righted(c, d)'
  <2>1. UNCHANGED <<hub, pc, buf, view>> /\ mail \subseteq mail' /\ closed \subseteq closed'
    BY <1>9 DEF HangUp, client
  <2>2. QED
    BY <2>1, Steady DEF Online, Righted, Coming
<1>10. ASSUME NEW m \in mail, Send(m) PROVE Righted(c, d)'
  <2>1. UNCHANGED <<hub, pc, view>> /\ mail' = mail \ {m} /\ closed \subseteq closed'
    BY <1>10 DEF Send, client
  <2>2. pc[c] = "open"
    BY <2>1 DEF Opened
  <2>3. m.to = c => buf' = [buf EXCEPT ![c] = Append(@, m.ev)]
    BY <1>10, <2>2 DEF Send
  <2>4. m.to # c => buf'[c] = buf[c]
    BY <1>10 DEF Send, TypeOK
  <2>5. m.ev \in Event
    BY DEF TypeOK
  <2>6. ASSUME m.to = c PROVE Range(buf'[c]) = Range(buf[c]) \union {m.ev}
    <3>1. buf[c] \in Seq(Event) /\ buf'[c] = Append(buf[c], m.ev)
      BY <2>3, <2>6 DEF TypeOK
    <3>2. QED
      BY <2>5, <3>1, AfterAppend
  <2>7. Righted(c, d) => Righted(c, d)'
    BY <2>1, <2>4, <2>6 DEF Righted, Coming
  <2>8. QED
    BY <2>1, <2>7, Steady DEF Online
<1>11. ASSUME NEW n \in unpublished, PublishClip(n) PROVE Righted(c, d)'
  <2>1. UNCHANGED <<hub, pc, buf, view>> /\ mail \subseteq mail' /\ closed \subseteq closed'
    BY <1>11 DEF PublishClip, client, Publish
  <2>2. QED
    BY <2>1, Steady DEF Online, Righted, Coming
<1>12. ASSUME NEW g \in Device, CreateClip(g) PROVE Righted(c, d)'
  <2>1. UNCHANGED <<hub, pc, buf, view>> /\ mail \subseteq mail' /\ closed \subseteq closed'
    BY <1>12 DEF CreateClip, client
  <2>2. QED
    BY <2>1, Steady DEF Online, Righted, Coming
<1>13. ASSUME NEW g \in Device, RevokeDevice(g) PROVE Righted(c, d)'
  <2>1. UNCHANGED <<hub, pc, buf, view>> /\ mail \subseteq mail' /\ closed \subseteq closed'
    BY <1>13 DEF RevokeDevice, EndSession, client
  <2>2. QED
    BY <2>1, Steady DEF Online, Righted, Coming
<1>14. ASSUME NEW g \in Device, Logout(g) PROVE Righted(c, d)'
  <2>1. UNCHANGED <<hub, pc, buf, view>> /\ mail \subseteq mail' /\ closed \subseteq closed'
    BY <1>14 DEF Logout, EndSession, client
  <2>2. QED
    BY <2>1, Steady DEF Online, Righted, Coming
<1>15. ASSUME NEW g \in Device, PublishRevoked(g) PROVE Righted(c, d)'
  <2>1. UNCHANGED <<hub, pc, buf, view>> /\ mail \subseteq mail' /\ closed \subseteq closed'
    BY <1>15 DEF PublishRevoked, client, Publish
  <2>2. QED
    BY <2>1, Steady DEF Online, Righted, Coming
<1>16. ASSUME NEW g \in Device, CloseDevice(g) PROVE Righted(c, d)'
  <2>1. UNCHANGED <<hub, pc, buf, view>> /\ mail \subseteq mail' /\ closed \subseteq closed'
    BY <1>16 DEF CloseDevice, client
  <2>2. QED
    BY <2>1, Steady DEF Online, Righted, Coming
<1>17. ASSUME NEW g \in Device, Login(g) PROVE Righted(c, d)'
  <2>1. UNCHANGED <<hub, pc, buf, view>> /\ mail \subseteq mail' /\ closed \subseteq closed'
    BY <1>17 DEF Login, client
  <2>2. QED
    BY <2>1, Steady DEF Online, Righted, Coming
<1>18. CASE UNCHANGED vars
  <2>1. UNCHANGED <<hub, pc, buf, view>> /\ mail \subseteq mail' /\ closed \subseteq closed'
    BY <1>18 DEF vars, client
  <2>2. QED
    BY <2>1, Steady DEF Online, Righted, Coming
<1>19. QED
  BY <1>1, <1>2, <1>3, <1>4, <1>5, <1>6, <1>7, <1>8, <1>9,
     <1>10, <1>11, <1>12, <1>13, <1>14, <1>15, <1>16, <1>17, <1>18 DEF Next, Handle

(* Only late connections survive a revocation.                             *)
LEMMA LateStep ==
  ASSUME TypeOK, Opened, OnlyLateStay, [Next]_vars
  PROVE  OnlyLateStay'
<1> USE HubAssumption DEF TypeOK, Opened, OnlyLateStay, Connections, client, requests, history
<1>1. ASSUME NEW c \in Conn, Authenticate(c) PROVE OnlyLateStay'
  BY <1>1 DEF Authenticate, Goto
<1>2. ASSUME NEW c \in Conn, Add(c) PROVE OnlyLateStay'
  BY <1>2 DEF Add, Goto
<1>3. ASSUME NEW c \in Conn, Announce(c) PROVE OnlyLateStay'
  BY <1>3 DEF Announce, Goto
<1>4. ASSUME NEW c \in Conn, Hello(c) PROVE OnlyLateStay'
  BY <1>4 DEF Hello, Goto
<1>5. ASSUME NEW c \in Conn, Remove(c) PROVE OnlyLateStay'
  BY <1>5 DEF Remove, Goto, Gone
<1>6. ASSUME NEW c \in Conn, Farewell(c) PROVE OnlyLateStay'
  BY <1>6 DEF Farewell, Goto
<1>7. ASSUME NEW c \in Conn, Deliver(c) PROVE OnlyLateStay'
  BY <1>7 DEF Deliver
<1>8. ASSUME NEW c \in Conn, OpenList(c) PROVE OnlyLateStay'
  BY <1>8 DEF OpenList
<1>9. ASSUME NEW c \in Conn, HangUp(c) PROVE OnlyLateStay'
  BY <1>9 DEF HangUp
<1>10. ASSUME NEW m \in mail, Send(m) PROVE OnlyLateStay'
  BY <1>10 DEF Send
<1>11. ASSUME NEW n \in unpublished, PublishClip(n) PROVE OnlyLateStay'
  BY <1>11 DEF PublishClip
<1>12. ASSUME NEW d \in Device, CreateClip(d) PROVE OnlyLateStay'
  BY <1>12 DEF CreateClip
<1>13. ASSUME NEW d \in Device, RevokeDevice(d) PROVE OnlyLateStay'
  BY <1>13 DEF RevokeDevice, EndSession
<1>14. ASSUME NEW d \in Device, Logout(d) PROVE OnlyLateStay'
  BY <1>14 DEF Logout, EndSession
<1>15. ASSUME NEW d \in Device, PublishRevoked(d) PROVE OnlyLateStay'
  BY <1>15 DEF PublishRevoked
<1>16. ASSUME NEW d \in Device, CloseDevice(d) PROVE OnlyLateStay'
  BY <1>16 DEF CloseDevice
<1>17. ASSUME NEW d \in Device, Login(d) PROVE OnlyLateStay'
  BY <1>17 DEF Login
<1>18. CASE UNCHANGED vars
  BY <1>18 DEF vars
<1>19. QED
  BY <1>1, <1>2, <1>3, <1>4, <1>5, <1>6, <1>7, <1>8, <1>9, <1>10, <1>11,
     <1>12, <1>13, <1>14, <1>15, <1>16, <1>17, <1>18 DEF Next, Handle

-----------------------------------------------------------------------------
(* IInv is an inductive invariant.                                         *)
LEMMA Inductive ==
  Spec => []IInv
<1>1. Init => IInv
  <2>1. ASSUME Init PROVE TypeOK
    BY <2>1, HubAssumption DEF Init, TypeOK
  <2>2. ASSUME Init PROVE Opened /\ Committed /\ NothingBetween /\ PresenceToCome /\ OnlyLateStay
    BY <2>2 DEF Init, Opened, Committed, NothingBetween, PresenceToCome, OnlyLateStay, Range
  <2>3. QED
    BY <2>1, <2>2 DEF IInv
<1>2. IInv /\ [Next]_vars => IInv'
  BY TypeStep, OpenedStep, CommittedStep, NothingStep, PresenceStep, LateStep DEF IInv
<1>3. QED
  BY <1>1, <1>2, PTL DEF Spec

(* The hub, the channels and what the clients know keep their types; no    *)
(* channel holds more than its capacity (Hub, Client.Send).                *)
THEOREM HubTypes ==
  Spec => []TypeOK
<1>1. IInv => TypeOK
  BY DEF IInv
<1>2. QED
  BY <1>1, Inductive, PTL

(* Between the pull at hello and the events no clip is lost to an open     *)
(* connection (eventsWebSocket, Publish), for any number of them.          *)
THEOREM NothingFallsBetween ==
  Spec => []NothingBetween
<1>1. IInv => NothingBetween
  BY DEF IInv
<1>2. QED
  BY <1>1, Inductive, PTL

(* A list of devices that is wrong will be put right, however connections  *)
(* come and go (Add, Remove, Publish).                                     *)
THEOREM PresencePutRight ==
  Spec => []PresenceToCome
<1>1. IInv => PresenceToCome
  BY DEF IInv
<1>2. QED
  BY <1>1, Inductive, PTL

(* A revocation leaves no connection but those that reached the hub after  *)
(* CloseDevice had looked.                                                 *)
THEOREM OnlyLateConnectionsStay ==
  Spec => []OnlyLateStay
<1>1. IInv => OnlyLateStay
  BY DEF IInv
<1>2. QED
  BY <1>1, Inductive, PTL
=============================================================================
