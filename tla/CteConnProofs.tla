---------------------------- MODULE CteConnProofs ----------------------------
(***************************************************************************)
(* Proofs about CteConn, for every set of tags and handles, every number   *)
(* of connections, every allowlist, and every number of faults and         *)
(* configurations.                                                         *)
(***************************************************************************)
EXTENDS CteConn, HostLemmas

-----------------------------------------------------------------------------
(* The invariant.                                                          *)

(* A connection that is not free is with a tag, no tag has two of them,    *)
(* and GATT procedures run on open ones.                                   *)
LinksInv(l) ==
  /\ \A h \in Handle : /\ l[h].state = "free" <=> l[h].peer = NoTag
                       /\ l[h].gatt # "none" => l[h].state = "open"
  /\ \A g, h \in Handle : g # h /\ l[g].peer # NoTag => l[g].peer # l[h].peer

(* The tag each handle is of, as the co-processor sees it.                 *)
ViewOf(l) == [h \in Handle |-> IF l[h].state = "open" THEN l[h].peer ELSE NoTag]

(* The database, the events under way and the connection table agree.      *)
Agreed == Agree(Handle, Tag, NoTag, db, evq, ViewOf(link))

BaseInv == TypeOK /\ LinksInv(link) /\ Agreed

(* What a discovery has found is followed by its completion.               *)
Completes(q) ==
  \A i \in DOMAIN q : q[i].type \in {"service", "characteristic"} =>
    /\ i + 1 \in DOMAIN q
    /\ q[i + 1].type = "completed"
    /\ q[i + 1].handle = q[i].handle

(* The events upon which the handler starts the next procedure.            *)
Step == {"opened", "completed"}

EntryIs(d, h, s) == \E i \in DOMAIN d : d[i].handle = h /\ d[i].connection_state = s

(* The walk of one tag: the next step is a procedure or an event under     *)
(* way, never both, and there is one until the tag is RUNNING.  A handle   *)
(* that is connecting has no event left from its last connection, and an   *)
(* open one has not been closed since.                                     *)
WalkOf(h) ==
  /\ link[h].state = "pending" => ~InUse(h)
  /\ link[h].state = "open" =>
       /\ ~About(evq, {"closed"}, h)
       /\ AtMostOne(evq, Step, h)
       /\ About(evq, Step, h) => link[h].gatt = "none"
       /\ About(evq, Step, h) \/ link[h].gatt # "none" => ~EntryIs(db, h, "RUNNING")
       /\ alive => About(evq, Step, h) \/ link[h].gatt # "none" \/ EntryIs(db, h, "RUNNING")
       /\ failures = 0 =>
            /\ EntryIs(db, h, "ENABLE_CTE") /\ About(evq, Step, h) => link[h].enabled
            /\ EntryIs(db, h, "ENABLE_CTE") /\ link[h].gatt # "none" => link[h].gatt = "write"
            /\ EntryIs(db, h, "RUNNING") => link[h].enabled /\ link[h].cte

WalkInv == Completes(evq) /\ (~reused => \A h \in Handle : WalkOf(h))

Inv == BaseInv /\ ScannerNeverStranded /\ WalkInv

-----------------------------------------------------------------------------
(* Events and connections.                                                 *)

BootEvent == [type |-> "boot"]

LEMMA MessageFields ==
  /\ \A m \in Message :
       /\ m.type \in HandleEventType => m.handle \in Handle /\ m.tag \in Tag
       /\ m.type = "scan_report" => m.tag \in Tag
       /\ m.type \in HandleEventType \cup {"scan_report", "boot"}
  /\ BootEvent \in Message /\ BootEvent.type = "boot"
  /\ \A t \in Tag : [type |-> "scan_report", tag |-> t] \in Message
  /\ \A type \in HandleEventType, h \in Handle, t \in Tag : Event(type, h, t) \in Message
<1>1. \A m \in [type : {"scan_report"}, tag : Tag] : m.type = "scan_report" /\ m.tag \in Tag
  OBVIOUS
<1>2. \A m \in [type : HandleEventType, handle : Handle, tag : Tag] :
        m.type \in HandleEventType /\ m.handle \in Handle /\ m.tag \in Tag
  OBVIOUS
<1>3. \A m \in [type : {"boot"}] : m.type = "boot"
  OBVIOUS
<1>4. "boot" \notin HandleEventType /\ "scan_report" \notin HandleEventType
  BY DEF HandleEventType
<1>5. \A m \in Message : \/ m \in [type : {"scan_report"}, tag : Tag]
                         \/ m \in [type : HandleEventType, handle : Handle, tag : Tag]
                         \/ m \in [type : {"boot"}]
  BY DEF Message
<1>6. ASSUME NEW m \in Message
      PROVE  /\ m.type \in HandleEventType => m.handle \in Handle /\ m.tag \in Tag
             /\ m.type = "scan_report" => m.tag \in Tag
             /\ m.type \in HandleEventType \cup {"scan_report", "boot"}
  <2>1. CASE m \in [type : {"scan_report"}, tag : Tag]
    BY <1>1, <1>4, <2>1
  <2>2. CASE m \in [type : HandleEventType, handle : Handle, tag : Tag]
    BY <1>2, <1>4, <2>2
  <2>3. CASE m \in [type : {"boot"}]
    BY <1>3, <1>4, <2>3
  <2>4. QED
    BY <1>5, <2>1, <2>2, <2>3
<1>7. BootEvent \in Message /\ BootEvent.type = "boot"
  BY DEF BootEvent, Message
<1>8. \A t \in Tag : [type |-> "scan_report", tag |-> t] \in Message
  BY DEF Message
<1>9. \A type \in HandleEventType, h \in Handle, t \in Tag : Event(type, h, t) \in Message
  BY DEF Message, Event
<1>10. QED
  BY <1>6, <1>7, <1>8, <1>9

LEMMA EventFields ==
  ASSUME NEW type, NEW h, NEW t
  PROVE  /\ Event(type, h, t).type = type
         /\ Event(type, h, t).handle = h
         /\ Event(type, h, t).tag = t
  BY DEF Event

(* The handles of the events in the queue.                                 *)
LEMMA QueueHandles ==
  ASSUME NEW q \in Seq(Message)
  PROVE  \A i \in DOMAIN q : q[i].type \in HandleEventType => q[i].handle \in Handle
<1>1. \A i \in DOMAIN q : q[i] \in Message
  BY ElementOfSeq, LenProperties
<1>2. QED
  BY <1>1, MessageFields

LEMMA InUseIsAbout ==
  ASSUME NEW h
  PROVE  InUse(h) <=> About(evq, HandleEventType, h)
  BY DEF InUse, About

(* What the connections become.                                            *)
LEMMA LinkFields ==
  ASSUME NEW l \in Link
  PROVE  /\ l.state \in {"free", "pending", "open"} /\ l.peer \in Tag \cup {NoTag}
         /\ l.gatt \in GattProcedure /\ l.enabled \in BOOLEAN /\ l.cte \in BOOLEAN
         /\ [l EXCEPT !.state = "open"] \in Link
         /\ \A p \in GattProcedure : [l EXCEPT !.gatt = p] \in Link
         /\ \A b \in BOOLEAN : [l EXCEPT !.gatt = "none", !.enabled = b] \in Link
         /\ [l EXCEPT !.cte = TRUE] \in Link
  BY DEF Link, GattProcedure

LEMMA NewLinkFields ==
  ASSUME NEW state \in {"free", "pending", "open"}, NEW peer \in Tag \cup {NoTag}
  PROVE  /\ NewLink(state, peer) \in Link
         /\ NewLink(state, peer).state = state
         /\ NewLink(state, peer).peer = peer
         /\ NewLink(state, peer).gatt = "none"
  BY DEF NewLink, Link, GattProcedure

LEMMA FreeLinkFields ==
  /\ FreeLink \in Link /\ FreeLink.state = "free" /\ FreeLink.peer = NoTag
  /\ FreeLink.gatt = "none"
  BY NewLinkFields DEF FreeLink

(* Only the procedure, or what it has enabled, changes on one connection.  *)
SameLinks ==
  \A h \in Handle : link'[h].state = link[h].state /\ link'[h].peer = link[h].peer

LEMMA SameLinksSameView ==
  ASSUME SameLinks
  PROVE  ViewOf(link') = ViewOf(link)
  BY DEF SameLinks, ViewOf

LEMMA ViewType ==
  ASSUME NEW l \in [Handle -> Link]
  PROVE  ViewOf(l) \in ViewsOf(Handle, Tag, NoTag) /\ DOMAIN ViewOf(l) = Handle
<1>1. \A h \in Handle : l[h].peer \in Tag \cup {NoTag}
  BY LinkFields
<1>2. QED
  BY <1>1 DEF ViewOf, ViewsOf

-----------------------------------------------------------------------------
(* The types and the agreement, step by step.                              *)

(* An event that changes no view leaves the agreement as it is.            *)
LEMMA AgreeTold ==
  ASSUME NEW q \in Seq(Message), NEW e \in Message, NEW d, NEW u,
         u \in ViewsOf(Handle, Tag, NoTag),
         Agree(Handle, Tag, NoTag, d, q, u),
         e.type \notin {"opened", "closed"},
         e.type # "scan_report" => u[e.handle] = e.tag
  PROVE  Agree(Handle, Tag, NoTag, d, Append(q, e), u)
<1>1. Fits(u, e, NoTag) /\ After(u, e, NoTag) = u
  BY DEF Fits, After, Tells
<1>2. QED
  BY <1>1, AgreeEmitted

LEMMA AdvertiseBase ==
  ASSUME BaseInv, UNCHANGED hostVars, NEW t \in Tag, Advertise(t)
  PROVE  /\ BaseInv' /\ scanning' = scanning /\ link' = link /\ reused' = reused
         /\ failures' = failures
         /\ \E e \in Message : e.type = "scan_report" /\ evq' = Append(evq, e)
<1> DEFINE e == [type |-> "scan_report", tag |-> t]
<1>1. /\ UNCHANGED <<scanning, link, drops, failures, reused>>
      /\ evq' = evq \o <<e>> /\ evq \in Seq(Message) /\ link \in [Handle -> Link]
      /\ UNCHANGED <<alive, allowlist, db, connections_unavailable, configs>>
  BY DEF BaseInv, TypeOK, NcpTypeOK, Advertise, Emit, hostVars
<1>2. e \in Message /\ e.type = "scan_report"
  BY MessageFields
<1> HIDE DEF e
<1>3. evq' = Append(evq, e) /\ evq' \in Seq(Message)
  BY <1>1, <1>2, JoinedIsAppended, AppendProperties
<1>4. TypeOK'
  BY <1>1, <1>3 DEF BaseInv, TypeOK, NcpTypeOK
<1>5. LinksInv(link') /\ ViewOf(link') = ViewOf(link)
  BY <1>1 DEF BaseInv, LinksInv, ViewOf
<1>6. Agreed'
  BY <1>1, <1>2, <1>3, <1>5, AgreeTold, ViewType DEF BaseInv, Agreed
<1>7. QED
  BY <1>1, <1>2, <1>3, <1>4, <1>5, <1>6 DEF BaseInv

LEMMA SampleCteBase ==
  ASSUME BaseInv, UNCHANGED hostVars, NEW h \in Handle, SampleCte(h)
  PROVE  /\ BaseInv' /\ scanning' = scanning /\ link' = link /\ reused' = reused
         /\ failures' = failures
         /\ link[h].state = "open"
         /\ \E e \in Message : e.type = "iq_report" /\ e.handle = h /\ evq' = Append(evq, e)
<1> DEFINE e == Event("iq_report", h, link[h].peer)
<1>1. /\ UNCHANGED <<scanning, link, drops, failures, reused>>
      /\ link[h].state = "open" /\ evq' = evq \o <<e>> /\ evq \in Seq(Message)
      /\ link \in [Handle -> Link]
      /\ UNCHANGED <<alive, allowlist, db, connections_unavailable, configs>>
  BY DEF BaseInv, TypeOK, NcpTypeOK, SampleCte, Emit, hostVars
<1>2. link[h].peer \in Tag
  BY <1>1, LinkFields DEF BaseInv, LinksInv
<1>3. e \in Message /\ e.type = "iq_report" /\ e.handle = h /\ e.tag = link[h].peer
  BY <1>2, MessageFields, EventFields DEF HandleEventType
<1> HIDE DEF e
<1>4. evq' = Append(evq, e) /\ evq' \in Seq(Message)
  BY <1>1, <1>3, JoinedIsAppended, AppendProperties
<1>5. TypeOK'
  BY <1>1, <1>4 DEF BaseInv, TypeOK, NcpTypeOK
<1>6. LinksInv(link') /\ ViewOf(link') = ViewOf(link) /\ ViewOf(link)[h] = link[h].peer
  BY <1>1 DEF BaseInv, LinksInv, ViewOf
<1>7. Agreed'
  BY <1>1, <1>3, <1>4, <1>6, AgreeTold, ViewType DEF BaseInv, Agreed
<1>8. QED
  BY <1>1, <1>3, <1>4, <1>5, <1>6, <1>7 DEF BaseInv

LEMMA EstablishBase ==
  ASSUME BaseInv, UNCHANGED hostVars, NEW h \in Handle, Establish(h)
  PROVE  /\ BaseInv' /\ scanning' = scanning /\ reused' = reused /\ failures' = failures
         /\ link[h].state = "pending" /\ link[h].gatt = "none"
         /\ link' = [link EXCEPT ![h].state = "open"]
         /\ \E e \in Message : e.type = "opened" /\ e.handle = h /\ evq' = Append(evq, e)
<1> DEFINE t == link[h].peer
           e == Event("opened", h, t)
<1>1. /\ UNCHANGED <<scanning, drops, failures, reused>>
      /\ link[h].state = "pending" /\ evq' = evq \o <<e>> /\ evq \in Seq(Message)
      /\ link' = [link EXCEPT ![h].state = "open"]
      /\ link \in [Handle -> Link]
      /\ UNCHANGED <<alive, allowlist, db, connections_unavailable, configs>>
  BY DEF BaseInv, TypeOK, NcpTypeOK, Establish, Emit, hostVars
<1>2. t \in Tag /\ t # NoTag /\ link[h].gatt = "none"
  BY <1>1, LinkFields, NoTagAssumption DEF BaseInv, LinksInv
<1>3. e \in Message /\ e.type = "opened" /\ e.handle = h /\ e.tag = t
  BY <1>2, MessageFields, EventFields DEF HandleEventType
<1> HIDE DEF e
<1>4. evq' = Append(evq, e) /\ evq' \in Seq(Message)
  BY <1>1, <1>3, JoinedIsAppended, AppendProperties
<1>5. /\ link' \in [Handle -> Link]
      /\ link'[h].state = "open" /\ link'[h].peer = t /\ link'[h].gatt = "none"
      /\ \A g \in Handle : g # h => link'[g] = link[g]
  <2>1. [link[h] EXCEPT !.state = "open"] \in Link
    BY <1>1, LinkFields
  <2>2. link'[h] = [link[h] EXCEPT !.state = "open"]
    BY <1>1
  <2>3. link[h] \in Link
    BY <1>1
  <2>4. link'[h].state = "open" /\ link'[h].peer = t /\ link'[h].gatt = link[h].gatt
    BY <2>2, <2>3 DEF Link
  <2>5. QED
    BY <1>1, <1>2, <2>1, <2>4
<1> HIDE DEF t
<1>6. TypeOK'
  BY <1>1, <1>4, <1>5 DEF BaseInv, TypeOK, NcpTypeOK
<1>7. LinksInv(link')
  BY <1>1, <1>2, <1>5 DEF BaseInv, LinksInv, t
<1>8. ViewOf(link') = After(ViewOf(link), e, NoTag)
  BY <1>1, <1>3, <1>5 DEF ViewOf, After
<1>9. Fits(ViewOf(link), e, NoTag)
  <2>1. ViewOf(link)[h] = NoTag
    BY <1>1 DEF ViewOf
  <2>2. \A g \in Handle : ViewOf(link)[g] # t
    BY <1>1, <1>2 DEF ViewOf, BaseInv, LinksInv, t
  <2>3. DOMAIN ViewOf(link) = Handle
    BY DEF ViewOf
  <2>4. QED
    BY <1>3, <2>1, <2>2, <2>3 DEF Fits, Tells
<1>10. Agreed'
  <2>1. ViewOf(link') \in ViewsOf(Handle, Tag, NoTag)
    BY <1>5, ViewType
  <2>2. Agree(Handle, Tag, NoTag, db, Append(evq, e), After(ViewOf(link), e, NoTag))
    BY <1>1, <1>3, <1>8, <1>9, <2>1, AgreeEmitted DEF BaseInv, Agreed
  <2>3. QED
    BY <1>1, <1>4, <1>8, <2>2 DEF Agreed
<1>11. QED
  BY <1>1, <1>2, <1>3, <1>4, <1>6, <1>7, <1>10 DEF BaseInv

LEMMA LoseLinkBase ==
  ASSUME BaseInv, UNCHANGED hostVars, NEW h \in Handle, LoseLink(h)
  PROVE  /\ BaseInv' /\ scanning' = scanning /\ reused' = reused /\ failures' = failures
         /\ link' = [link EXCEPT ![h] = FreeLink]
         /\ \E e \in Message : e.type = "closed" /\ e.handle = h /\ evq' = Append(evq, e)
<1> DEFINE t == link[h].peer
           e == Event("closed", h, t)
<1>1. /\ UNCHANGED <<scanning, failures, reused>>
      /\ drops' = drops + 1 /\ drops + failures < MaxFaults
      /\ drops \in 0 .. MaxFaults /\ failures \in 0 .. MaxFaults
      /\ link[h].state # "free" /\ evq' = evq \o <<e>> /\ evq \in Seq(Message)
      /\ link' = [link EXCEPT ![h] = FreeLink]
      /\ link \in [Handle -> Link]
      /\ UNCHANGED <<alive, allowlist, db, connections_unavailable, configs>>
  BY DEF BaseInv, TypeOK, NcpTypeOK, LoseLink, Emit, hostVars
<1>2. t \in Tag
  BY <1>1, LinkFields DEF BaseInv, LinksInv
<1>3. e \in Message /\ e.type = "closed" /\ e.handle = h /\ e.tag = t
  BY <1>2, MessageFields, EventFields DEF HandleEventType
<1> HIDE DEF e
<1>4. evq' = Append(evq, e) /\ evq' \in Seq(Message)
  BY <1>1, <1>3, JoinedIsAppended, AppendProperties
<1>5. /\ link' \in [Handle -> Link] /\ link'[h] = FreeLink
      /\ \A g \in Handle : g # h => link'[g] = link[g]
  BY <1>1, FreeLinkFields
<1>6. drops' \in 0 .. MaxFaults
  BY <1>1, BoundsAssumption
<1>7. TypeOK'
  BY <1>1, <1>4, <1>5, <1>6 DEF BaseInv, TypeOK, NcpTypeOK
<1>8. LinksInv(link')
  BY <1>1, <1>5, FreeLinkFields DEF BaseInv, LinksInv
<1>9. ViewOf(link') = After(ViewOf(link), e, NoTag)
  BY <1>1, <1>3, <1>5, FreeLinkFields DEF ViewOf, After
<1>10. Fits(ViewOf(link), e, NoTag)
  <2>1. ViewOf(link)[h] \in {NoTag, t}
    BY DEF ViewOf
  <2>2. QED
    BY <1>3, <2>1 DEF Fits, Tells
<1>11. Agreed'
  <2>1. ViewOf(link') \in ViewsOf(Handle, Tag, NoTag)
    BY <1>5, ViewType
  <2>2. Agree(Handle, Tag, NoTag, db, Append(evq, e), After(ViewOf(link), e, NoTag))
    BY <1>1, <1>3, <1>9, <1>10, <2>1, AgreeEmitted DEF BaseInv, Agreed
  <2>3. QED
    BY <1>1, <1>4, <1>9, <2>2 DEF Agreed
<1>12. QED
  BY <1>1, <1>3, <1>4, <1>7, <1>8, <1>11 DEF BaseInv

(* A procedure ends: the completion comes last, after what was found.      *)
LEMMA CompleteGattBase ==
  ASSUME BaseInv, UNCHANGED hostVars, NEW h \in Handle, CompleteGatt(h)
  PROVE  /\ BaseInv' /\ scanning' = scanning /\ reused' = reused /\ failures' = failures
         /\ link[h].state = "open" /\ link[h].gatt # "none"
         /\ SameLinks /\ \A g \in Handle : g # h => link'[g] = link[g]
         /\ link'[h].gatt = "none"
         /\ link'[h].enabled = (link[h].enabled \/ link[h].gatt = "write")
         /\ link'[h].cte = link[h].cte
         /\ \E c \in Message :
              /\ c.type = "completed" /\ c.handle = h
              /\ \/ evq' = Append(evq, c)
                 \/ \E e \in Message : /\ e.type \in {"service", "characteristic"} /\ e.handle = h
                                       /\ evq' = Append(Append(evq, e), c)
<1> DEFINE t == link[h].peer
           c == Event("completed", h, t)
           s == Event("service", h, t)
           f == Event("characteristic", h, t)
           p == link[h].gatt
<1>1. /\ UNCHANGED <<scanning, drops, failures, reused>>
      /\ p # "none"
      /\ link' = [link EXCEPT ![h].gatt = "none", ![h].enabled = @ \/ link[h].gatt = "write"]
      /\ link \in [Handle -> Link] /\ evq \in Seq(Message)
      /\ UNCHANGED <<alive, allowlist, db, connections_unavailable, configs>>
  BY DEF BaseInv, TypeOK, NcpTypeOK, CompleteGatt, hostVars
<1>2. link[h] \in Link /\ p \in GattProcedure /\ link[h].state = "open"
  BY <1>1, LinkFields DEF BaseInv, LinksInv
<1>3. t \in Tag
  BY <1>2, LinkFields DEF BaseInv, LinksInv
<1>4. /\ c \in Message /\ c.type = "completed" /\ c.handle = h /\ c.tag = t
      /\ s \in Message /\ s.type = "service" /\ s.handle = h /\ s.tag = t
      /\ f \in Message /\ f.type = "characteristic" /\ f.handle = h /\ f.tag = t
  BY <1>3, MessageFields, EventFields DEF HandleEventType
<1>5. evq' = evq \o Append([services |-> <<s>>, characteristics |-> <<f>>,
                            blind |-> <<>>, write |-> <<>>][p], c)
  BY DEF CompleteGatt, Emit
<1> HIDE DEF c, s, f
<1>6. \/ evq' = Append(evq, c)
      \/ evq' = Append(Append(evq, s), c)
      \/ evq' = Append(Append(evq, f), c)
  <2>1. CASE p = "services"
    <3>1. evq' = evq \o <<s, c>>
      BY <1>5, <2>1
    <3>2. QED
      BY <1>1, <1>4, <3>1, JoinedIsAppended
  <2>2. CASE p = "characteristics"
    <3>1. evq' = evq \o <<f, c>>
      BY <1>5, <2>2
    <3>2. QED
      BY <1>1, <1>4, <3>1, JoinedIsAppended
  <2>3. CASE p \in {"blind", "write"}
    <3>1. evq' = evq \o <<c>>
      BY <1>5, <2>3
    <3>2. QED
      BY <1>1, <1>4, <3>1, JoinedIsAppended
  <2>4. QED
    BY <1>1, <1>2, <2>1, <2>2, <2>3 DEF GattProcedure
<1>7. /\ link' \in [Handle -> Link]
      /\ link'[h].state = "open" /\ link'[h].peer = t /\ link'[h].gatt = "none"
      /\ link'[h].enabled = (link[h].enabled \/ p = "write")
      /\ link'[h].cte = link[h].cte
      /\ \A g \in Handle : g # h => link'[g] = link[g]
  <2> DEFINE b == link[h].enabled \/ link[h].gatt = "write"
  <2>1. b \in BOOLEAN
    BY <1>2, LinkFields
  <2>2. link'[h] = [link[h] EXCEPT !.gatt = "none", !.enabled = b]
    BY <1>1
  <2> HIDE DEF b
  <2>3. link'[h] \in Link
    BY <1>2, <2>1, <2>2 DEF Link, GattProcedure
  <2>4. /\ link'[h].state = link[h].state /\ link'[h].peer = t /\ link'[h].gatt = "none"
        /\ link'[h].enabled = b /\ link'[h].cte = link[h].cte
    BY <1>2, <2>2 DEF Link
  <2>5. \A g \in Handle : g # h => link'[g] = link[g]
    BY <1>1
  <2>6. link' \in [Handle -> Link]
    BY <1>1, <2>3, <2>5
  <2>7. QED
    BY <1>2, <2>4, <2>5, <2>6 DEF b
<1>8. SameLinks
  BY <1>2, <1>7 DEF SameLinks
<1>9. ViewOf(link') = ViewOf(link) /\ ViewOf(link) \in ViewsOf(Handle, Tag, NoTag)
      /\ ViewOf(link)[h] = t
  BY <1>1, <1>2, <1>8, SameLinksSameView, ViewType DEF ViewOf
<1> HIDE DEF t
<1>10. Agree(Handle, Tag, NoTag, db, evq, ViewOf(link))
  BY DEF BaseInv, Agreed
<1>11. ASSUME NEW e \in {s, f}
       PROVE  /\ Append(evq, e) \in Seq(Message)
              /\ Agree(Handle, Tag, NoTag, db, Append(evq, e), ViewOf(link))
  BY <1>1, <1>4, <1>9, <1>10, <1>11, AgreeTold, AppendProperties
<1>12. ASSUME NEW q \in Seq(Message), Agree(Handle, Tag, NoTag, db, q, ViewOf(link))
       PROVE  /\ Append(q, c) \in Seq(Message)
              /\ Agree(Handle, Tag, NoTag, db, Append(q, c), ViewOf(link))
  BY <1>4, <1>9, <1>12, AgreeTold, AppendProperties
<1>13. evq' \in Seq(Message) /\ Agree(Handle, Tag, NoTag, db, evq', ViewOf(link))
  BY <1>1, <1>6, <1>10, <1>11, <1>12
<1>14. TypeOK' /\ Agreed'
  BY <1>1, <1>7, <1>9, <1>13 DEF BaseInv, TypeOK, NcpTypeOK, Agreed
<1>15. LinksInv(link')
  BY <1>7, <1>8 DEF BaseInv, LinksInv, SameLinks
<1>16. QED
  BY <1>1, <1>2, <1>4, <1>6, <1>7, <1>8, <1>14, <1>15 DEF BaseInv

LEMMA FailGattBase ==
  ASSUME BaseInv, UNCHANGED hostVars, NEW h \in Handle, FailGatt(h)
  PROVE  /\ BaseInv' /\ scanning' = scanning /\ reused' = reused /\ failures' # 0
         /\ link[h].state = "open" /\ link[h].gatt # "none"
         /\ SameLinks /\ \A g \in Handle : g # h => link'[g] = link[g]
         /\ link'[h].gatt = "none"
         /\ \E c \in Message : c.type = "completed" /\ c.handle = h /\ evq' = Append(evq, c)
<1> DEFINE t == link[h].peer
           c == Event("completed", h, t)
<1>1. /\ UNCHANGED <<scanning, drops, reused>>
      /\ failures' = failures + 1 /\ drops + failures < MaxFaults
      /\ drops \in 0 .. MaxFaults /\ failures \in 0 .. MaxFaults
      /\ link[h].gatt # "none" /\ evq' = evq \o <<c>>
      /\ link' = [link EXCEPT ![h].gatt = "none"]
      /\ link \in [Handle -> Link] /\ evq \in Seq(Message)
      /\ UNCHANGED <<alive, allowlist, db, connections_unavailable, configs>>
  BY DEF BaseInv, TypeOK, NcpTypeOK, FailGatt, Emit, hostVars
<1>2. link[h] \in Link /\ link[h].state = "open" /\ t \in Tag
  BY <1>1, LinkFields DEF BaseInv, LinksInv
<1>3. c \in Message /\ c.type = "completed" /\ c.handle = h /\ c.tag = t
  BY <1>2, MessageFields, EventFields DEF HandleEventType
<1> HIDE DEF c
<1>4. evq' = Append(evq, c) /\ evq' \in Seq(Message)
  BY <1>1, <1>3, JoinedIsAppended, AppendProperties
<1>5. /\ link' \in [Handle -> Link]
      /\ link'[h].state = "open" /\ link'[h].peer = t /\ link'[h].gatt = "none"
      /\ \A g \in Handle : g # h => link'[g] = link[g]
  <2>1. link'[h] = [link[h] EXCEPT !.gatt = "none"]
    BY <1>1
  <2>2. link'[h] \in Link
    BY <1>2, <2>1, LinkFields DEF GattProcedure
  <2>3. link'[h].state = link[h].state /\ link'[h].peer = t /\ link'[h].gatt = "none"
    BY <1>2, <2>1 DEF Link
  <2>4. QED
    BY <1>1, <1>2, <2>2, <2>3
<1>6. SameLinks
  BY <1>2, <1>5 DEF SameLinks
<1>7. ViewOf(link') = ViewOf(link) /\ ViewOf(link) \in ViewsOf(Handle, Tag, NoTag)
      /\ ViewOf(link)[h] = t
  BY <1>1, <1>2, <1>6, SameLinksSameView, ViewType DEF ViewOf
<1>8. failures' \in 0 .. MaxFaults /\ failures' # 0
  BY <1>1, BoundsAssumption
<1>9. TypeOK'
  BY <1>1, <1>4, <1>5, <1>8 DEF BaseInv, TypeOK, NcpTypeOK
<1>10. Agreed'
  BY <1>1, <1>3, <1>4, <1>7, AgreeTold DEF BaseInv, Agreed
<1>11. LinksInv(link')
  BY <1>5, <1>6 DEF BaseInv, LinksInv, SameLinks
<1>12. QED
  BY <1>1, <1>2, <1>3, <1>4, <1>5, <1>6, <1>8, <1>9, <1>10, <1>11 DEF BaseInv

(* After a reset nothing is connected and nothing but boot events is under *)
(* way.                                                                    *)
LEMMA ResetBase ==
  ASSUME NEW l, NEW q, l = [h \in Handle |-> FreeLink], q \in Seq({BootEvent})
  PROVE  /\ l \in [Handle -> Link] /\ q \in Seq(Message) /\ LinksInv(l)
         /\ Agree(Handle, Tag, NoTag, <<>>, q, ViewOf(l))
         /\ \A i \in DOMAIN q : q[i].type = "boot"
<1>1. l \in [Handle -> Link] /\ \A h \in Handle : l[h] = FreeLink
  BY FreeLinkFields
<1>2. LinksInv(l)
  BY <1>1, FreeLinkFields DEF LinksInv
<1>3. {BootEvent} \subseteq Message
  BY MessageFields
<1>4. q \in Seq(Message)
  BY <1>3, SeqMonotonic
<1>5. \A i \in DOMAIN q : q[i].type = "boot"
  <2>1. \A i \in DOMAIN q : q[i] \in {BootEvent}
    BY ElementOfSeq, LenProperties
  <2>2. QED
    BY <2>1, MessageFields
<1> DEFINE v == [h \in Handle |-> NoTag]
<1>6. ViewOf(l) = v
  BY <1>1, FreeLinkFields DEF ViewOf
<1>7. v \in ViewsOf(Handle, Tag, NoTag)
  BY DEF ViewsOf
<1>8. Shows(<<>>, v, NoTag) /\ Distinct(v, NoTag)
  BY ShowsNothing
<1> HIDE DEF v
<1>9. Follows(ViewsOf(Handle, Tag, NoTag), NoTag, v, q, v)
  BY <1>4, <1>5, <1>7, FollowsNothing
<1>10. QED
  BY <1>1, <1>2, <1>4, <1>5, <1>6, <1>7, <1>8, <1>9 DEF Agree

LEMMA BootQueues ==
  /\ <<BootEvent>> \in Seq({BootEvent}) /\ <<BootEvent, BootEvent>> \in Seq({BootEvent})
  /\ \E i \in DOMAIN <<BootEvent>> : <<BootEvent>>[i] = BootEvent
  /\ \E i \in DOMAIN <<BootEvent, BootEvent>> : <<BootEvent, BootEvent>>[i] = BootEvent
<1> DEFINE S == {BootEvent}
<1>1. BootEvent \in S
  OBVIOUS
<1> HIDE DEF S
<1>2. <<BootEvent>> \in Seq(S) /\ <<BootEvent, BootEvent>> \in Seq(S)
  BY <1>1
<1>3. DOMAIN <<BootEvent>> = 1 .. 1 /\ <<BootEvent>>[1] = BootEvent
  OBVIOUS
<1>4. DOMAIN <<BootEvent, BootEvent>> = 1 .. 2 /\ <<BootEvent, BootEvent>>[1] = BootEvent
  OBVIOUS
<1>5. 1 \in 1 .. 1 /\ 1 \in 1 .. 2
  OBVIOUS
<1>6. QED
  BY <1>2, <1>3, <1>4, <1>5 DEF S

LEMMA ConfigMessageBase ==
  ASSUME BaseInv, ConfigMessage
  PROVE  /\ BaseInv' /\ BootPending'
         /\ \A h \in Handle : link'[h] = FreeLink
         /\ \A i \in DOMAIN evq' : evq'[i].type = "boot"
<1>1. /\ configs < MaxConfigs /\ configs' = configs + 1 /\ allowlist' \in Allowlists
      /\ db' = <<>> /\ scanning' = FALSE /\ reused' = FALSE
      /\ link' = [h \in Handle |-> FreeLink]
      /\ UNCHANGED <<drops, failures, alive, connections_unavailable>>
      /\ evq' = <<BootEvent>> \/ evq' = <<BootEvent, BootEvent>>
  BY DEF ConfigMessage, Reset, BootEvent
<1>2. evq' \in Seq({BootEvent}) /\ \E i \in DOMAIN evq' : evq'[i] = BootEvent
  BY <1>1, BootQueues
<1>3. /\ link' \in [Handle -> Link] /\ evq' \in Seq(Message)
      /\ LinksInv(link') /\ Agreed'
      /\ \A i \in DOMAIN evq' : evq'[i].type = "boot"
  BY <1>1, <1>2, ResetBase DEF Agreed
<1>4. configs' \in 0 .. MaxConfigs
  BY <1>1, MaxConfigsAssumption DEF BaseInv, TypeOK
<1>5. allowlist' \in Seq(Tag) /\ db' \in Seq(Entry(Handle, Tag))
  BY <1>1, AllowlistsAssumption, EmptySeq
<1>6. TypeOK'
  BY <1>1, <1>3, <1>4, <1>5 DEF BaseInv, TypeOK, NcpTypeOK
<1>7. BootPending'
  BY <1>2 DEF BootPending, BootEvent
<1>8. QED
  BY <1>1, <1>3, <1>6, <1>7 DEF BaseInv

LEMMA BaseInitially ==
  ASSUME Init
  PROVE  /\ BaseInv /\ BootPending
         /\ \A h \in Handle : link[h] = FreeLink
         /\ \A i \in DOMAIN evq : evq[i].type = "boot"
<1>1. /\ scanning = FALSE /\ link = [h \in Handle |-> FreeLink] /\ evq = <<BootEvent>>
      /\ drops = 0 /\ failures = 0 /\ reused = FALSE
      /\ alive = TRUE /\ allowlist \in Allowlists /\ db = <<>>
      /\ connections_unavailable = FALSE /\ configs = 0
  BY DEF Init, NcpInit, BootEvent
<1>2. evq \in Seq({BootEvent}) /\ \E i \in DOMAIN evq : evq[i] = BootEvent
  BY <1>1, BootQueues
<1>3. /\ link \in [Handle -> Link] /\ evq \in Seq(Message)
      /\ LinksInv(link) /\ Agreed
      /\ \A i \in DOMAIN evq : evq[i].type = "boot"
  BY <1>1, <1>2, ResetBase DEF Agreed
<1>4. 0 \in 0 .. MaxFaults /\ 0 \in 0 .. MaxConfigs
  BY BoundsAssumption, MaxConfigsAssumption
<1>5. allowlist \in Seq(Tag) /\ db \in Seq(Entry(Handle, Tag))
  BY <1>1, AllowlistsAssumption, EmptySeq
<1>6. TypeOK
  BY <1>1, <1>3, <1>4, <1>5 DEF TypeOK, NcpTypeOK
<1>7. BootPending
  BY <1>2 DEF BootPending, BootEvent
<1>8. QED
  BY <1>1, <1>3, <1>6, <1>7 DEF BaseInv

-----------------------------------------------------------------------------
(* What the handler finds and changes.                                     *)

LEMMA Received ==
  ASSUME TypeOK, NEW type, Receive(type)
  PROVE  /\ alive /\ evq \in Seq(Message) /\ evq # <<>>
         /\ evq' = Tail(evq) /\ evq' \in Seq(Message)
         /\ Head(evq) \in Message /\ Head(evq).type = type
         /\ type \in HandleEventType => Head(evq).handle \in Handle /\ Head(evq).tag \in Tag
         /\ type = "scan_report" => Head(evq).tag \in Tag
         /\ UNCHANGED <<allowlist, configs, drops, failures>>
<1>1. /\ alive /\ evq \in Seq(Message) /\ evq # <<>>
      /\ evq' = Tail(evq) /\ Head(evq).type = type
      /\ UNCHANGED <<allowlist, configs, drops, failures>>
  BY DEF Receive, TypeOK, NcpTypeOK
<1>2. Tail(evq) \in Seq(Message) /\ Head(evq) \in Message
  BY <1>1, TailPositions
<1>3. QED
  BY <1>1, <1>2, MessageFields

(* The entry an event is about is the one of its tag.                      *)
LEMMA HeadIsOf ==
  ASSUME BaseInv, evq # <<>>, Head(evq).type \in HandleEventType \ {"opened"}
  PROVE  LET i == GetTagByHandle(db, Head(evq).handle)
         IN  /\ i # 0 => /\ i \in DOMAIN db
                         /\ db[i].handle = Head(evq).handle
                         /\ db[i].address = Head(evq).tag
             /\ Head(evq).type # "closed" => i # 0
<1> DEFINE e == Head(evq)
           i == GetTagByHandle(db, e.handle)
<1>1. evq \in Seq(Message) /\ db \in Seq(Entry(Handle, Tag)) /\ Agree(Handle, Tag, NoTag, db, evq, ViewOf(link))
  BY DEF BaseInv, TypeOK, NcpTypeOK, Agreed
<1>2. e.handle \in Handle /\ e.tag \in Tag
  BY <1>1, TailPositions, MessageFields
<1>3. PICK v \in ViewsOf(Handle, Tag, NoTag) : Shows(db, v, NoTag) /\ Fits(v, e, NoTag)
  BY <1>1, AgreeTaken
<1>4. e.handle \in DOMAIN v
  BY <1>2 DEF ViewsOf
<1>5. /\ i # 0 => /\ i \in DOMAIN db /\ db[i].handle = e.handle
                  /\ db[i].address = v[e.handle] /\ v[e.handle] # NoTag
      /\ i = 0 => v[e.handle] = NoTag
  BY <1>1, <1>3, <1>4, ShowsLookup
<1> HIDE DEF i
<1>6. v[e.handle] \in {NoTag, e.tag} /\ (e.type # "closed" => v[e.handle] = e.tag)
  BY <1>3 DEF Fits, Tells, HandleEventType
<1>7. /\ i # 0 => /\ i \in DOMAIN db /\ db[i].handle = e.handle /\ db[i].address = e.tag
      /\ e.type # "closed" => i # 0
  BY <1>2, <1>5, <1>6, NoTagAssumption
<1>8. QED
  BY <1>7 DEF i, e

(* An event that opens or closes nothing, whatever is written of an entry  *)
(* but its handle and its address.                                         *)
SameTags(d) ==
  /\ DOMAIN d = DOMAIN db
  /\ \A i \in DOMAIN db : d[i].handle = db[i].handle /\ d[i].address = db[i].address

LEMMA TakenAgrees ==
  ASSUME BaseInv, evq # <<>>, evq' = Tail(evq), Head(evq).type \notin {"opened", "closed"},
         ViewOf(link') = ViewOf(link), SameTags(db')
  PROVE  Agreed'
<1>1. evq \in Seq(Message) /\ Agree(Handle, Tag, NoTag, db, evq, ViewOf(link))
  BY DEF BaseInv, TypeOK, NcpTypeOK, Agreed
<1>2. PICK v \in ViewsOf(Handle, Tag, NoTag) :
        /\ Shows(db, v, NoTag) /\ Distinct(v, NoTag)
        /\ Follows(ViewsOf(Handle, Tag, NoTag), NoTag, After(v, Head(evq), NoTag), Tail(evq), ViewOf(link))
  BY <1>1, AgreeTaken
<1>3. After(v, Head(evq), NoTag) = v
  BY DEF After
<1>4. Shows(db', v, NoTag)
  BY <1>2, ShowsWritten DEF SameTags
<1>5. Agree(Handle, Tag, NoTag, db', evq', ViewOf(link'))
  BY <1>2, <1>3, <1>4 DEF Agree
<1>6. QED
  BY <1>5 DEF Agreed

(* An entry that is written keeps its handle and its address.              *)
LEMMA EntryWritten ==
  ASSUME NEW i \in DOMAIN db, db \in Seq(Entry(Handle, Tag)), NEW f \in Entry(Handle, Tag),
         f.handle = db[i].handle, f.address = db[i].address,
         NEW r, r = [db EXCEPT ![i] = f]
  PROVE  /\ r \in Seq(Entry(Handle, Tag)) /\ SameTags(r)
         /\ r[i] = f /\ \A j \in DOMAIN db : j # i => r[j] = db[j]
<1>1. Len(db) \in Nat /\ DOMAIN db = 1 .. Len(db) /\ \A j \in 1 .. Len(db) : db[j] \in Entry(Handle, Tag)
  BY LenProperties, ElementOfSeq
<1>2. r \in [1 .. Len(db) -> Entry(Handle, Tag)]
  BY <1>1
<1>3. r \in Seq(Entry(Handle, Tag))
  BY <1>1, <1>2
<1>4. r[i] = f /\ DOMAIN r = DOMAIN db /\ \A j \in DOMAIN db : j # i => r[j] = db[j]
  BY <1>1
<1>5. SameTags(r)
  BY <1>4 DEF SameTags
<1>6. QED
  BY <1>3, <1>4, <1>5

LEMMA EntryFields ==
  ASSUME NEW f \in Entry(Handle, Tag)
  PROVE  /\ f.connection_state \in ConnectionState
         /\ \A s \in ConnectionState : LET g == [f EXCEPT !.connection_state = s] IN
              /\ g \in Entry(Handle, Tag) /\ g.handle = f.handle /\ g.address = f.address
              /\ g.connection_state = s
         /\ LET g == [f EXCEPT !.cte_service_handle = TRUE] IN
              /\ g \in Entry(Handle, Tag) /\ g.handle = f.handle /\ g.address = f.address
              /\ g.connection_state = f.connection_state
         /\ LET g == [f EXCEPT !.cte_enable_char_handle = TRUE,
                               !.connection_state = "DISCOVER_CHARACTERISTICS"] IN
              /\ g \in Entry(Handle, Tag) /\ g.handle = f.handle /\ g.address = f.address
              /\ g.connection_state = "DISCOVER_CHARACTERISTICS"
  BY DEF Entry, ConnectionState

(* Writing the state of an entry, as the handler does it.                  *)
LEMMA StateWritten ==
  ASSUME db \in Seq(Entry(Handle, Tag)), NEW i \in DOMAIN db, NEW s \in ConnectionState,
         NEW r, r = [db EXCEPT ![i].connection_state = s]
  PROVE  /\ r \in Seq(Entry(Handle, Tag)) /\ SameTags(r)
         /\ r[i].connection_state = s /\ \A j \in DOMAIN db : j # i => r[j] = db[j]
<1> DEFINE f == [db[i] EXCEPT !.connection_state = s]
<1>1. db[i] \in Entry(Handle, Tag)
  BY ElementOfSeq, LenProperties
<1>2. /\ f \in Entry(Handle, Tag) /\ f.handle = db[i].handle /\ f.address = db[i].address
      /\ f.connection_state = s
  BY <1>1, EntryFields
<1>3. r = [db EXCEPT ![i] = f]
  OBVIOUS
<1> HIDE DEF f
<1>4. QED
  BY <1>2, <1>3, EntryWritten

(* A GATT command.                                                         *)
LEMMA GattStarted ==
  ASSUME link \in [Handle -> Link], LinksInv(link),
         NEW h \in Handle, NEW p \in GattProcedure \ {"none"}, StartGatt(h, p)
  PROVE  /\ link' \in [Handle -> Link] /\ LinksInv(link') /\ SameLinks
         /\ alive' = GattReady(h) /\ alive' \in BOOLEAN
         /\ \A g \in Handle : g # h => link'[g] = link[g]
         /\ GattReady(h) => /\ link'[h].gatt = p
                            /\ link'[h].enabled = link[h].enabled
                            /\ link'[h].cte = link[h].cte
         /\ ~GattReady(h) => link' = link
<1>1. alive' = GattReady(h) /\ alive' \in BOOLEAN
  BY DEF StartGatt, Return, GattReady
<1>2. CASE ~GattReady(h)
  <2>1. link' = link
    BY <1>2 DEF StartGatt
  <2>2. QED
    BY <1>1, <1>2, <2>1 DEF SameLinks
<1>3. CASE GattReady(h)
  <2>1. link' = [link EXCEPT ![h].gatt = p] /\ link[h].state = "open" /\ link[h] \in Link
    BY <1>3 DEF StartGatt, GattReady
  <2>2. link'[h] = [link[h] EXCEPT !.gatt = p] /\ \A g \in Handle : g # h => link'[g] = link[g]
    BY <2>1
  <2>3. link'[h] \in Link
    BY <2>1, <2>2, LinkFields
  <2>4. /\ link'[h].state = link[h].state /\ link'[h].peer = link[h].peer /\ link'[h].gatt = p
        /\ link'[h].enabled = link[h].enabled /\ link'[h].cte = link[h].cte
    BY <2>1, <2>2 DEF Link
  <2>5. link' \in [Handle -> Link] /\ SameLinks
    BY <2>1, <2>2, <2>3, <2>4 DEF SameLinks
  <2>6. LinksInv(link')
    BY <2>1, <2>2, <2>5 DEF LinksInv, SameLinks
  <2>7. QED
    BY <1>1, <1>3, <2>2, <2>4, <2>5, <2>6
<1>4. QED
  BY <1>2, <1>3

LEMMA SameTagsHere == SameTags(db)
  BY DEF SameTags

(* An event that changes neither the connections nor the database.         *)
LEMMA NothingElseBase ==
  ASSUME BaseInv, NEW type, type \notin {"opened", "closed"}, Receive(type),
         UNCHANGED <<link, db, connections_unavailable>>,
         scanning' \in BOOLEAN, reused' \in BOOLEAN, alive' \in BOOLEAN
  PROVE  BaseInv'
<1>1. /\ evq # <<>> /\ evq' = Tail(evq) /\ evq' \in Seq(Message) /\ Head(evq).type = type
      /\ UNCHANGED <<allowlist, configs, drops, failures>>
  BY Received DEF BaseInv
<1>2. TypeOK'
  BY <1>1 DEF BaseInv, TypeOK, NcpTypeOK
<1>3. Agreed'
  BY <1>1, TakenAgrees, SameTagsHere
<1>4. QED
  BY <1>2, <1>3 DEF BaseInv

(* A scan report may take a connection that is free.                       *)
LEMMA ScanReportBase ==
  ASSUME BaseInv, ScanReport
  PROVE  /\ BaseInv' /\ alive' = alive /\ db' = db /\ failures' = failures
         /\ \/ link' = link /\ reused' = reused
               /\ (scanning' = scanning \/ AtConnectionLimit)
            \/ /\ ~AtConnectionLimit /\ scanning' = scanning
               /\ \E h \in Handle :
                    /\ link[h].state = "free"
                    /\ \A g \in Handle : g # h => link'[g] = link[g]
                    /\ link'[h].state = "pending"
                    /\ reused' = (reused \/ InUse(h))
<1> DEFINE t == Head(evq).tag
<1>1. /\ evq \in Seq(Message) /\ evq # <<>> /\ evq' = Tail(evq) /\ evq' \in Seq(Message)
      /\ Head(evq).type = "scan_report" /\ t \in Tag
      /\ UNCHANGED <<allowlist, configs, drops, failures, alive, db>>
  BY Received DEF BaseInv, ScanReport
<1>2. /\ link \in [Handle -> Link] /\ LinksInv(link)
      /\ scanning \in BOOLEAN /\ reused \in BOOLEAN /\ connections_unavailable \in BOOLEAN
  BY DEF BaseInv, TypeOK, NcpTypeOK
<1>3. CASE link' = link /\ reused' = reused /\ scanning' \in BOOLEAN
           /\ connections_unavailable' \in BOOLEAN /\ (scanning' = scanning \/ AtConnectionLimit)
  <2>1. TypeOK'
    BY <1>1, <1>2, <1>3 DEF BaseInv, TypeOK, NcpTypeOK
  <2>2. ViewOf(link') = ViewOf(link) /\ SameTags(db')
    BY <1>1, <1>3, SameTagsHere
  <2>3. Agreed'
    BY <1>1, <2>2, TakenAgrees
  <2>4. QED
    BY <1>1, <1>2, <1>3, <2>1, <2>3 DEF BaseInv
<1>4. CASE /\ ~AtConnectionLimit /\ ~Attempted(t)
           /\ \E h \in Handle :
                /\ link[h].state = "free"
                /\ link' = [link EXCEPT ![h] = NewLink("pending", t)]
                /\ reused' = (reused \/ InUse(h))
           /\ UNCHANGED <<scanning, connections_unavailable>>
  <2>1. PICK h \in Handle : /\ link[h].state = "free"
                            /\ link' = [link EXCEPT ![h] = NewLink("pending", t)]
                            /\ reused' = (reused \/ InUse(h))
    BY <1>4
  <2>2. /\ link' \in [Handle -> Link] /\ link'[h].state = "pending" /\ link'[h].peer = t
        /\ link'[h].gatt = "none"
        /\ \A g \in Handle : g # h => link'[g] = link[g]
    BY <1>1, <1>2, <2>1, NewLinkFields
  <2>3. reused' \in BOOLEAN
    BY <1>2, <2>1 DEF InUse
  <2>4. TypeOK'
    BY <1>1, <1>2, <1>4, <2>2, <2>3 DEF BaseInv, TypeOK, NcpTypeOK
  <2>5. t # NoTag
    BY <1>1, NoTagAssumption
  <2>6. \A g \in Handle : link[g].peer # t
    BY <1>2, <1>4, <2>5 DEF LinksInv, Attempted
  <2>7. LinksInv(link')
    BY <1>2, <2>1, <2>2, <2>5, <2>6 DEF LinksInv
  <2>8. ViewOf(link') = ViewOf(link)
    BY <2>1, <2>2 DEF ViewOf
  <2>9. Agreed'
    BY <1>1, <2>8, TakenAgrees, SameTagsHere
  <2>10. QED
    BY <1>1, <1>4, <2>1, <2>2, <2>4, <2>7, <2>9 DEF BaseInv
<1>5. QED
  <2>1. CASE Interesting(Head(evq).tag)
    <3>1. ConnectionOpen(t)
      BY <2>1 DEF ScanReport
    <3>2. QED
      BY <1>2, <1>3, <1>4, <3>1 DEF ConnectionOpen
  <2>2. CASE ~Interesting(Head(evq).tag)
    BY <1>2, <1>3, <2>2 DEF ScanReport
  <2>3. QED
    BY <2>1, <2>2

LEMMA ConnectionOpenedBase ==
  ASSUME BaseInv, ConnectionOpened, UNCHANGED reused
  PROVE  LET h == Head(evq).handle
             e == NewEntry(h, Head(evq).tag)
         IN  /\ BaseInv' /\ scanning' = scanning /\ failures' = failures
             /\ h \in Handle
             /\ SameLinks /\ \A g \in Handle : g # h => link'[g] = link[g]
             /\ alive' = GattReady(h)
             /\ GattReady(h) => link'[h].gatt = "services"
             /\ \A x : In(x, db') <=> In(x, db) \/ x = e
             /\ e.handle = h /\ e.connection_state = "DISCOVER_SERVICES"
             /\ \A x : In(x, db) => x.handle # h
<1> DEFINE h == Head(evq).handle
           t == Head(evq).tag
           e == NewEntry(h, t)
<1>1. /\ evq \in Seq(Message) /\ evq # <<>> /\ evq' = Tail(evq) /\ evq' \in Seq(Message)
      /\ Head(evq).type = "opened" /\ h \in Handle /\ t \in Tag
      /\ UNCHANGED <<allowlist, configs, drops, failures>>
  BY Received DEF BaseInv, ConnectionOpened, HandleEventType
<1>2. /\ db' = AddTag(db, h, t) /\ StartGatt(h, "services")
      /\ UNCHANGED <<scanning, connections_unavailable>>
  BY DEF ConnectionOpened
<1>3. /\ link \in [Handle -> Link] /\ LinksInv(link) /\ db \in Seq(Entry(Handle, Tag))
      /\ Agree(Handle, Tag, NoTag, db, evq, ViewOf(link))
  BY DEF BaseInv, TypeOK, NcpTypeOK, Agreed
<1>4. /\ link' \in [Handle -> Link] /\ LinksInv(link') /\ SameLinks
      /\ alive' = GattReady(h) /\ alive' \in BOOLEAN
      /\ \A g \in Handle : g # h => link'[g] = link[g]
      /\ GattReady(h) => link'[h].gatt = "services"
  BY <1>1, <1>2, <1>3, GattStarted DEF GattProcedure
<1>5. PICK v \in ViewsOf(Handle, Tag, NoTag) :
        /\ Shows(db, v, NoTag) /\ Distinct(v, NoTag) /\ Fits(v, Head(evq), NoTag)
        /\ Follows(ViewsOf(Handle, Tag, NoTag), NoTag, After(v, Head(evq), NoTag), Tail(evq), ViewOf(link))
  BY <1>1, <1>3, AgreeTaken
<1> DEFINE u == After(v, Head(evq), NoTag)
<1>6. u \in ViewsOf(Handle, Tag, NoTag) /\ Shows(db', u, NoTag) /\ Distinct(u, NoTag)
  BY <1>1, <1>2, <1>3, <1>5, ShowsOpened, NoTagAssumption
<1> HIDE DEF u
<1>7. Agree(Handle, Tag, NoTag, db', evq', ViewOf(link'))
  BY <1>1, <1>4, <1>5, <1>6, SameLinksSameView DEF Agree, u
<1>8. /\ db' \in Seq(Entry(Handle, Tag))
      /\ \A x : In(x, db') <=> In(x, db) \/ x = e
  BY <1>1, <1>2, <1>3, AddedEntries
<1>9. TypeOK'
  BY <1>1, <1>2, <1>4, <1>8 DEF BaseInv, TypeOK, NcpTypeOK
<1>10. v[h] = NoTag
  BY <1>1, <1>5 DEF Fits
<1>11. \A x : In(x, db) => x.handle # h
  BY <1>5, <1>10, ShowsByEntries
<1>12. e.handle = h /\ e.connection_state = "DISCOVER_SERVICES"
  BY DEF NewEntry
<1> HIDE DEF e, h
<1>13. BaseInv'
  BY <1>4, <1>7, <1>9 DEF BaseInv, Agreed
<1>14. QED
  BY <1>1, <1>2, <1>4, <1>8, <1>11, <1>12, <1>13 DEF e, h

LEMMA ConnectionClosedBase ==
  ASSUME BaseInv, ConnectionClosed, UNCHANGED reused
  PROVE  LET h == Head(evq).handle
         IN  /\ BaseInv' /\ scanning' = TRUE /\ UNCHANGED <<link, failures, alive>>
             /\ h \in Handle
             /\ \A x : In(x, db') <=> In(x, db) /\ x.handle # h
<1> DEFINE h == Head(evq).handle
<1>1. /\ evq \in Seq(Message) /\ evq # <<>> /\ evq' = Tail(evq) /\ evq' \in Seq(Message)
      /\ Head(evq).type = "closed" /\ h \in Handle
      /\ UNCHANGED <<allowlist, configs, drops, failures>>
  BY Received DEF BaseInv, ConnectionClosed, HandleEventType
<1>2. /\ db' = RemoveTag(db, h) /\ scanning' = TRUE /\ connections_unavailable' = FALSE
      /\ UNCHANGED <<link, alive>>
  BY DEF ConnectionClosed, RestartScanner
<1>3. /\ db \in Seq(Entry(Handle, Tag))
      /\ Agree(Handle, Tag, NoTag, db, evq, ViewOf(link))
  BY DEF BaseInv, TypeOK, NcpTypeOK, Agreed
<1>4. PICK v \in ViewsOf(Handle, Tag, NoTag) :
        /\ Shows(db, v, NoTag) /\ Distinct(v, NoTag) /\ Fits(v, Head(evq), NoTag)
        /\ Follows(ViewsOf(Handle, Tag, NoTag), NoTag, After(v, Head(evq), NoTag), Tail(evq), ViewOf(link))
  BY <1>1, <1>3, AgreeTaken
<1> DEFINE u == After(v, Head(evq), NoTag)
<1>5. u \in ViewsOf(Handle, Tag, NoTag) /\ Shows(db', u, NoTag) /\ Distinct(u, NoTag)
  BY <1>1, <1>2, <1>3, <1>4, ShowsClosed
<1> HIDE DEF u
<1>6. Agree(Handle, Tag, NoTag, db', evq', ViewOf(link'))
  BY <1>1, <1>2, <1>4, <1>5 DEF Agree, u
<1>7. /\ db' \in Seq(Entry(Handle, Tag))
      /\ \A x : In(x, db') <=> In(x, db) /\ x.handle # h
  BY <1>2, <1>3, <1>4, RemovedEntries DEF Shows
<1>8. TypeOK' /\ LinksInv(link')
  BY <1>1, <1>2, <1>7 DEF BaseInv, TypeOK, NcpTypeOK
<1> HIDE DEF h
<1>9. BaseInv'
  BY <1>6, <1>8 DEF BaseInv, Agreed
<1>10. QED
  BY <1>1, <1>2, <1>7, <1>9 DEF h

LEMMA GattServiceBase ==
  ASSUME BaseInv, GattService, UNCHANGED reused
  PROVE  /\ BaseInv' /\ UNCHANGED <<link, scanning, alive, failures>>
         /\ DOMAIN db' = DOMAIN db
         /\ \A j \in DOMAIN db : /\ db'[j].handle = db[j].handle
                                 /\ db'[j].connection_state = db[j].connection_state
<1> DEFINE i == GetTagByHandle(db, Head(evq).handle)
           r == [db EXCEPT ![i].cte_service_handle = TRUE]
<1>1. /\ evq # <<>> /\ evq' = Tail(evq) /\ evq' \in Seq(Message) /\ Head(evq).type = "service"
      /\ UNCHANGED <<allowlist, configs, drops, failures>>
  BY Received DEF BaseInv, GattService
<1>2. /\ db' = IF i = 0 THEN db ELSE r
      /\ UNCHANGED <<link, scanning, alive, connections_unavailable>>
      /\ db \in Seq(Entry(Handle, Tag))
  BY DEF GattService, BaseInv, TypeOK, NcpTypeOK
<1>3. i # 0 => i \in DOMAIN db
  BY <1>1, HeadIsOf DEF HandleEventType
<1> HIDE DEF i
<1>4. ASSUME i # 0
      PROVE  /\ r \in Seq(Entry(Handle, Tag)) /\ SameTags(r)
             /\ r[i].connection_state = db[i].connection_state
             /\ \A j \in DOMAIN db : j # i => r[j] = db[j]
  <2> DEFINE f == [db[i] EXCEPT !.cte_service_handle = TRUE]
  <2>1. db[i] \in Entry(Handle, Tag)
    BY <1>2, <1>3, <1>4, ElementOfSeq, LenProperties
  <2>2. /\ f \in Entry(Handle, Tag) /\ f.handle = db[i].handle /\ f.address = db[i].address
        /\ f.connection_state = db[i].connection_state
    BY <2>1, EntryFields
  <2>3. r = [db EXCEPT ![i] = f]
    OBVIOUS
  <2> HIDE DEF f, r
  <2>4. QED
    BY <1>2, <1>3, <1>4, <2>2, <2>3, EntryWritten
<1> HIDE DEF r
<1>5. /\ db' \in Seq(Entry(Handle, Tag)) /\ SameTags(db')
      /\ \A j \in DOMAIN db : db'[j].connection_state = db[j].connection_state
  BY <1>2, <1>4, SameTagsHere
<1>6. TypeOK' /\ LinksInv(link') /\ ViewOf(link') = ViewOf(link)
  BY <1>1, <1>2, <1>5 DEF BaseInv, TypeOK, NcpTypeOK
<1>7. Agreed'
  BY <1>1, <1>5, <1>6, TakenAgrees
<1>8. QED
  BY <1>1, <1>2, <1>5, <1>6, <1>7 DEF BaseInv, SameTags

LEMMA GattCharacteristicBase ==
  ASSUME BaseInv, GattCharacteristic, UNCHANGED reused
  PROVE  /\ BaseInv' /\ UNCHANGED <<link, scanning, alive, failures>>
         /\ DOMAIN db' = DOMAIN db
         /\ \A j \in DOMAIN db :
              /\ db'[j].handle = db[j].handle
              /\ db[j].handle # Head(evq).handle => db'[j].connection_state = db[j].connection_state
              /\ \/ db'[j].connection_state = db[j].connection_state
                 \/ db'[j].connection_state = "DISCOVER_CHARACTERISTICS"
<1> DEFINE i == GetTagByHandle(db, Head(evq).handle)
           r == [db EXCEPT ![i].cte_enable_char_handle = TRUE,
                           ![i].connection_state = "DISCOVER_CHARACTERISTICS"]
<1>1. /\ evq # <<>> /\ evq' = Tail(evq) /\ evq' \in Seq(Message) /\ Head(evq).type = "characteristic"
      /\ UNCHANGED <<allowlist, configs, drops, failures>>
  BY Received DEF BaseInv, GattCharacteristic
<1>2. /\ db' = IF i = 0 THEN db ELSE r
      /\ UNCHANGED <<link, scanning, alive, connections_unavailable>>
      /\ db \in Seq(Entry(Handle, Tag))
  BY DEF GattCharacteristic, BaseInv, TypeOK, NcpTypeOK
<1>3. i # 0 => i \in DOMAIN db /\ db[i].handle = Head(evq).handle
  BY <1>1, HeadIsOf DEF HandleEventType
<1> HIDE DEF i
<1>4. ASSUME i # 0
      PROVE  /\ r \in Seq(Entry(Handle, Tag)) /\ SameTags(r)
             /\ r[i].connection_state = "DISCOVER_CHARACTERISTICS"
             /\ \A j \in DOMAIN db : j # i => r[j] = db[j]
  <2> DEFINE f == [db[i] EXCEPT !.cte_enable_char_handle = TRUE,
                                !.connection_state = "DISCOVER_CHARACTERISTICS"]
  <2>1. db[i] \in Entry(Handle, Tag)
    BY <1>2, <1>3, <1>4, ElementOfSeq, LenProperties
  <2>2. /\ f \in Entry(Handle, Tag) /\ f.handle = db[i].handle /\ f.address = db[i].address
        /\ f.connection_state = "DISCOVER_CHARACTERISTICS"
    BY <2>1, EntryFields
  <2>3. r = [db EXCEPT ![i] = f]
    BY <1>2, <1>3, <1>4
  <2> HIDE DEF f, r
  <2>4. QED
    BY <1>2, <1>3, <1>4, <2>2, <2>3, EntryWritten
<1> HIDE DEF r
<1>5. /\ db' \in Seq(Entry(Handle, Tag)) /\ SameTags(db')
  BY <1>2, <1>4, SameTagsHere
<1>6. \A j \in DOMAIN db :
        /\ db[j].handle # Head(evq).handle => db'[j].connection_state = db[j].connection_state
        /\ \/ db'[j].connection_state = db[j].connection_state
           \/ db'[j].connection_state = "DISCOVER_CHARACTERISTICS"
  BY <1>2, <1>3, <1>4
<1>7. TypeOK' /\ LinksInv(link') /\ ViewOf(link') = ViewOf(link)
  BY <1>1, <1>2, <1>5 DEF BaseInv, TypeOK, NcpTypeOK
<1>8. Agreed'
  BY <1>1, <1>5, <1>7, TakenAgrees
<1>9. QED
  BY <1>1, <1>2, <1>5, <1>6, <1>7, <1>8 DEF BaseInv, SameTags

(* What the completion of a procedure makes of the entry of its handle and *)
(* of the connection: one of the four things below.                        *)
LEMMA ProcedureCompletedBase ==
  ASSUME BaseInv, ProcedureCompleted, UNCHANGED reused
  PROVE  \E i \in DOMAIN db :
           LET h == Head(evq).handle
           IN  /\ BaseInv' /\ h \in Handle /\ db[i].handle = h
               /\ failures' = failures /\ (scanning' = scanning \/ scanning' = TRUE)
               /\ \A g \in Handle : g # h => link'[g] = link[g]
               /\ SameLinks /\ SameTags(db')
               /\ \A j \in DOMAIN db : j # i => db'[j] = db[j]
               /\ \/ /\ db[i].connection_state = "DISCOVER_SERVICES"
                     /\ db' = db
                     /\ \/ ~alive' /\ link' = link
                        \/ alive' = GattReady(h) /\ (GattReady(h) => link'[h].gatt # "none")
                           /\ (~GattReady(h) => link' = link)
                  \/ /\ db[i].connection_state = "DISCOVER_CHARACTERISTICS"
                     /\ alive' = GattReady(h)
                     /\ GattReady(h) => /\ link'[h].gatt = "write"
                                        /\ db'[i].connection_state = "ENABLE_CTE"
                     /\ ~GattReady(h) => db' = db /\ link' = link
                  \/ /\ db[i].connection_state = "ENABLE_CTE"
                     /\ alive' = (link[h].state = "open")
                     /\ alive' => /\ link'[h].cte = TRUE
                                  /\ link'[h].enabled = link[h].enabled
                                  /\ link'[h].gatt = link[h].gatt
                                  /\ db'[i].connection_state = "RUNNING"
                     /\ ~alive' => db' = db /\ link' = link
                  \/ /\ db[i].connection_state = "RUNNING"
                     /\ UNCHANGED <<link, db, scanning, alive>>
<1> DEFINE h == Head(evq).handle
           i == GetTagByHandle(db, h)
<1>1. /\ evq # <<>> /\ evq' = Tail(evq) /\ evq' \in Seq(Message) /\ Head(evq).type = "completed"
      /\ h \in Handle /\ alive
      /\ UNCHANGED <<allowlist, configs, drops, failures, reused>>
  BY Received DEF BaseInv, ProcedureCompleted, HandleEventType
<1>2. i # 0 /\ i \in DOMAIN db /\ db[i].handle = h
  BY <1>1, HeadIsOf DEF HandleEventType
<1>3. /\ link \in [Handle -> Link] /\ LinksInv(link) /\ db \in Seq(Entry(Handle, Tag))
      /\ scanning \in BOOLEAN /\ connections_unavailable \in BOOLEAN /\ alive \in BOOLEAN
  BY DEF BaseInv, TypeOK, NcpTypeOK
<1>4. \/ /\ db[i].connection_state = "DISCOVER_SERVICES"
         /\ ServicesDiscovered(i)
      \/ /\ db[i].connection_state = "DISCOVER_CHARACTERISTICS"
         /\ CharacteristicsDiscovered(i)
      \/ /\ db[i].connection_state = "ENABLE_CTE"
         /\ CteEnabled(i)
      \/ /\ db[i].connection_state = "RUNNING"
         /\ UNCHANGED <<link, db, scanning, alive, connections_unavailable>>
  BY <1>2 DEF ProcedureCompleted
<1> HIDE DEF i, h
<1>5. ASSUME /\ link' \in [Handle -> Link] /\ LinksInv(link') /\ SameLinks
             /\ db' \in Seq(Entry(Handle, Tag)) /\ SameTags(db')
             /\ scanning' \in BOOLEAN /\ alive' \in BOOLEAN
             /\ UNCHANGED connections_unavailable
      PROVE  BaseInv'
  <2>1. TypeOK'
    BY <1>1, <1>5 DEF BaseInv, TypeOK, NcpTypeOK
  <2>2. ViewOf(link') = ViewOf(link)
    BY <1>5, SameLinksSameView
  <2>3. Agreed'
    BY <1>1, <1>5, <2>2, TakenAgrees
  <2>4. QED
    BY <1>5, <2>1, <2>3 DEF BaseInv
<1>6. SameTags(db) /\ (link' = link => SameLinks)
  BY SameTagsHere DEF SameLinks
<1> DEFINE Made ==
             \/ /\ db[i].connection_state = "DISCOVER_SERVICES"
                /\ db' = db
                /\ \/ ~alive' /\ link' = link
                   \/ alive' = GattReady(h) /\ (GattReady(h) => link'[h].gatt # "none")
                      /\ (~GattReady(h) => link' = link)
             \/ /\ db[i].connection_state = "DISCOVER_CHARACTERISTICS"
                /\ alive' = GattReady(h)
                /\ GattReady(h) => /\ link'[h].gatt = "write"
                                   /\ db'[i].connection_state = "ENABLE_CTE"
                /\ ~GattReady(h) => db' = db /\ link' = link
             \/ /\ db[i].connection_state = "ENABLE_CTE"
                /\ alive' = (link[h].state = "open")
                /\ alive' => /\ link'[h].cte = TRUE
                             /\ link'[h].enabled = link[h].enabled
                             /\ link'[h].gatt = link[h].gatt
                             /\ db'[i].connection_state = "RUNNING"
                /\ ~alive' => db' = db /\ link' = link
             \/ /\ db[i].connection_state = "RUNNING"
                /\ UNCHANGED <<link, db, scanning, alive>>
           Rest ==
             /\ link' \in [Handle -> Link] /\ LinksInv(link') /\ SameLinks
             /\ db' \in Seq(Entry(Handle, Tag)) /\ SameTags(db')
             /\ scanning' \in BOOLEAN /\ alive' \in BOOLEAN
             /\ UNCHANGED connections_unavailable
             /\ (scanning' = scanning \/ scanning' = TRUE)
             /\ \A g \in Handle : g # h => link'[g] = link[g]
             /\ \A j \in DOMAIN db : j # i => db'[j] = db[j]
<1>7. ASSUME db[i].connection_state = "DISCOVER_SERVICES", ServicesDiscovered(i)
      PROVE  Made /\ Rest
  <2>1. /\ UNCHANGED <<db, scanning, connections_unavailable>>
        /\ \/ StartGatt(h, "characteristics")
           \/ StartGatt(h, "blind")
           \/ alive' = FALSE /\ UNCHANGED link
    BY <1>2, <1>7 DEF ServicesDiscovered, Return
  <2>2. CASE alive' = FALSE /\ UNCHANGED link
    BY <1>3, <1>6, <1>7, <2>1, <2>2
  <2>3. ASSUME NEW p \in {"characteristics", "blind"}, StartGatt(h, p) PROVE Made /\ Rest
    <3>1. p \in GattProcedure \ {"none"} /\ p # "none"
      BY <2>3 DEF GattProcedure
    <3>2. /\ link' \in [Handle -> Link] /\ LinksInv(link') /\ SameLinks
          /\ alive' = GattReady(h) /\ alive' \in BOOLEAN
          /\ \A g \in Handle : g # h => link'[g] = link[g]
          /\ GattReady(h) => link'[h].gatt = p
          /\ ~GattReady(h) => link' = link
      BY <1>1, <1>3, <2>3, <3>1, GattStarted
    <3>3. QED
      BY <1>3, <1>6, <1>7, <2>1, <3>1, <3>2
  <2>4. QED
    BY <2>1, <2>2, <2>3
<1>8. ASSUME db[i].connection_state = "DISCOVER_CHARACTERISTICS", CharacteristicsDiscovered(i)
      PROVE  Made /\ Rest
  <2>1. /\ UNCHANGED <<scanning, connections_unavailable>>
        /\ StartGatt(h, "write")
        /\ db' = IF GattReady(h) THEN [db EXCEPT ![i].connection_state = "ENABLE_CTE"] ELSE db
    BY <1>2, <1>8 DEF CharacteristicsDiscovered
  <2>2. /\ link' \in [Handle -> Link] /\ LinksInv(link') /\ SameLinks
        /\ alive' = GattReady(h) /\ alive' \in BOOLEAN
        /\ \A g \in Handle : g # h => link'[g] = link[g]
        /\ GattReady(h) => link'[h].gatt = "write"
        /\ ~GattReady(h) => link' = link
    BY <1>1, <1>3, <2>1, GattStarted DEF GattProcedure
  <2>3. GattReady(h) =>
          /\ db' \in Seq(Entry(Handle, Tag)) /\ SameTags(db')
          /\ db'[i].connection_state = "ENABLE_CTE"
          /\ \A j \in DOMAIN db : j # i => db'[j] = db[j]
    BY <1>2, <1>3, <2>1, StateWritten DEF ConnectionState
  <2>4. ~GattReady(h) => db' = db
    BY <2>1
  <2>5. QED
    BY <1>3, <1>6, <1>8, <2>1, <2>2, <2>3, <2>4
<1>9. ASSUME db[i].connection_state = "ENABLE_CTE", CteEnabled(i)
      PROVE  Made /\ Rest
  <2>1. /\ UNCHANGED connections_unavailable
        /\ alive' = (link[h].state = "open")
        /\ IF link[h].state = "open"
           THEN /\ link' = [link EXCEPT ![h].cte = TRUE]
                /\ db' = [db EXCEPT ![i].connection_state = "RUNNING"]
                /\ scanning' = scanning \/ scanning' = TRUE
           ELSE UNCHANGED <<link, db, scanning>>
    BY <1>2, <1>9 DEF CteEnabled, Return, RestartScanner
  <2>2. CASE link[h].state # "open"
    BY <1>3, <1>6, <1>9, <2>1, <2>2
  <2>3. CASE link[h].state = "open"
    <3>1. link' = [link EXCEPT ![h].cte = TRUE] /\ link[h] \in Link
      BY <1>1, <1>3, <2>1, <2>3
    <3>2. link'[h] = [link[h] EXCEPT !.cte = TRUE] /\ \A g \in Handle : g # h => link'[g] = link[g]
      BY <1>1, <1>3, <3>1
    <3>3. link'[h] \in Link
      BY <3>1, <3>2, LinkFields
    <3>4. /\ link'[h].state = link[h].state /\ link'[h].peer = link[h].peer
          /\ link'[h].gatt = link[h].gatt
          /\ link'[h].enabled = link[h].enabled /\ link'[h].cte = TRUE
      BY <3>1, <3>2 DEF Link
    <3>5. link' \in [Handle -> Link] /\ SameLinks
      BY <1>3, <3>1, <3>2, <3>3, <3>4 DEF SameLinks
    <3>6. LinksInv(link')
      <4>1. \A g \in Handle : /\ link'[g].gatt = link[g].gatt
                             /\ link'[g].state = link[g].state /\ link'[g].peer = link[g].peer
        BY <3>2, <3>4
      <4>2. QED
        BY <1>3, <4>1 DEF LinksInv
    <3>7. /\ db' \in Seq(Entry(Handle, Tag)) /\ SameTags(db')
          /\ db'[i].connection_state = "RUNNING"
          /\ \A j \in DOMAIN db : j # i => db'[j] = db[j]
      BY <1>2, <1>3, <2>1, <2>3, StateWritten DEF ConnectionState
    <3>8. QED
      BY <1>3, <1>9, <2>1, <2>3, <3>2, <3>4, <3>5, <3>6, <3>7
  <2>4. QED
    BY <2>2, <2>3
<1>10. ASSUME db[i].connection_state = "RUNNING",
              UNCHANGED <<link, db, scanning, alive, connections_unavailable>>
       PROVE  Made /\ Rest
  BY <1>3, <1>6, <1>10
<1>11. Made /\ Rest
  BY <1>4, <1>7, <1>8, <1>9, <1>10
<1>12. BaseInv'
  BY <1>5, <1>11
<1>13. QED
  BY <1>1, <1>2, <1>11, <1>12 DEF h

LEMMA SystemBootBase ==
  ASSUME BaseInv, SystemBoot, UNCHANGED reused
  PROVE  BaseInv' /\ scanning' = TRUE /\ UNCHANGED <<link, db, failures>>
<1>1. /\ Receive("boot") /\ scanning' = TRUE /\ alive' = ~scanning
      /\ UNCHANGED <<link, db, connections_unavailable, reused>>
      /\ scanning \in BOOLEAN /\ reused \in BOOLEAN
  BY DEF SystemBoot, Return, BaseInv, TypeOK, NcpTypeOK
<1>2. alive' \in BOOLEAN /\ scanning' \in BOOLEAN /\ reused' \in BOOLEAN
  BY <1>1
<1>3. BaseInv'
  BY <1>1, <1>2, NothingElseBase
<1>4. QED
  BY <1>1, <1>3 DEF Receive

LEMMA IqReportBase ==
  ASSUME BaseInv, IqReport, UNCHANGED reused
  PROVE  BaseInv' /\ UNCHANGED <<link, db, scanning, alive, failures>>
<1>1. /\ Receive("iq_report")
      /\ UNCHANGED <<link, scanning, alive, db, connections_unavailable, reused>>
      /\ scanning \in BOOLEAN /\ reused \in BOOLEAN /\ alive \in BOOLEAN
  BY DEF IqReport, BaseInv, TypeOK, NcpTypeOK
<1>2. BaseInv'
  BY <1>1, NothingElseBase
<1>3. QED
  BY <1>1, <1>2 DEF Receive

-----------------------------------------------------------------------------
(* The scanner.                                                            *)

(* What excuses a scanner that is off is kept by an event that is added    *)
(* and by one that is taken, unless it is the boot or the closed event.    *)
ClosedPending == \E h \in Handle : Pending("closed", h) # {}

Excused == BootPending \/ AtConnectionLimit \/ ClosedPending

LEMMA ScannerExcused == ScannerNeverStranded <=> (alive /\ ~scanning => Excused)
  BY DEF ScannerNeverStranded, Excused, ClosedPending

LEMMA ExcusesByQueue ==
  /\ BootPending <=> In(BootEvent, evq)
  /\ ClosedPending <=> \E h \in Handle : About(evq, {"closed"}, h)
  BY DEF BootPending, ClosedPending, Pending, In, About, BootEvent

LEMMA LimitKept ==
  ASSUME \A h \in Handle : link[h].state # "free" <=> link'[h].state # "free"
  PROVE  AtConnectionLimit' <=> AtConnectionLimit
<1>1. {h \in Handle : link'[h].state # "free"} = {h \in Handle : link[h].state # "free"}
  OBVIOUS
<1>2. QED
  BY <1>1 DEF AtConnectionLimit

LEMMA ExcusedStillAdded ==
  ASSUME evq \in Seq(Message), NEW e \in Message, evq' = Append(evq, e)
  PROVE  /\ BootPending => BootPending'
         /\ ClosedPending => ClosedPending'
         /\ e.type = "closed" => ClosedPending'
<1>1. \A x : In(x, evq') <=> In(x, evq) \/ x = e
  BY AppendedQueue
<1>2. BootPending => BootPending'
  <2>1. BootPending => In(BootEvent, evq')
    BY <1>1, ExcusesByQueue
  <2>2. QED
    BY <2>1 DEF BootPending, In, BootEvent
<1>3. \A h : About(evq', {"closed"}, h) <=> About(evq, {"closed"}, h) \/ (e.type = "closed" /\ e.handle = h)
  <2>1. SUFFICES ASSUME NEW h
                 PROVE  About(evq', {"closed"}, h) <=>
                          About(evq, {"closed"}, h) \/ (e.type = "closed" /\ e.handle = h)
    OBVIOUS
  <2>2. About(evq', {"closed"}, h) <=>
          About(evq, {"closed"}, h) \/ (e.type \in {"closed"} /\ e.handle = h)
    BY AboutAppended
  <2>3. QED
    BY <2>2
<1>4. (\E h \in Handle : About(evq', {"closed"}, h)) => ClosedPending'
  BY DEF ClosedPending, Pending, About
<1>5. ClosedPending => ClosedPending'
  BY <1>3, <1>4, ExcusesByQueue
<1>6. e.type = "closed" => ClosedPending'
  BY <1>3, <1>4, MessageFields DEF HandleEventType
<1>7. QED
  BY <1>2, <1>5, <1>6

LEMMA ExcusedStillTaken ==
  ASSUME evq \in Seq(Message), evq # <<>>, evq' = Tail(evq)
  PROVE  /\ Head(evq).type # "boot" => (BootPending => BootPending')
         /\ Head(evq).type # "closed" => (ClosedPending => ClosedPending')
<1>1. \A x : In(x, evq) <=> x = Head(evq) \/ In(x, evq')
  BY TakenQueue
<1>2. In(BootEvent, evq') => BootPending'
  BY DEF BootPending, In, BootEvent
<1>3. Head(evq).type # "boot" => (BootPending => BootPending')
  BY <1>1, <1>2, ExcusesByQueue, MessageFields
<1>4. (\E h \in Handle : About(evq', {"closed"}, h)) => ClosedPending'
  BY DEF ClosedPending, Pending, About
<1>5. \A h : About(evq, {"closed"}, h) =>
               (Head(evq).type \in {"closed"} /\ Head(evq).handle = h) \/ About(evq', {"closed"}, h)
  BY AboutTaken
<1>6. Head(evq).type # "closed" => (ClosedPending => ClosedPending')
  BY <1>4, <1>5, ExcusesByQueue
<1>7. QED
  BY <1>3, <1>6

(* The co-processor on its own never leaves the scanner off without a      *)
(* reason.                                                                 *)
LEMMA NcpScanner ==
  ASSUME BaseInv, ScannerNeverStranded, UNCHANGED hostVars, NcpNext
  PROVE  ScannerNeverStranded'
<1>1. evq \in Seq(Message) /\ alive' = alive
  BY DEF BaseInv, TypeOK, NcpTypeOK, hostVars
<1>2. SUFFICES ASSUME alive, ~scanning' PROVE Excused'
  BY <1>1 DEF ScannerNeverStranded, Excused, ClosedPending
<1>3. ASSUME scanning' = scanning,
             \A h \in Handle : link[h].state # "free" <=> link'[h].state # "free",
             NEW e \in Message, evq' = Append(evq, e)
      PROVE  Excused'
  <2>1. Excused
    BY <1>2, <1>3, ScannerExcused
  <2>2. QED
    BY <1>1, <1>3, <2>1, ExcusedStillAdded, LimitKept DEF Excused
<1>4. ASSUME NEW t \in Tag, Advertise(t) PROVE Excused'
  BY <1>3, <1>4, AdvertiseBase
<1>5. ASSUME NEW h \in Handle, Establish(h) PROVE Excused'
  <2>1. /\ scanning' = scanning /\ link[h].state = "pending"
        /\ link' = [link EXCEPT ![h].state = "open"]
        /\ \E e \in Message : evq' = Append(evq, e)
    BY <1>5, EstablishBase
  <2>2. /\ \A g \in Handle : g # h => link'[g] = link[g]
        /\ link'[h].state = "open"
    <3>1. link \in [Handle -> Link] /\ link[h] \in Link
      BY DEF BaseInv, TypeOK, NcpTypeOK
    <3>2. link'[h] = [link[h] EXCEPT !.state = "open"] /\ \A g \in Handle : g # h => link'[g] = link[g]
      BY <2>1, <3>1
    <3>3. QED
      BY <3>1, <3>2 DEF Link
  <2>3. QED
    BY <1>3, <2>1, <2>2
<1>6. ASSUME NEW h \in Handle, LoseLink(h) PROVE Excused'
  <2>1. \E e \in Message : e.type = "closed" /\ evq' = Append(evq, e)
    BY <1>6, LoseLinkBase
  <2>2. QED
    BY <1>1, <2>1, ExcusedStillAdded DEF Excused
<1>7. ASSUME NEW h \in Handle, CompleteGatt(h) PROVE Excused'
  <2>1. PICK c \in Message :
          \/ evq' = Append(evq, c)
          \/ \E e \in Message : evq' = Append(Append(evq, e), c)
    BY <1>7, CompleteGattBase
  <2>2. scanning' = scanning /\ SameLinks
    BY <1>7, CompleteGattBase
  <2>3. CASE evq' = Append(evq, c)
    BY <1>3, <2>2, <2>3 DEF SameLinks
  <2>4. ASSUME NEW e \in Message, evq' = Append(Append(evq, e), c) PROVE Excused'
    <3>1. \A x : In(x, evq) => In(x, evq')
      <4>1. Append(evq, e) \in Seq(Message) /\ \A x : In(x, evq) => In(x, Append(evq, e))
        BY <1>1, AppendedQueue
      <4>2. \A x : In(x, Append(evq, e)) => In(x, Append(Append(evq, e), c))
        BY <4>1, AppendedQueue
      <4>3. QED
        BY <2>4, <4>1, <4>2
    <3>2. Excused
      BY <1>2, <2>2, ScannerExcused
    <3>3. BootPending => BootPending'
      <4>1. BootPending => In(BootEvent, evq')
        BY <3>1, ExcusesByQueue
      <4>2. QED
        BY <4>1 DEF BootPending, In, BootEvent
    <3>4. ClosedPending => ClosedPending'
      <4>1. ClosedPending <=> \E h1 \in Handle : \E x : In(x, evq) /\ x.type = "closed" /\ x.handle = h1
        BY DEF ClosedPending, Pending, In
      <4>2. (\E h1 \in Handle : \E x : In(x, evq') /\ x.type = "closed" /\ x.handle = h1) => ClosedPending'
        BY DEF ClosedPending, Pending, In
      <4>3. QED
        BY <3>1, <4>1, <4>2
    <3>5. QED
      BY <2>2, <3>2, <3>3, <3>4, LimitKept DEF Excused, SameLinks
  <2>5. QED
    BY <2>1, <2>3, <2>4
<1>8. ASSUME NEW h \in Handle, FailGatt(h) PROVE Excused'
  BY <1>3, <1>8, FailGattBase DEF SameLinks
<1>9. ASSUME NEW h \in Handle, SampleCte(h) PROVE Excused'
  BY <1>3, <1>9, SampleCteBase
<1>10. QED
  BY <1>4, <1>5, <1>6, <1>7, <1>8, <1>9 DEF NcpNext

LEMMA HandlerScanner ==
  ASSUME BaseInv, ScannerNeverStranded, HandleEvent
  PROVE  ScannerNeverStranded'
<1>1. SUFFICES ASSUME alive', ~scanning' PROVE Excused'
  BY DEF ScannerNeverStranded, Excused, ClosedPending
<1>2. ASSUME NEW type \in {"scan_report", "opened", "service", "characteristic", "completed", "iq_report"},
             Receive(type), scanning' = scanning,
             \A h \in Handle : link[h].state # "free" <=> link'[h].state # "free"
      PROVE  Excused'
  <2>1. /\ alive /\ evq \in Seq(Message) /\ evq # <<>> /\ evq' = Tail(evq)
        /\ Head(evq).type \notin {"boot", "closed"}
    BY <1>2, Received DEF BaseInv
  <2>2. Excused
    BY <1>1, <1>2, <2>1, ScannerExcused
  <2>3. QED
    BY <1>2, <2>1, <2>2, ExcusedStillTaken, LimitKept DEF Excused
<1>3. CASE ScanReport
  <2>1. /\ Receive("scan_report") /\ alive /\ evq \in Seq(Message) /\ evq # <<>>
        /\ evq' = Tail(evq) /\ Head(evq).type = "scan_report"
    BY <1>3, Received DEF BaseInv, ScanReport
  <2>2. CASE link' = link /\ scanning' = scanning
    BY <1>2, <2>1, <2>2
  <2>3. CASE link' = link /\ AtConnectionLimit
    BY <2>3 DEF Excused, AtConnectionLimit
  <2>4. CASE ~AtConnectionLimit /\ scanning' = scanning
    <3>1. Excused
      BY <1>1, <2>1, <2>4, ScannerExcused
    <3>2. QED
      BY <2>1, <2>4, <3>1, ExcusedStillTaken DEF Excused
  <2>5. QED
    BY <1>3, <2>2, <2>3, <2>4, ScanReportBase
<1>4. CASE SystemBoot
  BY <1>1, <1>4 DEF SystemBoot
<1>5. CASE ConnectionOpened /\ UNCHANGED reused
  <2>1. Receive("opened")
    BY <1>5 DEF ConnectionOpened
  <2>2. QED
    BY <1>2, <1>5, <2>1, ConnectionOpenedBase DEF SameLinks
<1>6. CASE GattService
  BY <1>2, <1>6 DEF GattService
<1>7. CASE GattCharacteristic
  BY <1>2, <1>7 DEF GattCharacteristic
<1>8. CASE ProcedureCompleted /\ UNCHANGED reused
  <2>1. Receive("completed")
    BY <1>8 DEF ProcedureCompleted
  <2>2. SameLinks /\ (scanning' = scanning \/ scanning' = TRUE)
    BY <1>8, ProcedureCompletedBase
  <2>3. QED
    BY <1>1, <1>2, <2>1, <2>2 DEF SameLinks
<1>9. CASE ConnectionClosed
  BY <1>1, <1>9 DEF ConnectionClosed, RestartScanner
<1>10. CASE IqReport
  BY <1>2, <1>10 DEF IqReport
<1>11. QED
  BY <1>3, <1>4, <1>5, <1>6, <1>7, <1>8, <1>9, <1>10 DEF HandleEvent

-----------------------------------------------------------------------------
(* The walk: what leaves a handle alone.                                   *)

(* Nothing in r opens, completes or closes more on a handle than in q.     *)
Unmoved(q, r, g) ==
  /\ About(r, {"closed"}, g) => About(q, {"closed"}, g)
  /\ About(r, Step, g) <=> About(q, Step, g)
  /\ AtMostOne(q, Step, g) => AtMostOne(r, Step, g)

LEMMA UnmovedAdded ==
  ASSUME NEW q \in Seq(Message), NEW e \in Message, NEW g,
         ~(e.type \in {"opened", "completed", "closed"} /\ e.handle = g)
  PROVE  Unmoved(q, Append(q, e), g)
<1>1. ~(e.type \in Step /\ e.handle = g) /\ ~(e.type \in {"closed"} /\ e.handle = g)
  BY DEF Step
<1>2. /\ About(Append(q, e), Step, g) <=> About(q, Step, g) \/ (e.type \in Step /\ e.handle = g)
      /\ AtMostOne(q, Step, g) /\ (e.type \in Step /\ e.handle = g => ~About(q, Step, g))
           => AtMostOne(Append(q, e), Step, g)
  BY AboutAppended
<1>3. About(Append(q, e), {"closed"}, g) <=>
        About(q, {"closed"}, g) \/ (e.type \in {"closed"} /\ e.handle = g)
  BY AboutAppended
<1>4. QED
  BY <1>1, <1>2, <1>3 DEF Unmoved

LEMMA UnmovedTaken ==
  ASSUME NEW q \in Seq(Message), q # <<>>, NEW g,
         ~(Head(q).type \in Step /\ Head(q).handle = g)
  PROVE  Unmoved(q, Tail(q), g)
<1>1. /\ About(q, Step, g) <=> (Head(q).type \in Step /\ Head(q).handle = g) \/ About(Tail(q), Step, g)
      /\ AtMostOne(q, Step, g) => AtMostOne(Tail(q), Step, g)
  BY AboutTaken
<1>2. About(Tail(q), {"closed"}, g) => About(q, {"closed"}, g)
  BY AboutTaken
<1>3. QED
  BY <1>1, <1>2 DEF Unmoved

LEMMA InUseAdded ==
  ASSUME NEW q \in Seq(Message), NEW e \in Message, NEW g,
         ~(e.type \in HandleEventType /\ e.handle = g)
  PROVE  About(Append(q, e), HandleEventType, g) => About(q, HandleEventType, g)
  BY AboutAppended

LEMMA InUseTaken ==
  ASSUME NEW q \in Seq(Message), q # <<>>, NEW g
  PROVE  About(Tail(q), HandleEventType, g) => About(q, HandleEventType, g)
  BY AboutTaken

(* A type of event that is not under way although no event at all is.      *)
LEMMA NotInUse ==
  ASSUME NEW q, NEW g, NEW types \in SUBSET HandleEventType, ~About(q, HandleEventType, g)
  PROVE  ~About(q, types, g) /\ AtMostOne(q, types, g)
  BY DEF About, AtMostOne

LEMMA WalkUntouched ==
  ASSUME NEW g \in Handle, WalkOf(g), link'[g] = link[g],
         link[g].state = "pending" =>
           (About(evq', HandleEventType, g) => About(evq, HandleEventType, g)),
         Unmoved(evq, evq', g),
         \A s : EntryIs(db', g, s) <=> EntryIs(db, g, s),
         alive' => alive, failures' = 0 => failures = 0
  PROVE  WalkOf(g)'
<1>1. InUse(g)' <=> About(evq', HandleEventType, g)
  BY DEF InUse, About
<1>2. InUse(g) <=> About(evq, HandleEventType, g)
  BY DEF InUse, About
<1>3. link[g].state = "pending" => ~InUse(g)'
  BY <1>1, <1>2 DEF WalkOf
<1> DEFINE c == About(evq, {"closed"}, g)
           d == About(evq', {"closed"}, g)
           s == About(evq, Step, g)
           t == About(evq', Step, g)
           m == AtMostOne(evq, Step, g)
           n == AtMostOne(evq', Step, g)
           R == EntryIs(db, g, "RUNNING")
           C == EntryIs(db, g, "ENABLE_CTE")
<1>4. (d => c) /\ (t <=> s) /\ (m => n)
  BY DEF Unmoved
<1>5. (EntryIs(db', g, "RUNNING") <=> R) /\ (EntryIs(db', g, "ENABLE_CTE") <=> C)
  OBVIOUS
<1>6. link[g].state = "open" =>
       /\ ~c /\ m /\ (s => link[g].gatt = "none")
       /\ s \/ link[g].gatt # "none" => ~R
       /\ alive => s \/ link[g].gatt # "none" \/ R
       /\ failures = 0 => /\ C /\ s => link[g].enabled
                          /\ C /\ link[g].gatt # "none" => link[g].gatt = "write"
                          /\ R => link[g].enabled /\ link[g].cte
  BY DEF WalkOf
<1> HIDE DEF c, d, s, t, m, n, R, C
<1>7. link[g].state = "open" =>
       /\ ~d /\ n /\ (t => link[g].gatt = "none")
       /\ t \/ link[g].gatt # "none" => ~R
       /\ alive' => t \/ link[g].gatt # "none" \/ R
       /\ failures' = 0 => /\ C /\ t => link[g].enabled
                           /\ C /\ link[g].gatt # "none" => link[g].gatt = "write"
                           /\ R => link[g].enabled /\ link[g].cte
  BY <1>4, <1>6
<1>8. QED
  BY <1>3, <1>5, <1>7 DEF WalkOf, d, t, n

(* The results of a discovery and its completion.                          *)
LEMMA CompletesAdded ==
  ASSUME NEW q \in Seq(Message), NEW e \in Message, Completes(q),
         e.type \notin {"service", "characteristic"}
  PROVE  Completes(Append(q, e))
<1> DEFINE n == Len(q)
           r == Append(q, e)
<1>1. /\ n \in Nat /\ DOMAIN q = 1 .. n /\ DOMAIN r = 1 .. n + 1
      /\ \A i \in 1 .. n : r[i] = q[i]
      /\ r[n + 1] = e
  BY AppendPositions
<1> HIDE DEF n, r
<1>2. SUFFICES ASSUME NEW i \in 1 .. n + 1, r[i].type \in {"service", "characteristic"}
               PROVE  /\ i + 1 \in 1 .. n + 1 /\ r[i + 1].type = "completed"
                      /\ r[i + 1].handle = r[i].handle
  BY <1>1 DEF Completes, r
<1>3. i \in 1 .. n /\ r[i] = q[i]
  BY <1>1, <1>2
<1>4. i + 1 \in 1 .. n /\ q[i + 1].type = "completed" /\ q[i + 1].handle = q[i].handle
  BY <1>1, <1>2, <1>3 DEF Completes
<1>5. QED
  BY <1>1, <1>3, <1>4

LEMMA CompletesBoth ==
  ASSUME NEW q \in Seq(Message), NEW e \in Message, NEW c \in Message, Completes(q),
         c.type = "completed", c.handle = e.handle
  PROVE  Completes(Append(Append(q, e), c))
<1> DEFINE n == Len(q)
           r == Append(q, e)
           z == Append(r, c)
<1>1. /\ n \in Nat /\ DOMAIN q = 1 .. n /\ DOMAIN r = 1 .. n + 1 /\ r \in Seq(Message)
      /\ \A i \in 1 .. n : r[i] = q[i]
      /\ r[n + 1] = e
  BY AppendPositions
<1>2. Len(r) = n + 1
  BY AppendProperties
<1> HIDE DEF n, r
<1>3. /\ DOMAIN z = 1 .. (n + 1) + 1
      /\ \A i \in 1 .. n + 1 : z[i] = r[i]
      /\ z[(n + 1) + 1] = c
  BY <1>1, <1>2, AppendPositions
<1> HIDE DEF z
<1>4. SUFFICES ASSUME NEW i \in 1 .. (n + 1) + 1, z[i].type \in {"service", "characteristic"}
               PROVE  /\ i + 1 \in 1 .. (n + 1) + 1 /\ z[i + 1].type = "completed"
                      /\ z[i + 1].handle = z[i].handle
  BY <1>3 DEF Completes, z, r
<1>5. CASE i = (n + 1) + 1
  BY <1>3, <1>4, <1>5
<1>6. CASE i = n + 1
  <2>1. n + 1 \in 1 .. n + 1 /\ (n + 1) + 1 \in 1 .. (n + 1) + 1
    BY <1>1
  <2>2. z[n + 1] = e
    BY <1>1, <1>3, <2>1
  <2>3. QED
    BY <1>3, <1>6, <2>1, <2>2
<1>7. CASE i \in 1 .. n
  <2>1. i \in 1 .. n + 1 /\ z[i] = q[i]
    BY <1>1, <1>3, <1>7
  <2>2. i + 1 \in 1 .. n /\ q[i + 1].type = "completed" /\ q[i + 1].handle = q[i].handle
    BY <1>1, <1>4, <1>7, <2>1 DEF Completes
  <2>3. i + 1 \in 1 .. n + 1 /\ i + 1 \in 1 .. (n + 1) + 1
    BY <1>1, <2>2
  <2>4. z[i + 1] = q[i + 1]
    BY <1>1, <1>3, <2>2, <2>3
  <2>5. QED
    BY <2>1, <2>2, <2>3, <2>4
<1>8. QED
  BY <1>1, <1>5, <1>6, <1>7

LEMMA CompletesTaken ==
  ASSUME NEW q \in Seq(Message), q # <<>>, Completes(q)
  PROVE  /\ Completes(Tail(q))
         /\ Head(q).type \in {"service", "characteristic"} => About(Tail(q), Step, Head(q).handle)
<1> DEFINE n == Len(q)
           r == Tail(q)
<1>1. /\ n \in Nat \ {0} /\ DOMAIN q = 1 .. n /\ DOMAIN r = 1 .. n - 1
      /\ \A i \in 1 .. n - 1 : r[i] = q[i + 1]
      /\ Head(q) = q[1]
  BY TailPositions
<1> HIDE DEF n, r
<1>2. Completes(r)
  <2>1. SUFFICES ASSUME NEW i \in 1 .. n - 1, r[i].type \in {"service", "characteristic"}
                 PROVE  /\ i + 1 \in 1 .. n - 1 /\ r[i + 1].type = "completed"
                        /\ r[i + 1].handle = r[i].handle
    BY <1>1 DEF Completes
  <2>2. i + 1 \in 1 .. n /\ r[i] = q[i + 1]
    BY <1>1
  <2>3. (i + 1) + 1 \in 1 .. n /\ q[(i + 1) + 1].type = "completed"
        /\ q[(i + 1) + 1].handle = q[i + 1].handle
    BY <1>1, <2>1, <2>2 DEF Completes
  <2>4. i + 1 \in 1 .. n - 1
    BY <1>1, <2>3
  <2>5. QED
    BY <1>1, <2>2, <2>3, <2>4
<1>3. ASSUME Head(q).type \in {"service", "characteristic"} PROVE About(r, Step, Head(q).handle)
  <2>1. 1 \in 1 .. n
    BY <1>1
  <2>2. 1 + 1 \in 1 .. n /\ q[1 + 1].type = "completed" /\ q[1 + 1].handle = q[1].handle
    BY <1>1, <1>3, <2>1 DEF Completes
  <2>3. 1 \in 1 .. n - 1
    BY <1>1, <2>2
  <2>4. r[1].type = "completed" /\ r[1].handle = Head(q).handle
    BY <1>1, <2>2, <2>3
  <2>5. QED
    BY <1>1, <2>3, <2>4 DEF About, Step
<1>4. QED
  BY <1>2, <1>3 DEF r

(* The entries of one handle, whatever their order.                        *)
LEMMA EntryIsIn ==
  ASSUME NEW d, NEW h, NEW s
  PROVE  EntryIs(d, h, s) <=> \E x : In(x, d) /\ x.handle = h /\ x.connection_state = s
  BY DEF EntryIs, In

(* A handle that is not open, and that no event is about, has no entry.    *)
LEMMA NoEntry ==
  ASSUME BaseInv, NEW h \in Handle, link[h].state # "open", ~InUse(h)
  PROVE  \A s : ~EntryIs(db, h, s)
<1>1. /\ evq \in Seq(Message) /\ Agree(Handle, Tag, NoTag, db, evq, ViewOf(link))
  BY DEF BaseInv, TypeOK, NcpTypeOK, Agreed
<1>2. PICK v \in ViewsOf(Handle, Tag, NoTag) :
        Shows(db, v, NoTag) /\ Follows(ViewsOf(Handle, Tag, NoTag), NoTag, v, evq, ViewOf(link))
  BY <1>1 DEF Agree
<1>3. ~About(evq, {"opened", "closed"}, h)
  BY DEF InUse, About, HandleEventType
<1>4. \A i \in DOMAIN evq : evq[i].type \in {"opened", "closed"} => evq[i].handle \in Handle
  BY <1>1, QueueHandles DEF HandleEventType
<1>5. ViewOf(link)[h] = v[h]
  BY <1>1, <1>2, <1>3, <1>4, NoChange
<1>6. v[h] = NoTag
  BY <1>5 DEF ViewOf
<1>7. QED
  BY <1>2, <1>6 DEF EntryIs, Shows

-----------------------------------------------------------------------------
(* The walk, step by step of the co-processor.                             *)

LEMMA AddedUntouched ==
  ASSUME BaseInv, NEW e \in Message, evq' = Append(evq, e),
         UNCHANGED <<alive, db>>, failures' = 0 => failures = 0,
         NEW g \in Handle, WalkOf(g), link'[g] = link[g],
         ~(e.type \in {"opened", "completed", "closed"} /\ e.handle = g),
         link[g].state = "pending" => ~(e.type \in HandleEventType /\ e.handle = g)
  PROVE  WalkOf(g)'
<1>1. evq \in Seq(Message)
  BY DEF BaseInv, TypeOK, NcpTypeOK
<1>2. Unmoved(evq, evq', g)
  BY <1>1, UnmovedAdded
<1>3. link[g].state = "pending" =>
        (About(evq', HandleEventType, g) => About(evq, HandleEventType, g))
  BY <1>1, InUseAdded
<1>4. QED
  BY <1>2, <1>3, WalkUntouched

LEMMA AdvertiseWalk ==
  ASSUME BaseInv, WalkInv, UNCHANGED hostVars, NEW t \in Tag, Advertise(t)
  PROVE  WalkInv'
<1>1. /\ link' = link /\ reused' = reused /\ failures' = failures
      /\ UNCHANGED <<alive, db>> /\ evq \in Seq(Message)
  BY AdvertiseBase DEF hostVars, BaseInv, TypeOK, NcpTypeOK
<1>2. PICK e \in Message : e.type = "scan_report" /\ evq' = Append(evq, e)
  BY AdvertiseBase
<1>3. Completes(evq')
  BY <1>1, <1>2, CompletesAdded DEF WalkInv
<1>4. e.type \notin {"opened", "completed", "closed"} /\ e.type \notin HandleEventType
  BY <1>2 DEF HandleEventType
<1>5. ASSUME ~reused', NEW g \in Handle PROVE WalkOf(g)'
  <2>1. WalkOf(g)
    BY <1>1, <1>5 DEF WalkInv
  <2>2. QED
    BY <1>1, <1>2, <1>4, <2>1, AddedUntouched
<1>6. QED
  BY <1>3, <1>5 DEF WalkInv

LEMMA SampleCteWalk ==
  ASSUME BaseInv, WalkInv, UNCHANGED hostVars, NEW h \in Handle, SampleCte(h)
  PROVE  WalkInv'
<1>1. /\ link' = link /\ reused' = reused /\ failures' = failures /\ link[h].state = "open"
      /\ UNCHANGED <<alive, db>> /\ evq \in Seq(Message)
  BY SampleCteBase DEF hostVars, BaseInv, TypeOK, NcpTypeOK
<1>2. PICK e \in Message : e.type = "iq_report" /\ e.handle = h /\ evq' = Append(evq, e)
  BY SampleCteBase
<1>3. Completes(evq')
  BY <1>1, <1>2, CompletesAdded DEF WalkInv
<1>4. ASSUME ~reused', NEW g \in Handle PROVE WalkOf(g)'
  <2>1. WalkOf(g)
    BY <1>1, <1>4 DEF WalkInv
  <2>2. link[g].state = "pending" => e.handle # g
    BY <1>1, <1>2
  <2>3. QED
    BY <1>1, <1>2, <2>1, <2>2, AddedUntouched
<1>5. QED
  BY <1>3, <1>4 DEF WalkInv

LEMMA EstablishWalk ==
  ASSUME BaseInv, WalkInv, UNCHANGED hostVars, NEW h \in Handle, Establish(h)
  PROVE  WalkInv'
<1>1. /\ reused' = reused /\ failures' = failures
      /\ link[h].state = "pending" /\ link[h].gatt = "none"
      /\ link' = [link EXCEPT ![h].state = "open"]
      /\ UNCHANGED <<alive, db>> /\ evq \in Seq(Message)
      /\ link \in [Handle -> Link]
  BY EstablishBase DEF hostVars, BaseInv, TypeOK, NcpTypeOK
<1>2. PICK e \in Message : e.type = "opened" /\ e.handle = h /\ evq' = Append(evq, e)
  BY EstablishBase
<1>3. Completes(evq')
  BY <1>1, <1>2, CompletesAdded DEF WalkInv
<1>4. \A g \in Handle : g # h => link'[g] = link[g]
  BY <1>1
<1>5. link'[h].state = "open" /\ link'[h].gatt = "none"
  <2>1. link[h] \in Link /\ link'[h] = [link[h] EXCEPT !.state = "open"]
    BY <1>1
  <2>2. QED
    BY <1>1, <2>1 DEF Link
<1>6. ASSUME ~reused' PROVE WalkOf(h)'
  <2>1. ~InUse(h)
    BY <1>1, <1>6 DEF WalkInv, WalkOf
  <2>2. ~About(evq, HandleEventType, h)
    BY <2>1, InUseIsAbout
  <2>3. Step \in SUBSET HandleEventType /\ {"closed"} \in SUBSET HandleEventType
    BY DEF Step, HandleEventType
  <2>4. ~About(evq, Step, h) /\ AtMostOne(evq, Step, h) /\ ~About(evq, {"closed"}, h)
    BY <2>2, <2>3, NotInUse
  <2>5. /\ AtMostOne(evq', Step, h)
        /\ About(evq', Step, h) <=> About(evq, Step, h) \/ (e.type \in Step /\ e.handle = h)
    BY <1>1, <1>2, <2>4, AboutAppended
  <2>6. About(evq', Step, h)
    BY <1>2, <2>5 DEF Step
  <2>7. ~About(evq', {"closed"}, h)
    <3>1. About(evq', {"closed"}, h) <=>
            About(evq, {"closed"}, h) \/ (e.type \in {"closed"} /\ e.handle = h)
      BY <1>1, <1>2, AboutAppended
    <3>2. QED
      BY <1>2, <2>4, <3>1
  <2>8. \A s : ~EntryIs(db', h, s)
    BY <1>1, <2>1, NoEntry
  <2>9. QED
    BY <1>5, <2>5, <2>6, <2>7, <2>8 DEF WalkOf
<1>7. ASSUME ~reused', NEW g \in Handle PROVE WalkOf(g)'
  <2>1. CASE g = h
    BY <1>6, <1>7, <2>1
  <2>2. CASE g # h
    <3>1. WalkOf(g) /\ link'[g] = link[g] /\ e.handle # g
      BY <1>1, <1>2, <1>4, <1>7, <2>2 DEF WalkInv
    <3>2. QED
      BY <1>1, <1>2, <3>1, AddedUntouched
  <2>3. QED
    BY <2>1, <2>2
<1>8. QED
  BY <1>3, <1>7 DEF WalkInv

LEMMA LoseLinkWalk ==
  ASSUME BaseInv, WalkInv, UNCHANGED hostVars, NEW h \in Handle, LoseLink(h)
  PROVE  WalkInv'
<1>1. /\ reused' = reused /\ failures' = failures
      /\ link' = [link EXCEPT ![h] = FreeLink]
      /\ UNCHANGED <<alive, db>> /\ evq \in Seq(Message)
      /\ link \in [Handle -> Link]
  BY LoseLinkBase DEF hostVars, BaseInv, TypeOK, NcpTypeOK
<1>2. PICK e \in Message : e.type = "closed" /\ e.handle = h /\ evq' = Append(evq, e)
  BY LoseLinkBase
<1>3. Completes(evq')
  BY <1>1, <1>2, CompletesAdded DEF WalkInv
<1>4. link'[h].state = "free" /\ \A g \in Handle : g # h => link'[g] = link[g]
  BY <1>1, FreeLinkFields
<1>5. ASSUME ~reused', NEW g \in Handle PROVE WalkOf(g)'
  <2>1. CASE g = h
    BY <1>4, <2>1 DEF WalkOf
  <2>2. CASE g # h
    <3>1. WalkOf(g) /\ link'[g] = link[g] /\ e.handle # g
      BY <1>1, <1>2, <1>4, <1>5, <2>2 DEF WalkInv
    <3>2. QED
      BY <1>1, <1>2, <3>1, AddedUntouched
  <2>3. QED
    BY <2>1, <2>2
<1>6. QED
  BY <1>3, <1>5 DEF WalkInv

(* A procedure has ended, and its completion is what comes next.           *)
LEMMA EndedWalk ==
  ASSUME BaseInv, NEW h \in Handle, WalkOf(h),
         link[h].state = "open", link[h].gatt # "none",
         link'[h].state = "open", link'[h].gatt = "none",
         failures' = 0 => /\ failures = 0
                          /\ link[h].gatt = "write" => link'[h].enabled,
         UNCHANGED <<alive, db>>,
         NEW r \in Seq(Message), Unmoved(evq, r, h),
         NEW c \in Message, c.type = "completed", c.handle = h, evq' = Append(r, c)
  PROVE  WalkOf(h)'
<1>1. /\ ~About(evq, {"closed"}, h) /\ ~About(evq, Step, h) /\ AtMostOne(evq, Step, h)
      /\ ~EntryIs(db, h, "RUNNING")
      /\ failures = 0 => (EntryIs(db, h, "ENABLE_CTE") => link[h].gatt = "write")
  BY DEF WalkOf
<1>2. ~About(r, {"closed"}, h) /\ ~About(r, Step, h) /\ AtMostOne(r, Step, h)
  BY <1>1 DEF Unmoved
<1>3. /\ About(evq', Step, h) <=> About(r, Step, h) \/ (c.type \in Step /\ c.handle = h)
      /\ AtMostOne(evq', Step, h)
  BY <1>2, AboutAppended
<1>4. About(evq', Step, h)
  BY <1>3 DEF Step
<1>5. ~About(evq', {"closed"}, h)
  <2>1. About(evq', {"closed"}, h) <=> About(r, {"closed"}, h) \/ (c.type \in {"closed"} /\ c.handle = h)
    BY AboutAppended
  <2>2. QED
    BY <1>2, <2>1
<1>6. QED
  BY <1>1, <1>3, <1>4, <1>5 DEF WalkOf

LEMMA FailGattWalk ==
  ASSUME BaseInv, WalkInv, UNCHANGED hostVars, NEW h \in Handle, FailGatt(h)
  PROVE  WalkInv'
<1>1. /\ reused' = reused /\ failures' # 0 /\ SameLinks
      /\ link[h].state = "open" /\ link[h].gatt # "none" /\ link'[h].gatt = "none"
      /\ \A g \in Handle : g # h => link'[g] = link[g]
      /\ UNCHANGED <<alive, db>> /\ evq \in Seq(Message)
  BY FailGattBase DEF hostVars, BaseInv, TypeOK, NcpTypeOK
<1>2. PICK c \in Message : c.type = "completed" /\ c.handle = h /\ evq' = Append(evq, c)
  BY FailGattBase
<1>3. Completes(evq')
  BY <1>1, <1>2, CompletesAdded DEF WalkInv
<1>4. ASSUME ~reused', NEW g \in Handle PROVE WalkOf(g)'
  <2>1. WalkOf(g)
    BY <1>1, <1>4 DEF WalkInv
  <2>2. CASE g = h
    <3>1. Unmoved(evq, evq, h) /\ link'[h].state = "open"
      BY <1>1 DEF Unmoved, SameLinks
    <3>2. QED
      BY <1>1, <1>2, <2>1, <2>2, <3>1, EndedWalk
  <2>3. CASE g # h
    BY <1>1, <1>2, <2>1, <2>3, AddedUntouched
  <2>4. QED
    BY <2>2, <2>3
<1>5. QED
  BY <1>3, <1>4 DEF WalkInv

LEMMA CompleteGattWalk ==
  ASSUME BaseInv, WalkInv, UNCHANGED hostVars, NEW h \in Handle, CompleteGatt(h)
  PROVE  WalkInv'
<1>1. /\ reused' = reused /\ failures' = failures /\ SameLinks
      /\ link[h].state = "open" /\ link[h].gatt # "none" /\ link'[h].gatt = "none"
      /\ link'[h].enabled = (link[h].enabled \/ link[h].gatt = "write")
      /\ \A g \in Handle : g # h => link'[g] = link[g]
      /\ UNCHANGED <<alive, db>> /\ evq \in Seq(Message) /\ Completes(evq)
  BY CompleteGattBase DEF hostVars, BaseInv, TypeOK, NcpTypeOK, WalkInv
<1>2. PICK c \in Message :
        /\ c.type = "completed" /\ c.handle = h
        /\ \/ evq' = Append(evq, c)
           \/ \E e \in Message : /\ e.type \in {"service", "characteristic"} /\ e.handle = h
                                 /\ evq' = Append(Append(evq, e), c)
  BY CompleteGattBase
<1>3. \E r \in Seq(Message) :
        /\ evq' = Append(r, c)
        /\ \A g \in Handle : Unmoved(evq, r, g)
        /\ \A g \in Handle : g # h =>
             (About(r, HandleEventType, g) => About(evq, HandleEventType, g))
  <2>1. CASE evq' = Append(evq, c)
    BY <1>1, <2>1 DEF Unmoved
  <2>2. ASSUME NEW e \in Message, e.type \in {"service", "characteristic"}, e.handle = h,
               evq' = Append(Append(evq, e), c)
        PROVE  \E r \in Seq(Message) :
                 /\ evq' = Append(r, c)
                 /\ \A g \in Handle : Unmoved(evq, r, g)
                 /\ \A g \in Handle : g # h =>
                      (About(r, HandleEventType, g) => About(evq, HandleEventType, g))
    <3>1. Append(evq, e) \in Seq(Message)
      BY <1>1, AppendProperties
    <3>2. \A g \in Handle : Unmoved(evq, Append(evq, e), g)
      BY <1>1, <2>2, UnmovedAdded
    <3>3. \A g \in Handle : g # h =>
            (About(Append(evq, e), HandleEventType, g) => About(evq, HandleEventType, g))
      BY <1>1, <2>2, InUseAdded
    <3>4. QED
      BY <2>2, <3>1, <3>2, <3>3
  <2>3. QED
    BY <1>2, <2>1, <2>2
<1>4. Completes(evq')
  BY <1>1, <1>2, CompletesAdded, CompletesBoth
<1>5. PICK r \in Seq(Message) :
        /\ evq' = Append(r, c)
        /\ \A g \in Handle : Unmoved(evq, r, g)
        /\ \A g \in Handle : g # h =>
             (About(r, HandleEventType, g) => About(evq, HandleEventType, g))
  BY <1>3
<1>6. ASSUME ~reused', NEW g \in Handle PROVE WalkOf(g)'
  <2>1. WalkOf(g)
    BY <1>1, <1>6 DEF WalkInv
  <2>2. CASE g = h
    <3>1. Unmoved(evq, r, h) /\ link'[h].state = "open"
      BY <1>1, <1>5 DEF SameLinks
    <3>2. link[h].gatt = "write" => link'[h].enabled
      BY <1>1
    <3>3. QED
      BY <1>1, <1>2, <1>5, <2>1, <2>2, <3>1, <3>2, EndedWalk
  <2>3. CASE g # h
    <3>1. Unmoved(r, evq', g)
      BY <1>2, <1>5, <2>3, UnmovedAdded
    <3>2. Unmoved(evq, evq', g)
      BY <1>5, <3>1 DEF Unmoved
    <3>3. About(evq', HandleEventType, g) => About(evq, HandleEventType, g)
      BY <1>2, <1>5, <2>3, InUseAdded
    <3>4. QED
      BY <1>1, <2>1, <2>3, <3>2, <3>3, WalkUntouched
  <2>4. QED
    BY <2>2, <2>3
<1>7. QED
  BY <1>4, <1>6 DEF WalkInv

LEMMA NcpKeeps ==
  ASSUME Inv, UNCHANGED hostVars, NcpNext
  PROVE  Inv'
<1>1. BaseInv /\ WalkInv /\ ScannerNeverStranded
  BY DEF Inv
<1>2. ASSUME NEW t \in Tag, Advertise(t) PROVE BaseInv' /\ WalkInv'
  BY <1>1, <1>2, AdvertiseBase, AdvertiseWalk
<1>3. ASSUME NEW h \in Handle, Establish(h) PROVE BaseInv' /\ WalkInv'
  BY <1>1, <1>3, EstablishBase, EstablishWalk
<1>4. ASSUME NEW h \in Handle, LoseLink(h) PROVE BaseInv' /\ WalkInv'
  BY <1>1, <1>4, LoseLinkBase, LoseLinkWalk
<1>5. ASSUME NEW h \in Handle, CompleteGatt(h) PROVE BaseInv' /\ WalkInv'
  BY <1>1, <1>5, CompleteGattBase, CompleteGattWalk
<1>6. ASSUME NEW h \in Handle, FailGatt(h) PROVE BaseInv' /\ WalkInv'
  BY <1>1, <1>6, FailGattBase, FailGattWalk
<1>7. ASSUME NEW h \in Handle, SampleCte(h) PROVE BaseInv' /\ WalkInv'
  BY <1>1, <1>7, SampleCteBase, SampleCteWalk
<1>8. BaseInv' /\ WalkInv'
  BY <1>2, <1>3, <1>4, <1>5, <1>6, <1>7 DEF NcpNext
<1>9. ScannerNeverStranded'
  BY <1>1, NcpScanner
<1>10. QED
  BY <1>8, <1>9 DEF Inv

-----------------------------------------------------------------------------
(* The walk, step by step of the handler.                                  *)

LEMMA TakenUntouched ==
  ASSUME BaseInv, alive, evq # <<>>, evq' = Tail(evq), failures' = failures,
         NEW g \in Handle, WalkOf(g), link'[g] = link[g],
         ~(Head(evq).type \in Step /\ Head(evq).handle = g),
         \A s : EntryIs(db', g, s) <=> EntryIs(db, g, s)
  PROVE  WalkOf(g)'
<1>1. evq \in Seq(Message)
  BY DEF BaseInv, TypeOK, NcpTypeOK
<1>2. Unmoved(evq, evq', g)
  BY <1>1, UnmovedTaken
<1>3. About(evq', HandleEventType, g) => About(evq, HandleEventType, g)
  BY <1>1, InUseTaken
<1>4. QED
  BY <1>2, <1>3, WalkUntouched

(* The handle an event is about is not connecting; if it is open, then the *)
(* event is not that it was closed, and a step is the only one under way.  *)
LEMMA HeadWalk ==
  ASSUME evq \in Seq(Message), evq # <<>>, NEW h \in Handle, WalkOf(h),
         Head(evq).type \in HandleEventType, Head(evq).handle = h
  PROVE  /\ link[h].state # "pending"
         /\ link[h].state = "open" =>
              /\ Head(evq).type # "closed"
              /\ ~About(Tail(evq), {"closed"}, h)
              /\ AtMostOne(Tail(evq), Step, h)
              /\ Head(evq).type \in Step =>
                   /\ ~About(Tail(evq), Step, h)
                   /\ link[h].gatt = "none" /\ ~EntryIs(db, h, "RUNNING")
                   /\ failures = 0 /\ EntryIs(db, h, "ENABLE_CTE") => link[h].enabled
<1>1. InUse(h)
  <2>1. About(evq, HandleEventType, h)
    BY AboutTaken
  <2>2. QED
    BY <2>1, InUseIsAbout
<1>2. /\ About(evq, {"closed"}, h) <=>
           (Head(evq).type \in {"closed"} /\ Head(evq).handle = h) \/ About(Tail(evq), {"closed"}, h)
  BY AboutTaken
<1>3. /\ About(evq, Step, h) <=>
           (Head(evq).type \in Step /\ Head(evq).handle = h) \/ About(Tail(evq), Step, h)
      /\ AtMostOne(evq, Step, h) =>
           /\ AtMostOne(Tail(evq), Step, h)
           /\ Head(evq).type \in Step /\ Head(evq).handle = h => ~About(Tail(evq), Step, h)
  BY AboutTaken
<1>4. link[h].state # "pending"
  BY <1>1 DEF WalkOf
<1>5. ASSUME link[h].state = "open"
      PROVE  /\ Head(evq).type # "closed"
             /\ ~About(Tail(evq), {"closed"}, h)
             /\ AtMostOne(Tail(evq), Step, h)
             /\ Head(evq).type \in Step =>
                  /\ ~About(Tail(evq), Step, h)
                  /\ link[h].gatt = "none" /\ ~EntryIs(db, h, "RUNNING")
                  /\ failures = 0 /\ EntryIs(db, h, "ENABLE_CTE") => link[h].enabled
  <2>1. /\ ~About(evq, {"closed"}, h) /\ AtMostOne(evq, Step, h)
        /\ About(evq, Step, h) => link[h].gatt = "none" /\ ~EntryIs(db, h, "RUNNING")
        /\ failures = 0 /\ EntryIs(db, h, "ENABLE_CTE") /\ About(evq, Step, h) => link[h].enabled
    BY <1>5 DEF WalkOf
  <2>2. QED
    BY <1>2, <1>3, <2>1
<1>6. QED
  BY <1>4, <1>5

LEMMA ScanReportWalk ==
  ASSUME BaseInv, WalkInv, ScanReport
  PROVE  WalkInv'
<1>1. /\ alive /\ evq \in Seq(Message) /\ evq # <<>> /\ evq' = Tail(evq)
      /\ Head(evq).type = "scan_report"
  BY Received DEF BaseInv, ScanReport
<1>2. /\ db' = db /\ failures' = failures
      /\ \/ link' = link /\ reused' = reused
         \/ \E h \in Handle :
              /\ link[h].state = "free"
              /\ \A g \in Handle : g # h => link'[g] = link[g]
              /\ link'[h].state = "pending"
              /\ reused' = (reused \/ InUse(h))
  BY ScanReportBase
<1>3. Completes(evq')
  BY <1>1, CompletesTaken DEF WalkInv
<1>4. Head(evq).type \notin Step
  BY <1>1 DEF Step
<1>5. ASSUME NEW g \in Handle, WalkOf(g), link'[g] = link[g] PROVE WalkOf(g)'
  BY <1>1, <1>2, <1>4, <1>5, TakenUntouched
<1>6. CASE link' = link /\ reused' = reused
  BY <1>3, <1>5, <1>6 DEF WalkInv
<1>7. ASSUME NEW h \in Handle,
             \A g \in Handle : g # h => link'[g] = link[g],
             link'[h].state = "pending",
             reused' = (reused \/ InUse(h))
      PROVE  WalkInv'
  <2>1. ASSUME ~reused' PROVE WalkOf(h)'
    <3>1. ~About(evq, HandleEventType, h)
      BY <1>7, <2>1, InUseIsAbout
    <3>2. ~About(evq', HandleEventType, h)
      BY <1>1, <3>1, InUseTaken
    <3>3. ~InUse(h)'
      BY <3>2 DEF InUse, About
    <3>4. QED
      BY <1>7, <3>3 DEF WalkOf
  <2>2. ASSUME ~reused', NEW g \in Handle, g # h PROVE WalkOf(g)'
    BY <1>5, <1>7, <2>2 DEF WalkInv
  <2>3. QED
    BY <1>3, <2>1, <2>2 DEF WalkInv
<1>8. QED
  BY <1>2, <1>6, <1>7

LEMMA ConnectionOpenedWalk ==
  ASSUME BaseInv, WalkInv, ConnectionOpened, UNCHANGED reused
  PROVE  WalkInv'
<1>1. /\ alive /\ evq \in Seq(Message) /\ evq # <<>> /\ evq' = Tail(evq)
      /\ Head(evq).type = "opened"
  BY Received DEF BaseInv, ConnectionOpened
<1>h. PICK h \in Handle : h = Head(evq).handle
  BY <1>1, MessageFields, TailPositions DEF HandleEventType
<1>2. /\ failures' = failures  /\ SameLinks
      /\ \A g \in Handle : g # h => link'[g] = link[g]
      /\ alive' = GattReady(h)
      /\ GattReady(h) => link'[h].gatt = "services"
      /\ \E e : /\ \A x : In(x, db') <=> In(x, db) \/ x = e
               /\ e.handle = h /\ e.connection_state = "DISCOVER_SERVICES"
      /\ \A x : In(x, db) => x.handle # h
  BY <1>h, ConnectionOpenedBase
<1>3. Completes(evq')
  BY <1>h, <1>1, CompletesTaken DEF WalkInv
<1>4. Head(evq).type \in Step /\ Head(evq).type \in HandleEventType /\ Head(evq).handle = h
  BY <1>h, <1>1 DEF Step, HandleEventType
<1>5. \A g, s : g # h => (EntryIs(db', g, s) <=> EntryIs(db, g, s))
  BY <1>2, EntryIsIn
<1>6. ~EntryIs(db', h, "RUNNING") /\ ~EntryIs(db', h, "ENABLE_CTE")
  BY <1>2, EntryIsIn
<1>7. ASSUME WalkOf(h) PROVE WalkOf(h)'
  <2>1. link[h].state # "pending" /\ link'[h].state = link[h].state
    BY <1>1, <1>2, <1>4, <1>7, HeadWalk DEF SameLinks
  <2>2. CASE link[h].state # "open"
    BY <2>1, <2>2 DEF WalkOf
  <2>3. CASE link[h].state = "open"
    <3>1. /\ ~About(evq', {"closed"}, h) /\ AtMostOne(evq', Step, h)
          /\ ~About(evq', Step, h) /\ link[h].gatt = "none"
      BY <1>1, <1>2, <1>4, <1>7, <2>3, HeadWalk
    <3>2. link'[h].gatt = "services"
      BY <1>2, <2>3, <3>1 DEF GattReady
    <3>3. QED
      BY <1>6, <2>1, <2>3, <3>1, <3>2 DEF WalkOf
  <2>4. QED
    BY <2>2, <2>3
<1>8. ASSUME NEW g \in Handle, WalkOf(g), g # h PROVE WalkOf(g)'
  BY <1>1, <1>2, <1>4, <1>5, <1>8, TakenUntouched
<1>9. QED
  BY <1>2, <1>3, <1>7, <1>8 DEF WalkInv

LEMMA ConnectionClosedWalk ==
  ASSUME BaseInv, WalkInv, ConnectionClosed, UNCHANGED reused
  PROVE  WalkInv'
<1>1. /\ alive /\ evq \in Seq(Message) /\ evq # <<>> /\ evq' = Tail(evq)
      /\ Head(evq).type = "closed"
  BY Received DEF BaseInv, ConnectionClosed
<1>h. PICK h \in Handle : h = Head(evq).handle
  BY <1>1, MessageFields, TailPositions DEF HandleEventType
<1>2. /\ UNCHANGED <<link, failures, alive>> 
      /\ \A x : In(x, db') <=> In(x, db) /\ x.handle # h
  BY <1>h, ConnectionClosedBase
<1>3. Completes(evq')
  BY <1>h, <1>1, CompletesTaken DEF WalkInv
<1>4. Head(evq).type \notin Step /\ Head(evq).type \in HandleEventType /\ Head(evq).handle = h
  BY <1>h, <1>1 DEF Step, HandleEventType
<1>5. \A g, s : g # h => (EntryIs(db', g, s) <=> EntryIs(db, g, s))
  BY <1>2, EntryIsIn
<1>6. ASSUME WalkOf(h) PROVE WalkOf(h)'
  <2>1. link[h].state # "pending" /\ link[h].state # "open" /\ link' = link
    BY <1>1, <1>2, <1>4, <1>6, HeadWalk
  <2>2. QED
    BY <2>1 DEF WalkOf
<1>7. ASSUME NEW g \in Handle, WalkOf(g), g # h PROVE WalkOf(g)'
  BY <1>1, <1>2, <1>4, <1>5, <1>7, TakenUntouched
<1>8. QED
  BY <1>2, <1>3, <1>6, <1>7 DEF WalkInv

(* An event that changes neither connections nor the states of entries.    *)
LEMMA NothingElseWalk ==
  ASSUME BaseInv, WalkInv, UNCHANGED <<link, failures, reused>>,
         alive, evq # <<>>, evq' = Tail(evq), Head(evq).type \notin Step,
         \A g, s : EntryIs(db', g, s) <=> EntryIs(db, g, s)
  PROVE  WalkInv'
<1>1. Completes(evq')
  BY CompletesTaken DEF WalkInv, BaseInv, TypeOK, NcpTypeOK
<1>2. ASSUME NEW g \in Handle, WalkOf(g) PROVE WalkOf(g)'
  BY <1>2, TakenUntouched
<1>3. QED
  BY <1>1, <1>2 DEF WalkInv

LEMMA SystemBootWalk ==
  ASSUME BaseInv, WalkInv, SystemBoot, UNCHANGED reused
  PROVE  WalkInv'
<1>1. /\ alive /\ evq # <<>> /\ evq' = Tail(evq) /\ Head(evq).type = "boot"
  BY Received DEF BaseInv, SystemBoot
<1>2. UNCHANGED <<link, db, failures>>
  BY SystemBootBase
<1>3. QED
  BY <1>1, <1>2, NothingElseWalk DEF Step

LEMMA IqReportWalk ==
  ASSUME BaseInv, WalkInv, IqReport, UNCHANGED reused
  PROVE  WalkInv'
<1>1. /\ alive /\ evq # <<>> /\ evq' = Tail(evq) /\ Head(evq).type = "iq_report"
  BY Received DEF BaseInv, IqReport
<1>2. UNCHANGED <<link, db, failures>>
  BY IqReportBase
<1>3. QED
  BY <1>1, <1>2, NothingElseWalk DEF Step

LEMMA GattServiceWalk ==
  ASSUME BaseInv, WalkInv, GattService, UNCHANGED reused
  PROVE  WalkInv'
<1>1. /\ alive /\ evq # <<>> /\ evq' = Tail(evq) /\ Head(evq).type = "service"
  BY Received DEF BaseInv, GattService
<1>2. /\ UNCHANGED <<link, failures>> /\ DOMAIN db' = DOMAIN db
      /\ \A j \in DOMAIN db : /\ db'[j].handle = db[j].handle
                              /\ db'[j].connection_state = db[j].connection_state
  BY GattServiceBase
<1>3. \A g, s : EntryIs(db', g, s) <=> EntryIs(db, g, s)
  BY <1>2 DEF EntryIs
<1>4. QED
  BY <1>1, <1>2, <1>3, NothingElseWalk DEF Step

LEMMA GattCharacteristicWalk ==
  ASSUME BaseInv, WalkInv, GattCharacteristic, UNCHANGED reused
  PROVE  WalkInv'
<1>1. /\ alive /\ evq \in Seq(Message) /\ evq # <<>> /\ evq' = Tail(evq)
      /\ Head(evq).type = "characteristic"
  BY Received DEF BaseInv, GattCharacteristic, HandleEventType
<1>h. PICK h \in Handle : h = Head(evq).handle
  BY <1>1, MessageFields, TailPositions DEF HandleEventType
<1>2. /\ UNCHANGED <<link, alive, failures>> /\ DOMAIN db' = DOMAIN db
      /\ \A j \in DOMAIN db :
           /\ db'[j].handle = db[j].handle
           /\ db[j].handle # h => db'[j].connection_state = db[j].connection_state
           /\ \/ db'[j].connection_state = db[j].connection_state
              \/ db'[j].connection_state = "DISCOVER_CHARACTERISTICS"
  BY <1>h, GattCharacteristicBase
<1>3. Completes(evq') /\ About(evq', Step, h)
  BY <1>h, <1>1, CompletesTaken DEF WalkInv
<1>4. Head(evq).type \notin Step /\ Head(evq).type \in HandleEventType /\ Head(evq).handle = h
  BY <1>h, <1>1 DEF Step, HandleEventType
<1>5. \A g, s : g # h => (EntryIs(db', g, s) <=> EntryIs(db, g, s))
  BY <1>2 DEF EntryIs
<1>6. /\ EntryIs(db', h, "RUNNING") => EntryIs(db, h, "RUNNING")
      /\ EntryIs(db', h, "ENABLE_CTE") => EntryIs(db, h, "ENABLE_CTE")
  BY <1>2 DEF EntryIs
<1>7. ASSUME WalkOf(h) PROVE WalkOf(h)'
  <2>1. link[h].state # "pending"
    BY <1>1, <1>4, <1>7, HeadWalk
  <2>2. CASE link[h].state # "open"
    BY <1>2, <2>1, <2>2 DEF WalkOf
  <2>3. CASE link[h].state = "open"
    <3>1. /\ ~About(evq', {"closed"}, h) /\ AtMostOne(evq', Step, h)
      BY <1>1, <1>4, <1>7, <2>3, HeadWalk
    <3>2. About(evq, Step, h)
      <4>1. About(evq, Step, h) <=>
              (Head(evq).type \in Step /\ Head(evq).handle = h) \/ About(Tail(evq), Step, h)
        BY <1>1, AboutTaken
      <4>2. QED
        BY <1>1, <1>3, <4>1
    <3>3. /\ link[h].gatt = "none" /\ ~EntryIs(db, h, "RUNNING")
          /\ failures = 0 /\ EntryIs(db, h, "ENABLE_CTE") => link[h].enabled
      BY <1>7, <2>3, <3>2 DEF WalkOf
    <3>4. ~EntryIs(db', h, "RUNNING") /\ (failures = 0 /\ EntryIs(db', h, "ENABLE_CTE") => link[h].enabled)
      BY <1>6, <3>3
    <3>5. QED
      BY <1>2, <1>3, <2>3, <3>1, <3>3, <3>4 DEF WalkOf
  <2>4. QED
    BY <2>2, <2>3
<1>8. ASSUME NEW g \in Handle, WalkOf(g), g # h PROVE WalkOf(g)'
  BY <1>1, <1>2, <1>4, <1>5, <1>8, TakenUntouched
<1>9. QED
  BY <1>1, <1>3, <1>7, <1>8 DEF WalkInv

(* The database has one entry of a handle.                                 *)
LEMMA OneEntryEach ==
  ASSUME BaseInv
  PROVE  OneEach(db)
  BY DEF BaseInv, Agreed, Agree, Shows

LEMMA ProcedureCompletedWalk ==
  ASSUME BaseInv, WalkInv, ProcedureCompleted, UNCHANGED reused
  PROVE  WalkInv'
<1>1. /\ alive /\ evq \in Seq(Message) /\ evq # <<>> /\ evq' = Tail(evq)
      /\ Head(evq).type = "completed"
  BY Received DEF BaseInv, ProcedureCompleted
<1>h. PICK h \in Handle : h = Head(evq).handle
  BY <1>1, MessageFields, TailPositions DEF HandleEventType
<1>2. PICK i \in DOMAIN db :
        /\ db[i].handle = h /\ failures' = failures
        /\ \A g \in Handle : g # h => link'[g] = link[g]
        /\ SameLinks /\ SameTags(db')
        /\ \A j \in DOMAIN db : j # i => db'[j] = db[j]
        /\ \/ /\ db[i].connection_state = "DISCOVER_SERVICES"
              /\ db' = db
              /\ \/ ~alive' /\ link' = link
                 \/ alive' = GattReady(h) /\ (GattReady(h) => link'[h].gatt # "none")
                    /\ (~GattReady(h) => link' = link)
           \/ /\ db[i].connection_state = "DISCOVER_CHARACTERISTICS"
              /\ alive' = GattReady(h)
              /\ GattReady(h) => /\ link'[h].gatt = "write"
                                 /\ db'[i].connection_state = "ENABLE_CTE"
              /\ ~GattReady(h) => db' = db /\ link' = link
           \/ /\ db[i].connection_state = "ENABLE_CTE"
              /\ alive' = (link[h].state = "open")
              /\ alive' => /\ link'[h].cte = TRUE
                           /\ link'[h].enabled = link[h].enabled
                           /\ link'[h].gatt = link[h].gatt
                           /\ db'[i].connection_state = "RUNNING"
              /\ ~alive' => db' = db /\ link' = link
           \/ /\ db[i].connection_state = "RUNNING"
              /\ UNCHANGED <<link, db, scanning, alive>>
  BY <1>h, ProcedureCompletedBase
<1>3. Completes(evq')
  BY <1>h, <1>1, CompletesTaken DEF WalkInv
<1>4. Head(evq).type \in Step /\ Head(evq).type \in HandleEventType /\ Head(evq).handle = h
  BY <1>h, <1>1 DEF Step, HandleEventType
<1>5. \A g, s : g # h => (EntryIs(db', g, s) <=> EntryIs(db, g, s))
  BY <1>2 DEF EntryIs, SameTags
<1>6. /\ \A s : EntryIs(db, h, s) <=> db[i].connection_state = s
      /\ \A s : EntryIs(db', h, s) <=> db'[i].connection_state = s
  <2>1. \A j \in DOMAIN db : db[j].handle = h <=> j = i
    BY <1>2, OneEntryEach DEF OneEach
  <2>2. DOMAIN db' = DOMAIN db /\ \A j \in DOMAIN db : db'[j].handle = h <=> j = i
    BY <1>2, <2>1 DEF SameTags
  <2>3. QED
    BY <1>2, <2>1, <2>2 DEF EntryIs
<1>7. ASSUME WalkOf(h) PROVE WalkOf(h)'
  <2>1. link[h].state # "pending" /\ link'[h].state = link[h].state
    BY <1>1, <1>2, <1>4, <1>7, HeadWalk DEF SameLinks
  <2>2. CASE link[h].state # "open"
    BY <2>1, <2>2 DEF WalkOf
  <2>3. CASE link[h].state = "open"
    <3>1. /\ ~About(evq', {"closed"}, h) /\ AtMostOne(evq', Step, h) /\ ~About(evq', Step, h)
          /\ link[h].gatt = "none" /\ ~EntryIs(db, h, "RUNNING")
          /\ failures = 0 /\ EntryIs(db, h, "ENABLE_CTE") => link[h].enabled
      BY <1>1, <1>2, <1>4, <1>7, <2>3, HeadWalk
    <3>2. GattReady(h) /\ link'[h].state = "open"
      BY <2>1, <2>3, <3>1 DEF GattReady
    <3> DEFINE RR == EntryIs(db', h, "RUNNING")
               CC == EntryIs(db', h, "ENABLE_CTE")
    <3>3. /\ (link'[h].gatt # "none" => ~RR)
          /\ (alive' => link'[h].gatt # "none" \/ RR)
          /\ (failures' = 0 =>
               /\ CC /\ link'[h].gatt # "none" => link'[h].gatt = "write"
               /\ RR => link'[h].enabled /\ link'[h].cte)
      <4>1. (RR <=> db'[i].connection_state = "RUNNING") /\ (CC <=> db'[i].connection_state = "ENABLE_CTE")
        BY <1>6
      <4>2. db[i].connection_state # "RUNNING"
            /\ (failures = 0 /\ db[i].connection_state = "ENABLE_CTE" => link[h].enabled)
        BY <1>6, <3>1
      <4> HIDE DEF RR, CC
      <4>3. CASE /\ db[i].connection_state = "DISCOVER_SERVICES"
                 /\ db' = db
                 /\ \/ ~alive' /\ link' = link
                    \/ alive' = GattReady(h) /\ (GattReady(h) => link'[h].gatt # "none")
        BY <3>1, <3>2, <4>1, <4>3
      <4>4. CASE /\ db[i].connection_state = "DISCOVER_CHARACTERISTICS"
                 /\ link'[h].gatt = "write"
                 /\ db'[i].connection_state = "ENABLE_CTE"
        BY <4>1, <4>4
      <4>5. CASE /\ db[i].connection_state = "ENABLE_CTE"
                 /\ link'[h].cte = TRUE
                 /\ link'[h].enabled = link[h].enabled
                 /\ link'[h].gatt = link[h].gatt
                 /\ db'[i].connection_state = "RUNNING"
        BY <1>2, <3>1, <4>1, <4>2, <4>5
      <4>6. QED
        BY <1>2, <2>3, <3>2, <4>2, <4>3, <4>4, <4>5
    <3> HIDE DEF RR, CC
    <3>4. QED
      BY <3>1, <3>2, <3>3 DEF WalkOf, RR, CC
  <2>4. QED
    BY <2>2, <2>3
<1>8. ASSUME NEW g \in Handle, WalkOf(g), g # h PROVE WalkOf(g)'
  BY <1>1, <1>2, <1>4, <1>5, <1>8, TakenUntouched
<1>9. QED
  BY <1>2, <1>3, <1>7, <1>8 DEF WalkInv

-----------------------------------------------------------------------------
(* The invariant holds.                                                    *)

LEMMA BootsOnly ==
  ASSUME NEW q, \A i \in DOMAIN q : q[i].type = "boot"
  PROVE  Completes(q)
  BY DEF Completes

LEMMA InvInitially == Init => Inv
<1> SUFFICES ASSUME Init PROVE Inv
  OBVIOUS
<1>1. /\ BaseInv /\ BootPending
      /\ \A h \in Handle : link[h] = FreeLink
      /\ \A i \in DOMAIN evq : evq[i].type = "boot"
  BY BaseInitially
<1>2. \A h \in Handle : WalkOf(h)
  BY <1>1, FreeLinkFields DEF WalkOf
<1>3. WalkInv /\ ScannerNeverStranded
  BY <1>1, <1>2, BootsOnly DEF WalkInv, ScannerNeverStranded
<1>4. QED
  BY <1>1, <1>3 DEF Inv

LEMMA HandlerKeeps ==
  ASSUME Inv, HandleEvent
  PROVE  Inv'
<1>1. BaseInv /\ WalkInv /\ ScannerNeverStranded
  BY DEF Inv
<1>2. ScannerNeverStranded'
  BY <1>1, HandlerScanner
<1>3. CASE ScanReport
  BY <1>1, <1>2, <1>3, ScanReportBase, ScanReportWalk DEF Inv
<1>4. CASE SystemBoot /\ UNCHANGED reused
  BY <1>1, <1>2, <1>4, SystemBootBase, SystemBootWalk DEF Inv
<1>5. CASE ConnectionOpened /\ UNCHANGED reused
  BY <1>1, <1>2, <1>5, ConnectionOpenedBase, ConnectionOpenedWalk DEF Inv
<1>6. CASE GattService /\ UNCHANGED reused
  BY <1>1, <1>2, <1>6, GattServiceBase, GattServiceWalk DEF Inv
<1>7. CASE GattCharacteristic /\ UNCHANGED reused
  BY <1>1, <1>2, <1>7, GattCharacteristicBase, GattCharacteristicWalk DEF Inv
<1>8. CASE ProcedureCompleted /\ UNCHANGED reused
  BY <1>1, <1>2, <1>8, ProcedureCompletedBase, ProcedureCompletedWalk DEF Inv
<1>9. CASE ConnectionClosed /\ UNCHANGED reused
  BY <1>1, <1>2, <1>9, ConnectionClosedBase, ConnectionClosedWalk DEF Inv
<1>10. CASE IqReport /\ UNCHANGED reused
  BY <1>1, <1>2, <1>10, IqReportBase, IqReportWalk DEF Inv
<1>11. QED
  BY <1>3, <1>4, <1>5, <1>6, <1>7, <1>8, <1>9, <1>10 DEF HandleEvent

LEMMA ConfigKeeps ==
  ASSUME Inv, ConfigMessage
  PROVE  Inv'
<1>1. /\ BaseInv' /\ BootPending'
      /\ \A h \in Handle : link'[h] = FreeLink
      /\ \A i \in DOMAIN evq' : evq'[i].type = "boot"
  BY ConfigMessageBase DEF Inv
<1>2. \A h \in Handle : WalkOf(h)'
  BY <1>1, FreeLinkFields DEF WalkOf
<1>3. Completes(evq')
  BY <1>1, BootsOnly
<1>4. WalkInv' /\ ScannerNeverStranded'
  BY <1>1, <1>2, <1>3 DEF WalkInv, ScannerNeverStranded
<1>5. QED
  BY <1>1, <1>4 DEF Inv

LEMMA StutterKeeps ==
  ASSUME Inv, UNCHANGED vars
  PROVE  Inv'
<1>1. /\ scanning' = scanning /\ link' = link /\ evq' = evq /\ drops' = drops
      /\ failures' = failures /\ reused' = reused /\ alive' = alive /\ allowlist' = allowlist
      /\ db' = db /\ connections_unavailable' = connections_unavailable /\ configs' = configs
  BY DEF vars, ncpVars, hostVars
<1>2. TypeOK'
  BY <1>1 DEF Inv, BaseInv, TypeOK, NcpTypeOK
<1>3. LinksInv(link') /\ Agreed'
  BY <1>1 DEF Inv, BaseInv, Agreed
<1>4. ScannerNeverStranded'
  BY <1>1 DEF Inv, ScannerNeverStranded, BootPending, AtConnectionLimit, Pending
<1>5. WalkInv'
  <2>1. \A h : InUse(h)' <=> InUse(h)
    BY <1>1 DEF InUse
  <2>2. \A h : WalkOf(h)' <=> WalkOf(h)
    BY <1>1, <2>1 DEF WalkOf
  <2>3. QED
    BY <1>1, <2>2 DEF Inv, WalkInv
<1>6. QED
  BY <1>2, <1>3, <1>4, <1>5 DEF Inv, BaseInv

(* The events on their way, the connection table of the co-processor, the  *)
(* tag database and the walk of every tag fit together, whatever order     *)
(* events, losses, failures and configuration messages come in.            *)
THEOREM InvHolds == Spec => []Inv
<1>1. Init => Inv
  BY InvInitially
<1>2. Inv /\ [Next]_vars => Inv'
  <2> SUFFICES ASSUME Inv, [Next]_vars PROVE Inv'
    OBVIOUS
  <2>1. CASE HandleEvent
    BY <2>1, HandlerKeeps
  <2>2. CASE ConfigMessage
    BY <2>2, ConfigKeeps
  <2>3. CASE NcpNext /\ UNCHANGED hostVars
    BY <2>3, NcpKeeps
  <2>4. CASE UNCHANGED vars
    BY <2>4, StutterKeeps
  <2>5. QED
    BY <2>1, <2>2, <2>3, <2>4 DEF Next
<1>3. QED
  BY <1>1, <1>2, PTL DEF Spec

-----------------------------------------------------------------------------
(* What follows from it.                                                   *)

LEMMA InvShows ==
  ASSUME BaseInv
  PROVE  \E v \in ViewsOf(Handle, Tag, NoTag) :
           /\ Shows(db, v, NoTag) /\ Distinct(v, NoTag)
           /\ Follows(ViewsOf(Handle, Tag, NoTag), NoTag, v, evq, ViewOf(link))
  BY DEF BaseInv, Agreed, Agree

LEMMA ChangesAreOfHandles ==
  ASSUME BaseInv
  PROVE  /\ evq \in Seq(Message)
         /\ \A i \in DOMAIN evq : evq[i].type \in {"opened", "closed"} => evq[i].handle \in Handle
<1>1. evq \in Seq(Message)
  BY DEF BaseInv, TypeOK, NcpTypeOK
<1>2. QED
  BY <1>1, QueueHandles DEF HandleEventType

(* The connection of an entry is open until its closed event is under way. *)
LEMMA EntryIsOpen ==
  ASSUME BaseInv, NEW i \in DOMAIN db, Pending("closed", db[i].handle) = {}
  PROVE  /\ db[i].handle \in Handle
         /\ link[db[i].handle].state = "open"
         /\ ~About(evq, {"opened"}, db[i].handle)
         /\ \A s : EntryIs(db, db[i].handle, s) <=> db[i].connection_state = s
<1> DEFINE V == ViewsOf(Handle, Tag, NoTag)
<1>1. PICK v \in V : /\ Shows(db, v, NoTag)
                     /\ Follows(V, NoTag, v, evq, ViewOf(link))
  BY InvShows
<1>2. PICK h : h = db[i].handle
  OBVIOUS
<1>3. h \in Handle /\ v[h] # NoTag
  BY <1>1, <1>2 DEF Shows, ViewsOf
<1>4. ~About(evq, {"closed"}, h)
  BY <1>2 DEF Pending, About
<1>5. ViewOf(link)[h] = v[h]
  BY <1>1, <1>3, <1>4, NoChange, ChangesAreOfHandles
<1>6. ~About(evq, {"opened"}, h)
  BY <1>1, <1>3, <1>4, NotOpenedAgain, ChangesAreOfHandles
<1>7. link[h].state = "open"
  BY <1>3, <1>5 DEF ViewOf
<1>8. \A s : EntryIs(db, h, s) <=> db[i].connection_state = s
  BY <1>2, OneEntryEach DEF EntryIs, OneEach
<1>9. QED
  BY <1>2, <1>3, <1>6, <1>7, <1>8

(* Every variable has its type.                                            *)
THEOREM TypeCorrect == Spec => []TypeOK
<1>1. Inv => TypeOK
  BY DEF Inv, BaseInv
<1>2. QED
  BY <1>1, InvHolds, PTL

(* The handler never adds a second entry for a handle or an address.       *)
THEOREM NoDuplicates == Spec => []DbHasNoDuplicates
<1>1. Inv => DbHasNoDuplicates
  <2> SUFFICES ASSUME Inv PROVE DbHasNoDuplicates
    OBVIOUS
  <2>1. PICK v \in ViewsOf(Handle, Tag, NoTag) : Shows(db, v, NoTag) /\ Distinct(v, NoTag)
    BY InvShows DEF Inv
  <2>2. QED
    BY <2>1, ShowsOneAddressEach DEF DbHasNoDuplicates
<1>2. QED
  BY <1>1, InvHolds, PTL

(* Once the events under way are handled the database and the connection   *)
(* table agree: no connection is forgotten and no entry is left behind.    *)
THEOREM DbIsFaithful == Spec => []DbFollowsConnections
<1>1. Inv => DbFollowsConnections
  <2> SUFFICES ASSUME Inv, NEW h \in Handle
               PROVE  Settled(h) = IF link[h].state = "open" THEN link[h].peer ELSE NoTag
    BY DEF DbFollowsConnections
  <2>1. /\ BaseInv /\ db \in Seq(Entry(Handle, Tag))
        /\ Agree(Handle, Tag, NoTag, db, evq, ViewOf(link))
    BY DEF Inv, BaseInv, TypeOK, Agreed
  <2>2. SettledIn(db, evq, h, NoTag) = ViewOf(link)[h]
    BY <2>1, AgreeSettles, ChangesAreOfHandles
  <2>3. Settled(h) = SettledIn(db, evq, h, NoTag)
    BY DEF Settled, SettledIn, Pending
  <2>4. QED
    BY <2>2, <2>3 DEF ViewOf
<1>2. QED
  BY <1>1, InvHolds, PTL

(* An event is applied to the entry of the tag that it is about, however   *)
(* soon its handle was given to another.                                   *)
THEOREM RightTag == Spec => []EventsReachTheirTag
<1>1. Inv => EventsReachTheirTag
  BY HeadIsOf DEF Inv, EventsReachTheirTag
<1>2. QED
  BY <1>1, InvHolds, PTL

(* A scanner that is off has every connection taken, or an event under way *)
(* that turns it on.                                                       *)
THEOREM ScannerComesBack == Spec => []ScannerNeverStranded
<1>1. Inv => ScannerNeverStranded
  BY DEF Inv
<1>2. QED
  BY <1>1, InvHolds, PTL

LEMMA NoneOrOne ==
  ASSUME NEW h
  PROVE  /\ ~About(evq, {"completed"}, h) => Cardinality(Pending("completed", h)) = 0
         /\ About(evq, {"completed"}, h) /\ AtMostOne(evq, {"completed"}, h) =>
              Cardinality(Pending("completed", h)) = 1
<1> DEFINE P == Pending("completed", h)
<1>1. \A i : i \in P <=> i \in DOMAIN evq /\ evq[i].type = "completed" /\ evq[i].handle = h
  BY DEF Pending
<1> HIDE DEF P
<1>2. ASSUME ~About(evq, {"completed"}, h) PROVE Cardinality(P) = 0
  <2>1. P = {}
    BY <1>1, <1>2 DEF About
  <2>2. QED
    BY <2>1, FS_EmptySet
<1>3. ASSUME About(evq, {"completed"}, h), AtMostOne(evq, {"completed"}, h)
      PROVE  Cardinality(P) = 1
  <2>1. PICK i : i \in P
    BY <1>1, <1>3 DEF About
  <2>2. P = {i}
    BY <1>1, <1>3, <2>1 DEF AtMostOne
  <2>3. QED
    BY <2>2, FS_Singleton
<1>4. QED
  BY <1>2, <1>3 DEF P

(* A tag on its way to RUNNING has one procedure running or one completion *)
(* under way, and a RUNNING tag has none, unless a handle was given out    *)
(* again too early.                                                        *)
THEOREM OneStepAtATime == Spec => []OneGattStepPending
<1>1. Inv => OneGattStepPending
  <2> SUFFICES ASSUME Inv, alive, ~reused, NEW i \in DOMAIN db, NEW h, h = db[i].handle,
                      Pending("closed", h) = {}
               PROVE  Cardinality(Pending("completed", h))
                        + (IF link[h].gatt = "none" THEN 0 ELSE 1)
                      = IF db[i].connection_state = "RUNNING" THEN 0 ELSE 1
    BY DEF OneGattStepPending
  <2>1. /\ h \in Handle /\ link[h].state = "open" /\ ~About(evq, {"opened"}, h)
        /\ EntryIs(db, h, "RUNNING") <=> db[i].connection_state = "RUNNING"
    BY EntryIsOpen DEF Inv
  <2>2. /\ AtMostOne(evq, Step, h)
        /\ About(evq, Step, h) => link[h].gatt = "none"
        /\ About(evq, Step, h) \/ link[h].gatt # "none" => ~EntryIs(db, h, "RUNNING")
        /\ About(evq, Step, h) \/ link[h].gatt # "none" \/ EntryIs(db, h, "RUNNING")
    BY <2>1 DEF Inv, WalkInv, WalkOf
  <2>3. About(evq, Step, h) <=> About(evq, {"completed"}, h)
    BY <2>1 DEF About, Step
  <2>4. AtMostOne(evq, {"completed"}, h)
    BY <2>2 DEF AtMostOne, Step
  <2>5. CASE About(evq, {"completed"}, h)
    <3>1. Cardinality(Pending("completed", h)) = 1
      BY <2>4, <2>5, NoneOrOne
    <3>2. QED
      BY <2>1, <2>2, <2>3, <2>5, <3>1
  <2>6. CASE ~About(evq, {"completed"}, h)
    <3>1. Cardinality(Pending("completed", h)) = 0
      BY <2>6, NoneOrOne
    <3>2. QED
      BY <2>1, <2>2, <2>3, <2>6, <3>1
  <2>7. QED
    BY <2>5, <2>6
<1>2. QED
  BY <1>1, InvHolds, PTL

(* Without failed procedures, and handles given out again too early, a tag *)
(* that is RUNNING and connected was told to send CTEs, and the receiver   *)
(* listens to it, although the handler never looks at a result.            *)
THEOREM RunningMeansSending == Spec => []RunningTagSendsCte
<1>1. Inv => RunningTagSendsCte
  <2> SUFFICES ASSUME Inv, failures = 0, ~reused, NEW i \in DOMAIN db, NEW h, h = db[i].handle,
                      db[i].connection_state = "RUNNING", Pending("closed", h) = {}
               PROVE  link[h].enabled /\ link[h].cte
    BY DEF RunningTagSendsCte
  <2>1. h \in Handle /\ link[h].state = "open" /\ EntryIs(db, h, "RUNNING")
    BY EntryIsOpen DEF Inv
  <2>2. QED
    BY <2>1 DEF Inv, WalkInv, WalkOf
<1>2. QED
  BY <1>1, InvHolds, PTL

-----------------------------------------------------------------------------
(* Without faults the handler never returns an error.                      *)

(* No connection was lost, no procedure failed, and there was at most one  *)
(* configuration.                                                          *)
Undisturbed == drops = 0 /\ failures = 0 /\ configs <= 1

(* A tag whose service is looked for will be found to have it before the   *)
(* search is over.                                                         *)
Found(h) ==
  \A f : In(f, db) /\ f.handle = h /\ f.connection_state = "DISCOVER_SERVICES"
           /\ ~f.cte_service_handle =>
    /\ link[h].gatt \in {"none", "services"}
    /\ About(evq, {"completed"}, h) => About(evq, {"service"}, h)

(* While the boot event is awaited nothing else goes on, and events are    *)
(* about open connections only.                                            *)
Calm ==
  /\ alive /\ ~reused
  /\ BootPending => /\ ~scanning /\ evq = <<BootEvent>>
                    /\ \A h \in Handle : link[h].state = "free"
  /\ \A h \in Handle : link[h].state # "open" => ~About(evq, HandleEventType, h)
  /\ \A h \in Handle : Found(h)

(* The inductive part of UndisturbedHandlerReturnsOk.                      *)
CalmInv == Undisturbed => Calm

(* What a tag whose service is looked for needs, after a step that         *)
(* leaves its connection and its entry as they are.                        *)
LEMMA FoundKept ==
  ASSUME NEW g, Found(g), link'[g].gatt = link[g].gatt,
         \A f : f.handle = g => (In(f, db') => In(f, db)),
         About(evq', {"completed"}, g) => About(evq, {"completed"}, g),
         About(evq, {"service"}, g) => About(evq', {"service"}, g)
  PROVE  Found(g)'
  BY DEF Found

(* A further event, unless it completes the search.                        *)
LEMMA FoundAdded ==
  ASSUME evq \in Seq(Message), NEW e \in Message, evq' = Append(evq, e),
         db' = db, NEW g, Found(g), link'[g].gatt = link[g].gatt,
         ~(e.type = "completed" /\ e.handle = g)
  PROVE  Found(g)'
<1>1. /\ About(evq', {"completed"}, g) <=>
           About(evq, {"completed"}, g) \/ (e.type \in {"completed"} /\ e.handle = g)
      /\ About(evq', {"service"}, g) <=>
           About(evq, {"service"}, g) \/ (e.type \in {"service"} /\ e.handle = g)
  BY AboutAppended
<1>2. QED
  BY <1>1, FoundKept

(* An event received, unless it is the service that was found.             *)
LEMMA FoundTaken ==
  ASSUME evq \in Seq(Message), evq # <<>>, evq' = Tail(evq),
         NEW g, Found(g), link'[g].gatt = link[g].gatt,
         \A f : f.handle = g => (In(f, db') => In(f, db)),
         ~(Head(evq).type = "service" /\ Head(evq).handle = g)
  PROVE  Found(g)'
<1>1. /\ About(evq, {"completed"}, g) <=>
           (Head(evq).type \in {"completed"} /\ Head(evq).handle = g)
             \/ About(Tail(evq), {"completed"}, g)
      /\ About(evq, {"service"}, g) <=>
           (Head(evq).type \in {"service"} /\ Head(evq).handle = g)
             \/ About(Tail(evq), {"service"}, g)
  BY AboutTaken
<1>2. QED
  BY <1>1, FoundKept

(* While the boot event is awaited, no other one comes.                    *)
LEMMA NotBooting ==
  ASSUME Calm, evq # <<>>, Head(evq).type # "boot"
  PROVE  ~BootPending
<1>1. SUFFICES ASSUME evq = <<BootEvent>> PROVE FALSE
  BY DEF Calm
<1>2. Head(evq) = BootEvent
  BY <1>1
<1>3. QED
  BY <1>2, MessageFields

(* Other events do not make the program wait for a boot event again.       *)
LEMMA NoBootAdded ==
  ASSUME evq \in Seq(Message), NEW e \in Message, evq' = Append(evq, e), e.type # "boot",
         ~BootPending
  PROVE  ~BootPending'
<1>1. ~In(BootEvent, evq)
  BY ExcusesByQueue
<1>2. \A x : In(x, evq') <=> In(x, evq) \/ x = e
  BY AppendedQueue
<1>3. e # BootEvent
  BY MessageFields
<1>4. ~In(BootEvent, evq')
  BY <1>1, <1>2, <1>3
<1>5. QED
  BY <1>4 DEF BootPending, In, BootEvent

LEMMA NoBootTaken ==
  ASSUME evq \in Seq(Message), evq # <<>>, evq' = Tail(evq), ~BootPending
  PROVE  ~BootPending'
<1>1. ~In(BootEvent, evq)
  BY ExcusesByQueue
<1>2. \A x : In(x, evq) <=> x = Head(evq) \/ In(x, evq')
  BY TakenQueue
<1>3. ~In(BootEvent, evq')
  BY <1>1, <1>2
<1>4. QED
  BY <1>3 DEF BootPending, In, BootEvent

(* A tag is heard only while the scanner runs: after the boot event.       *)
LEMMA AdvertiseCalm ==
  ASSUME Inv, Calm, UNCHANGED hostVars, NEW t \in Tag, Advertise(t)
  PROVE  Calm'
<1>1. /\ link' = link /\ reused' = reused /\ UNCHANGED <<alive, db>> /\ evq \in Seq(Message)
      /\ scanning
  BY AdvertiseBase DEF hostVars, Inv, BaseInv, TypeOK, NcpTypeOK, Advertise
<1>2. PICK e \in Message : e.type = "scan_report" /\ evq' = Append(evq, e)
  BY AdvertiseBase DEF Inv
<1>3. ~BootPending'
  BY <1>1, <1>2, NoBootAdded DEF Calm
<1>4. ASSUME NEW g \in Handle
      PROVE  /\ About(evq', HandleEventType, g) => About(evq, HandleEventType, g)
             /\ Found(g)'
  <2>1. e.type \notin HandleEventType
    BY <1>2 DEF HandleEventType
  <2>2. About(evq', HandleEventType, g) => About(evq, HandleEventType, g)
    BY <1>1, <1>2, <2>1, InUseAdded
  <2>3. Found(g)'
    BY <1>1, <1>2, FoundAdded DEF Calm
  <2>4. QED
    BY <2>2, <2>3
<1>5. QED
  BY <1>1, <1>3, <1>4 DEF Calm

(* The other steps of the co-processor need a connection.                  *)
LEMMA ConnectedIsBooted ==
  ASSUME Calm, NEW h \in Handle, link[h].state # "free"
  PROVE  ~BootPending
  BY DEF Calm

(* CTEs are sampled on open connections.                                   *)
LEMMA SampleCteCalm ==
  ASSUME Inv, Calm, UNCHANGED hostVars, NEW h \in Handle, SampleCte(h)
  PROVE  Calm'
<1>1. /\ link' = link /\ reused' = reused /\ UNCHANGED <<alive, db>> /\ evq \in Seq(Message)
      /\ link[h].state = "open"
  BY SampleCteBase DEF hostVars, Inv, BaseInv, TypeOK, NcpTypeOK
<1>2. PICK e \in Message : e.type = "iq_report" /\ e.handle = h /\ evq' = Append(evq, e)
  BY SampleCteBase DEF Inv
<1>3. ~BootPending'
  BY <1>1, <1>2, ConnectedIsBooted, NoBootAdded
<1>4. ASSUME NEW g \in Handle, link[g].state # "open" PROVE ~About(evq', HandleEventType, g)
  <2>1. e.handle # g /\ ~About(evq, HandleEventType, g)
    BY <1>1, <1>2, <1>4 DEF Calm
  <2>2. QED
    BY <1>1, <1>2, <2>1, InUseAdded
<1>5. ASSUME NEW g \in Handle PROVE Found(g)'
  BY <1>1, <1>2, FoundAdded DEF Calm
<1>6. QED
  BY <1>1, <1>3, <1>4, <1>5 DEF Calm

(* A connection opens.                                                     *)
LEMMA EstablishCalm ==
  ASSUME Inv, Calm, UNCHANGED hostVars, NEW h \in Handle, Establish(h)
  PROVE  Calm'
<1>1. /\ reused' = reused /\ UNCHANGED <<alive, db>> /\ evq \in Seq(Message)
      /\ link[h].state = "pending" /\ link[h].gatt = "none"
      /\ link' = [link EXCEPT ![h].state = "open"] /\ link \in [Handle -> Link]
  BY EstablishBase DEF hostVars, Inv, BaseInv, TypeOK, NcpTypeOK
<1>2. PICK e \in Message : e.type = "opened" /\ e.handle = h /\ evq' = Append(evq, e)
  BY EstablishBase DEF Inv
<1>3. /\ link'[h].state = "open" /\ link'[h].gatt = "none"
      /\ \A g \in Handle : g # h => link'[g] = link[g]
  <2>1. link[h] \in Link /\ link'[h] = [link[h] EXCEPT !.state = "open"]
    BY <1>1
  <2>2. link'[h].state = "open" /\ link'[h].gatt = "none"
    BY <1>1, <2>1 DEF Link
  <2>3. QED
    BY <1>1, <2>2
<1>4. ~BootPending'
  BY <1>1, <1>2, ConnectedIsBooted, NoBootAdded
<1>5. ASSUME NEW g \in Handle, link'[g].state # "open" PROVE ~About(evq', HandleEventType, g)
  <2>1. g # h
    BY <1>3, <1>5
  <2>2. e.handle # g /\ ~About(evq, HandleEventType, g)
    BY <1>2, <1>3, <1>5, <2>1 DEF Calm
  <2>3. QED
    BY <1>1, <1>2, <2>2, InUseAdded
<1>6. ASSUME NEW g \in Handle PROVE Found(g)'
  <2>1. link'[g].gatt = link[g].gatt
    BY <1>1, <1>3
  <2>2. QED
    BY <1>1, <1>2, <2>1, FoundAdded DEF Calm
<1>7. QED
  BY <1>1, <1>4, <1>5, <1>6 DEF Calm

(* What a search for services finds.                                       *)
LEMMA ServicesFound ==
  ASSUME Inv, NEW h \in Handle, CompleteGatt(h), link[h].gatt = "services"
  PROVE  About(evq', {"service"}, h)
<1> DEFINE s == Event("service", h, link[h].peer)
           c == Event("completed", h, link[h].peer)
           d == <<Event("characteristic", h, link[h].peer)>>
           finds == [services |-> <<s>>, characteristics |-> d, blind |-> <<>>, write |-> <<>>]
<1>1. evq \in Seq(Message) /\ link \in [Handle -> Link] /\ link[h].peer \in Tag
  <2>1. BaseInv /\ link[h] \in Link /\ link[h].peer # NoTag
    BY DEF Inv, BaseInv, TypeOK, NcpTypeOK, LinksInv
  <2>2. QED
    BY <2>1 DEF Inv, BaseInv, TypeOK, NcpTypeOK, Link
<1>2. s \in Message /\ c \in Message /\ s.type = "service" /\ s.handle = h
  BY <1>1, MessageFields, EventFields DEF HandleEventType
<1>3. evq' = evq \o Append(finds[link[h].gatt], c)
  BY DEF CompleteGatt, Emit
<1> HIDE DEF s, c, d
<1>4. evq' = evq \o <<s, c>>
  <2> DEFINE p == link[h].gatt
  <2>1. p = "services" /\ evq' = evq \o Append(finds[p], c)
    BY <1>3
  <2> HIDE DEF p
  <2>2. QED
    BY <2>1
<1>5. evq' = Append(Append(evq, s), c)
  BY <1>1, <1>2, <1>4, JoinedIsAppended
<1>6. Append(evq, s) \in Seq(Message) /\ About(Append(evq, s), {"service"}, h)
  BY <1>1, <1>2, AboutAppended, AppendedQueue
<1>7. QED
  BY <1>2, <1>5, <1>6, AboutAppended

(* A procedure ends well: a search for services found the one of the tag.  *)
LEMMA CompleteGattCalm ==
  ASSUME Inv, Calm, UNCHANGED hostVars, NEW h \in Handle, CompleteGatt(h)
  PROVE  Calm'
<1>1. /\ reused' = reused /\ UNCHANGED <<alive, db>> /\ evq \in Seq(Message)
      /\ link[h].state = "open" /\ link[h].gatt # "none" /\ link'[h].gatt = "none"
      /\ SameLinks /\ \A g \in Handle : g # h => link'[g] = link[g]
  BY CompleteGattBase DEF hostVars, Inv, BaseInv, TypeOK, NcpTypeOK
<1>2. PICK c \in Message :
        /\ c.type = "completed" /\ c.handle = h
        /\ \/ evq' = Append(evq, c)
           \/ \E e \in Message : /\ e.type \in {"service", "characteristic"} /\ e.handle = h
                                 /\ evq' = Append(Append(evq, e), c)
  BY CompleteGattBase DEF Inv
<1>3. /\ ~BootPending'
      /\ \A g \in Handle : g # h => /\ About(evq', HandleEventType, g) => About(evq, HandleEventType, g)
                                    /\ About(evq', {"completed"}, g) => About(evq, {"completed"}, g)
                                    /\ About(evq, {"service"}, g) => About(evq', {"service"}, g)
  <2>1. ~In(BootEvent, evq)
    BY <1>1, ConnectedIsBooted, ExcusesByQueue
  <2>2. ASSUME NEW q \in Seq(Message), NEW e \in Message, e.type # "boot", e.handle = h,
               ~In(BootEvent, q)
        PROVE  /\ Append(q, e) \in Seq(Message) /\ ~In(BootEvent, Append(q, e))
               /\ \A g, types : g # h =>
                    (About(Append(q, e), types, g) <=> About(q, types, g))
    <3>1. e # BootEvent
      BY <2>2, MessageFields
    <3>2. /\ Append(q, e) \in Seq(Message)
          /\ \A x : In(x, Append(q, e)) <=> In(x, q) \/ x = e
      BY AppendedQueue
    <3>3. \A g, types : About(Append(q, e), types, g) <=>
                          About(q, types, g) \/ (e.type \in types /\ e.handle = g)
      BY AboutAppended
    <3>4. QED
      BY <2>2, <3>1, <3>2, <3>3
  <2>3. /\ ~In(BootEvent, evq')
        /\ \A g, types : g # h => (About(evq', types, g) <=> About(evq, types, g))
    <3>1. CASE evq' = Append(evq, c)
      BY <1>1, <1>2, <2>1, <2>2, <3>1
    <3>2. ASSUME NEW e \in Message, e.type \in {"service", "characteristic"}, e.handle = h,
                 evq' = Append(Append(evq, e), c)
          PROVE  /\ ~In(BootEvent, evq')
                 /\ \A g, types : g # h => (About(evq', types, g) <=> About(evq, types, g))
      <4>1. /\ Append(evq, e) \in Seq(Message) /\ ~In(BootEvent, Append(evq, e))
            /\ \A g, types : g # h => (About(Append(evq, e), types, g) <=> About(evq, types, g))
        BY <1>1, <2>1, <2>2, <3>2
      <4>2. /\ ~In(BootEvent, Append(Append(evq, e), c))
            /\ \A g, types : g # h => (About(Append(Append(evq, e), c), types, g)
                                         <=> About(Append(evq, e), types, g))
        BY <1>2, <2>2, <4>1
      <4>3. QED
        BY <3>2, <4>1, <4>2
    <3>3. QED
      BY <1>2, <3>1, <3>2
  <2>4. ~BootPending'
    BY <2>3 DEF BootPending, In, BootEvent
  <2>5. QED
    BY <2>3, <2>4
<1>4. ASSUME NEW g \in Handle, link'[g].state # "open" PROVE ~About(evq', HandleEventType, g)
  BY <1>1, <1>3, <1>4 DEF Calm, SameLinks
<1>5. ASSUME NEW g \in Handle, g # h PROVE Found(g)'
  BY <1>1, <1>3, <1>5, FoundKept DEF Calm
<1>6. Found(h)'
  <2>1. Found(h)
    BY DEF Calm
  <2>2. CASE link[h].gatt = "services"
    <3>1. About(evq', {"service"}, h)
      BY <2>2, ServicesFound
    <3>2. QED
      BY <1>1, <3>1 DEF Found
  <2>3. CASE link[h].gatt # "services"
    BY <1>1, <2>1, <2>3 DEF Found
  <2>4. QED
    BY <2>2, <2>3
<1>7. QED
  BY <1>1, <1>3, <1>4, <1>5, <1>6 DEF Calm

(* No link is lost and no procedure fails.                                 *)
LEMMA NcpCalm ==
  ASSUME Inv, CalmInv, UNCHANGED hostVars, NcpNext
  PROVE  CalmInv'
<1>1. SUFFICES ASSUME Undisturbed' PROVE Calm'
  BY DEF CalmInv
<1>2. drops \in Nat /\ failures \in Nat /\ configs' = configs /\ drops' = 0 /\ failures' = 0
  BY <1>1 DEF hostVars, Undisturbed, Inv, BaseInv, TypeOK, NcpTypeOK
<1>3. ASSUME drops' = drops, failures' = failures PROVE Calm
  BY <1>1, <1>2, <1>3 DEF CalmInv, Undisturbed
<1>4. ASSUME NEW t \in Tag, Advertise(t) PROVE Calm'
  BY <1>3, <1>4, AdvertiseCalm DEF Advertise
<1>5. ASSUME NEW h \in Handle, Establish(h) PROVE Calm'
  BY <1>3, <1>5, EstablishCalm DEF Establish
<1>6. ASSUME NEW h \in Handle, CompleteGatt(h) PROVE Calm'
  <2>1. drops' = drops /\ failures' = failures
    BY <1>6 DEF CompleteGatt
  <2>2. QED
    BY <1>3, <1>6, <2>1, CompleteGattCalm
<1>7. ASSUME NEW h \in Handle, SampleCte(h) PROVE Calm'
  BY <1>3, <1>7, SampleCteCalm DEF SampleCte
<1>8. ASSUME NEW h \in Handle PROVE ~LoseLink(h) /\ ~FailGatt(h)
  BY <1>2 DEF LoseLink, FailGatt
<1>9. QED
  BY <1>4, <1>5, <1>6, <1>7, <1>8 DEF NcpNext

-----------------------------------------------------------------------------
(* The handler, without faults.                                            *)

(* What the handler takes leaves fewer events, on connections that are not *)
(* fewer.                                                                  *)
LEMMA TakenCalm ==
  ASSUME evq \in Seq(Message), evq # <<>>, evq' = Tail(evq), Head(evq).type # "boot", Calm
  PROVE  /\ ~BootPending'
         /\ \A g \in Handle : link[g].state # "open" => ~About(evq', HandleEventType, g)
<1>1. ~BootPending'
  BY NotBooting, NoBootTaken
<1>2. ASSUME NEW g \in Handle, link[g].state # "open" PROVE ~About(evq', HandleEventType, g)
  <2>1. ~About(evq, HandleEventType, g)
    BY <1>2 DEF Calm
  <2>2. QED
    BY <2>1, InUseTaken
<1>3. QED
  BY <1>1, <1>2

(* The connection an event is about is open, and was not closed.           *)
LEMMA HeadCalm ==
  ASSUME Inv, Calm, evq # <<>>, Head(evq).type \in HandleEventType,
         NEW h \in Handle, Head(evq).handle = h
  PROVE  /\ link[h].state = "open" /\ Head(evq).type # "closed"
         /\ Head(evq).type \in Step => /\ GattReady(h) /\ ~EntryIs(db, h, "RUNNING")
                                       /\ ~About(Tail(evq), Step, h)
<1>1. evq \in Seq(Message) /\ WalkOf(h)
  BY DEF Inv, BaseInv, TypeOK, NcpTypeOK, WalkInv, Calm
<1>2. About(evq, HandleEventType, h)
  BY <1>1, AboutTaken
<1>3. link[h].state = "open"
  BY <1>2 DEF Calm
<1>4. QED
  BY <1>1, <1>3, HeadWalk DEF GattReady

(* The handler connects to a tag whose connection is free.                 *)
LEMMA ScanReportCalm ==
  ASSUME Inv, Calm, ScanReport
  PROVE  Calm'
<1>1. /\ alive /\ evq \in Seq(Message) /\ evq # <<>> /\ evq' = Tail(evq)
      /\ Head(evq).type = "scan_report"
  BY Received DEF Inv, BaseInv, ScanReport
<1>2. /\ db' = db /\ alive' = alive
      /\ \/ link' = link /\ reused' = reused
         \/ \E h \in Handle :
              /\ link[h].state = "free"
              /\ \A g \in Handle : g # h => link'[g] = link[g]
              /\ link'[h].state = "pending"
              /\ reused' = (reused \/ InUse(h))
  BY ScanReportBase DEF Inv
<1>3. /\ ~BootPending'
      /\ \A g \in Handle : link[g].state # "open" => ~About(evq', HandleEventType, g)
  BY <1>1, TakenCalm
<1>4. ASSUME NEW g \in Handle, link'[g] = link[g] PROVE Found(g)'
  BY <1>1, <1>2, <1>4, FoundTaken DEF Calm
<1>5. CASE link' = link /\ reused' = reused
  BY <1>2, <1>3, <1>4, <1>5 DEF Calm
<1>6. ASSUME NEW h \in Handle, link[h].state = "free",
             \A g \in Handle : g # h => link'[g] = link[g],
             link'[h].state = "pending", reused' = (reused \/ InUse(h))
      PROVE  Calm'
  <2>1. ~InUse(h)
    BY <1>6, InUseIsAbout DEF Calm
  <2>2. \A s : ~EntryIs(db, h, s)
    BY <1>6, <2>1, NoEntry DEF Inv
  <2>3. Found(h)'
    BY <1>2, <2>2, EntryIsIn DEF Found
  <2>4. \A g \in Handle : link'[g].state # "open" => ~About(evq', HandleEventType, g)
    BY <1>3, <1>6
  <2>5. QED
    BY <1>2, <1>3, <1>4, <1>6, <2>1, <2>3, <2>4 DEF Calm
<1>7. QED
  BY <1>2, <1>5, <1>6

(* The boot event is received: the scanner starts.                         *)
LEMMA SystemBootCalm ==
  ASSUME Inv, Calm, SystemBoot, UNCHANGED reused
  PROVE  Calm'
<1>1. /\ alive /\ evq \in Seq(Message) /\ evq # <<>> /\ evq' = Tail(evq)
      /\ Head(evq) \in Message /\ Head(evq).type = "boot"
  BY Received DEF Inv, BaseInv, SystemBoot
<1>2. alive' = ~scanning /\ UNCHANGED <<link, db>>
  BY DEF SystemBoot, Return
<1>3. BootPending
  <2>1. In(Head(evq), evq)
    BY <1>1, TakenQueue
  <2>2. Head(evq) = BootEvent
    <3>1. Head(evq) \in [type : {"boot"}]
      BY <1>1 DEF Message, HandleEventType
    <3>2. QED
      BY <3>1 DEF BootEvent
  <2>3. QED
    BY <2>1, <2>2, ExcusesByQueue
<1>4. evq = <<BootEvent>> /\ ~scanning /\ \A h \in Handle : link[h].state = "free"
  BY <1>3 DEF Calm
<1>5. evq' = <<>>
  BY <1>1, <1>4
<1>6. ~BootPending' /\ \A g, types : ~About(evq', types, g)
  BY <1>5 DEF BootPending, About
<1>7. ASSUME NEW g \in Handle PROVE Found(g)'
  BY <1>2, <1>6, <1>7 DEF Found, Calm
<1>8. QED
  BY <1>2, <1>4, <1>6, <1>7 DEF Calm

(* The connection is open, so the search for services starts.              *)
LEMMA ConnectionOpenedCalm ==
  ASSUME Inv, Calm, ConnectionOpened, UNCHANGED reused
  PROVE  Calm'
<1>1. /\ evq \in Seq(Message) /\ evq # <<>> /\ evq' = Tail(evq)
      /\ Head(evq).type = "opened" /\ Head(evq).handle \in Handle
  BY Received DEF Inv, BaseInv, ConnectionOpened, HandleEventType
<1>h. PICK h \in Handle : h = Head(evq).handle
  BY <1>1
<1>2. PICK f : /\ SameLinks /\ \A g \in Handle : g # h => link'[g] = link[g]
               /\ alive' = GattReady(h)
               /\ GattReady(h) => link'[h].gatt = "services"
               /\ \A x : In(x, db') <=> In(x, db) \/ x = f
               /\ f.handle = h
               /\ \A x : In(x, db) => x.handle # h
  BY <1>h, ConnectionOpenedBase DEF Inv
<1>3. Head(evq).type \in Step /\ Head(evq).type \in HandleEventType
  BY <1>1 DEF Step, HandleEventType
<1>4. GattReady(h) /\ ~About(evq', Step, h)
  BY <1>h, <1>1, <1>3, HeadCalm
<1>5. /\ ~BootPending'
      /\ \A g \in Handle : link[g].state # "open" => ~About(evq', HandleEventType, g)
  BY <1>1, TakenCalm
<1>6. ASSUME NEW g \in Handle, g # h PROVE Found(g)'
  BY <1>1, <1>2, <1>6, FoundTaken DEF Calm
<1>7. Found(h)'
  <2>1. ~About(evq', {"completed"}, h)
    BY <1>4 DEF About, Step
  <2>2. QED
    BY <1>2, <1>4, <2>1 DEF Found
<1>8. QED
  BY <1>2, <1>4, <1>5, <1>6, <1>7 DEF Calm, SameLinks

(* Nothing is closed.                                                      *)
LEMMA ConnectionClosedCalm ==
  ASSUME Inv, Calm, ConnectionClosed
  PROVE  FALSE
<1>1. /\ evq # <<>> /\ Head(evq).type = "closed" /\ Head(evq).handle \in Handle
  BY Received DEF Inv, BaseInv, ConnectionClosed, HandleEventType
<1>2. QED
  BY <1>1, HeadCalm DEF HandleEventType

(* IQ reports change nothing.                                              *)
LEMMA IqReportCalm ==
  ASSUME Inv, Calm, IqReport, UNCHANGED reused
  PROVE  Calm'
<1>1. /\ evq \in Seq(Message) /\ evq # <<>> /\ evq' = Tail(evq) /\ Head(evq).type = "iq_report"
  BY Received DEF Inv, BaseInv, IqReport
<1>2. UNCHANGED <<link, db, scanning, alive>>
  BY DEF IqReport
<1>3. /\ ~BootPending'
      /\ \A g \in Handle : link[g].state # "open" => ~About(evq', HandleEventType, g)
  BY <1>1, TakenCalm
<1>4. ASSUME NEW g \in Handle PROVE Found(g)'
  BY <1>1, <1>2, FoundTaken DEF Calm
<1>5. QED
  BY <1>2, <1>3, <1>4 DEF Calm

(* The entry that an event is applied to is the only one of its handle.    *)
LEMMA EntryOfHead ==
  ASSUME Inv, evq # <<>>, Head(evq).type \in HandleEventType \ {"opened", "closed"}
  PROVE  LET i == GetTagByHandle(db, Head(evq).handle)
         IN  /\ i # 0 /\ i \in DOMAIN db /\ db[i].handle = Head(evq).handle
             /\ \A j \in DOMAIN db : db[j].handle = Head(evq).handle => j = i
<1> DEFINE i == GetTagByHandle(db, Head(evq).handle)
<1>1. i # 0 /\ i \in DOMAIN db /\ db[i].handle = Head(evq).handle
  BY HeadIsOf DEF Inv
<1>2. \A j \in DOMAIN db : db[j].handle = Head(evq).handle => j = i
  BY <1>1, OneEntryEach DEF Inv, OneEach
<1>3. QED
  BY <1>1, <1>2

(* The service is known before its search is over.                         *)
LEMMA GattServiceCalm ==
  ASSUME Inv, Calm, GattService, UNCHANGED reused
  PROVE  Calm'
<1>1. /\ evq \in Seq(Message) /\ evq # <<>> /\ evq' = Tail(evq)
      /\ Head(evq).type = "service" /\ Head(evq).handle \in Handle
  BY Received DEF Inv, BaseInv, GattService, HandleEventType
<1>h. PICK h \in Handle : h = Head(evq).handle
  BY <1>1
<1> DEFINE i == GetTagByHandle(db, h)
<1>2. /\ i # 0 /\ i \in DOMAIN db /\ db[i].handle = h
      /\ \A j \in DOMAIN db : db[j].handle = h => j = i
  BY <1>h, <1>1, EntryOfHead DEF HandleEventType
<1>3. /\ UNCHANGED <<link, alive>>
      /\ db' = [db EXCEPT ![i].cte_service_handle = TRUE]
  BY <1>h, <1>2 DEF GattService
<1>4. /\ ~BootPending'
      /\ \A g \in Handle : link[g].state # "open" => ~About(evq', HandleEventType, g)
  BY <1>1, TakenCalm
<1>5. DOMAIN db' = DOMAIN db /\ \A j \in DOMAIN db : j # i => db'[j] = db[j]
  BY <1>3
<1>6. db'[i].cte_service_handle /\ db'[i].handle = h
  <2>1. db \in Seq(Entry(Handle, Tag))
    BY DEF Inv, BaseInv, TypeOK
  <2>2. db[i] \in Entry(Handle, Tag)
    BY <1>2, <2>1, ElementOfSeq, LenProperties
  <2>3. db'[i] = [db[i] EXCEPT !.cte_service_handle = TRUE]
    BY <1>2, <1>3
  <2>4. QED
    BY <1>2, <2>2, <2>3 DEF Entry
<1> HIDE DEF i
<1>7. ASSUME NEW g \in Handle, g # h PROVE Found(g)'
  <2>1. \A f : f.handle = g => (In(f, db') => In(f, db))
    BY <1>5, <1>6, <1>7 DEF In
  <2>2. Found(g) /\ link'[g].gatt = link[g].gatt
    BY <1>3 DEF Calm
  <2>3. ~(Head(evq).type = "service" /\ Head(evq).handle = g)
    BY <1>h, <1>7
  <2>4. QED
    BY <1>1, <2>1, <2>2, <2>3, FoundTaken
<1>8. Found(h)'
  <2>1. \A f : In(f, db') /\ f.handle = h => f.cte_service_handle
    BY <1>2, <1>5, <1>6 DEF In
  <2>2. QED
    BY <2>1 DEF Found
<1>9. \A g \in Handle : Found(g)'
  BY <1>7, <1>8
<1>10. QED
  BY <1>3, <1>4, <1>9 DEF Calm

(* The tag is past the search for its service.                             *)
LEMMA GattCharacteristicCalm ==
  ASSUME Inv, Calm, GattCharacteristic, UNCHANGED reused
  PROVE  Calm'
<1>1. /\ evq \in Seq(Message) /\ evq # <<>> /\ evq' = Tail(evq)
      /\ Head(evq).type = "characteristic" /\ Head(evq).handle \in Handle
  BY Received DEF Inv, BaseInv, GattCharacteristic, HandleEventType
<1>h. PICK h \in Handle : h = Head(evq).handle
  BY <1>1
<1> DEFINE i == GetTagByHandle(db, h)
<1>2. /\ i # 0 /\ i \in DOMAIN db /\ db[i].handle = h
      /\ \A j \in DOMAIN db : db[j].handle = h => j = i
  BY <1>h, <1>1, EntryOfHead DEF HandleEventType
<1>3. /\ UNCHANGED <<link, alive>>
      /\ db' = [db EXCEPT ![i].cte_enable_char_handle = TRUE,
                          ![i].connection_state = "DISCOVER_CHARACTERISTICS"]
  BY <1>h, <1>2 DEF GattCharacteristic
<1>4. /\ ~BootPending'
      /\ \A g \in Handle : link[g].state # "open" => ~About(evq', HandleEventType, g)
  BY <1>1, TakenCalm
<1>5. DOMAIN db' = DOMAIN db /\ \A j \in DOMAIN db : j # i => db'[j] = db[j]
  BY <1>3
<1>6. db'[i].connection_state = "DISCOVER_CHARACTERISTICS" /\ db'[i].handle = h
  <2>1. db \in Seq(Entry(Handle, Tag))
    BY DEF Inv, BaseInv, TypeOK
  <2>2. db[i] \in Entry(Handle, Tag)
    BY <1>2, <2>1, ElementOfSeq, LenProperties
  <2>3. db'[i] = [db[i] EXCEPT !.cte_enable_char_handle = TRUE,
                               !.connection_state = "DISCOVER_CHARACTERISTICS"]
    BY <1>2, <1>3
  <2>4. QED
    BY <1>2, <2>2, <2>3 DEF Entry
<1> HIDE DEF i
<1>7. ASSUME NEW g \in Handle, g # h PROVE Found(g)'
  <2>1. \A f : f.handle = g => (In(f, db') => In(f, db))
    BY <1>5, <1>6, <1>7 DEF In
  <2>2. Found(g) /\ link'[g].gatt = link[g].gatt
    BY <1>3 DEF Calm
  <2>3. QED
    BY <1>1, <2>1, <2>2, FoundTaken
<1>8. Found(h)'
  <2>1. \A f : In(f, db') /\ f.handle = h => f.connection_state = "DISCOVER_CHARACTERISTICS"
    BY <1>2, <1>5, <1>6 DEF In
  <2>2. QED
    BY <2>1 DEF Found
<1>9. \A g \in Handle : Found(g)'
  BY <1>7, <1>8
<1>10. QED
  BY <1>3, <1>4, <1>9 DEF Calm

(* When the search for services is over the tag is known to have it.       *)
LEMMA ServiceKnown ==
  ASSUME Inv, Calm, evq # <<>>, Head(evq).type = "completed",
         NEW h \in Handle, Head(evq).handle = h,
         NEW i \in DOMAIN db, db[i].handle = h, db[i].connection_state = "DISCOVER_SERVICES"
  PROVE  db[i].cte_service_handle
<1>1. SUFFICES ASSUME ~db[i].cte_service_handle PROVE FALSE
  OBVIOUS
<1>2. evq \in Seq(Message) /\ Completes(evq)
  BY DEF Inv, BaseInv, TypeOK, NcpTypeOK, WalkInv
<1>3. About(evq, {"completed"}, h)
  BY <1>2, AboutTaken
<1>4. In(db[i], db)
  BY DEF In
<1>5. About(evq, {"service"}, h)
  BY <1>1, <1>3, <1>4 DEF Calm, Found
<1>6. About(Tail(evq), {"service"}, h)
  <2>1. About(evq, {"service"}, h) <=>
          (Head(evq).type \in {"service"} /\ Head(evq).handle = h) \/ About(Tail(evq), {"service"}, h)
    BY <1>2, AboutTaken
  <2>2. QED
    BY <1>5, <2>1
<1>7. About(Tail(evq), Step, h)
  <2>1. Completes(Tail(evq))
    BY <1>2, CompletesTaken
  <2>2. QED
    BY <1>6, <2>1 DEF Completes, About, Step
<1>8. QED
  BY <1>7, HeadCalm DEF Step, HandleEventType

(* The connection is open and idle, so the next procedure starts.          *)
LEMMA ProcedureCompletedCalm ==
  ASSUME Inv, Calm, ProcedureCompleted, UNCHANGED reused
  PROVE  Calm'
<1>1. /\ alive /\ evq \in Seq(Message) /\ evq # <<>> /\ evq' = Tail(evq)
      /\ Head(evq).type = "completed" /\ Head(evq).handle \in Handle
  BY Received DEF Inv, BaseInv, ProcedureCompleted, HandleEventType
<1>h. PICK h \in Handle : h = Head(evq).handle
  BY <1>1
<1> DEFINE i == GetTagByHandle(db, h)
<1>2. /\ i # 0 /\ i \in DOMAIN db /\ db[i].handle = h
      /\ \A j \in DOMAIN db : db[j].handle = h => j = i
  BY <1>h, <1>1, EntryOfHead DEF HandleEventType
<1>3. /\ \A g \in Handle : g # h => link'[g] = link[g]
      /\ SameLinks /\ SameTags(db')
      /\ \A j \in DOMAIN db : j # i => db'[j] = db[j]
      /\ \/ /\ db[i].connection_state = "DISCOVER_SERVICES"
            /\ db' = db
         \/ /\ db[i].connection_state = "DISCOVER_CHARACTERISTICS"
            /\ alive' = GattReady(h)
            /\ GattReady(h) => db'[i].connection_state = "ENABLE_CTE"
         \/ /\ db[i].connection_state = "ENABLE_CTE"
            /\ alive' = (link[h].state = "open")
            /\ alive' => db'[i].connection_state = "RUNNING"
         \/ db[i].connection_state = "RUNNING"
  <2> HIDE DEF i
  <2>1. \E j \in DOMAIN db :
          /\ db[j].handle = h
          /\ \A g \in Handle : g # h => link'[g] = link[g]
          /\ SameLinks /\ SameTags(db')
          /\ \A k \in DOMAIN db : k # j => db'[k] = db[k]
          /\ \/ /\ db[j].connection_state = "DISCOVER_SERVICES"
                /\ db' = db
             \/ /\ db[j].connection_state = "DISCOVER_CHARACTERISTICS"
                /\ alive' = GattReady(h)
                /\ GattReady(h) => db'[j].connection_state = "ENABLE_CTE"
             \/ /\ db[j].connection_state = "ENABLE_CTE"
                /\ alive' = (link[h].state = "open")
                /\ alive' => db'[j].connection_state = "RUNNING"
             \/ db[j].connection_state = "RUNNING"
    BY <1>h, ProcedureCompletedBase DEF Inv
  <2>2. QED
    BY <1>2, <2>1
<1>4. Head(evq).type \in Step /\ Head(evq).type \in HandleEventType
  BY <1>1 DEF Step, HandleEventType
<1>5. link[h].state = "open" /\ GattReady(h) /\ ~EntryIs(db, h, "RUNNING")
  BY <1>h, <1>1, <1>4, HeadCalm
<1>6. db[i].connection_state # "RUNNING"
  <2> HIDE DEF i
  <2>1. QED
    BY <1>2, <1>5 DEF EntryIs
<1>7. db[i].connection_state = "DISCOVER_SERVICES" => db[i].cte_service_handle /\ alive'
  <2>1. SUFFICES ASSUME db[i].connection_state = "DISCOVER_SERVICES"
                 PROVE  db[i].cte_service_handle /\ alive'
    OBVIOUS
  <2>2. ServicesDiscovered(i)
    BY <1>h, <1>2, <2>1 DEF ProcedureCompleted
  <2> HIDE DEF i
  <2>3. db[i].cte_service_handle
    BY <1>h, <1>1, <1>2, <2>1, ServiceKnown
  <2>4. StartGatt(h, "characteristics")
    BY <1>2, <2>2, <2>3 DEF ServicesDiscovered
  <2>5. QED
    BY <1>5, <2>3, <2>4 DEF StartGatt, Return
<1> HIDE DEF i
<1>8. /\ alive'
      /\ \A f : In(f, db') /\ f.handle = h /\ f.connection_state = "DISCOVER_SERVICES"
                  => f.cte_service_handle
  <2>1. alive'
    BY <1>3, <1>5, <1>6, <1>7
  <2>2. \/ db' = db
        \/ db'[i].connection_state # "DISCOVER_SERVICES"
    BY <1>3, <1>5, <1>6, <2>1
  <2>3. \A j \in DOMAIN db' : db'[j].handle = h => j = i
    BY <1>2, <1>3 DEF SameTags
  <2>4. QED
    BY <1>7, <2>1, <2>2, <2>3 DEF In
<1>9. /\ ~BootPending'
      /\ \A g \in Handle : link[g].state # "open" => ~About(evq', HandleEventType, g)
  BY <1>1, TakenCalm
<1>10. ASSUME NEW g \in Handle, g # h PROVE Found(g)'
  <2>1. \A f : f.handle = g => (In(f, db') => In(f, db))
    <3>1. DOMAIN db' = DOMAIN db /\ db'[i].handle = h
      BY <1>2, <1>3 DEF SameTags
    <3>2. QED
      BY <1>3, <1>10, <3>1 DEF In
  <2>2. Found(g) /\ link'[g].gatt = link[g].gatt
    BY <1>3, <1>10 DEF Calm
  <2>3. QED
    BY <1>1, <2>1, <2>2, FoundTaken
<1>11. Found(h)'
  BY <1>8 DEF Found
<1>12. \A g \in Handle : Found(g)'
  BY <1>10, <1>11
<1>13. QED
  BY <1>3, <1>8, <1>9, <1>12 DEF Calm, SameLinks

(* Every event the handler receives.                                       *)
LEMMA HandlerCalm ==
  ASSUME Inv, CalmInv, HandleEvent
  PROVE  CalmInv'
<1>1. /\ BaseInv /\ TypeOK
      /\ \A type : Receive(type) => UNCHANGED <<configs, drops, failures>>
  BY DEF Inv, BaseInv, Receive
<1>2. UNCHANGED <<configs, drops, failures>>
  BY <1>1 DEF HandleEvent, ScanReport, SystemBoot, ConnectionOpened, GattService,
              GattCharacteristic, ProcedureCompleted, ConnectionClosed, IqReport
<1>3. SUFFICES ASSUME Calm PROVE Calm'
  BY <1>2 DEF CalmInv, Undisturbed
<1>4. QED
  BY <1>3, ScanReportCalm, SystemBootCalm, ConnectionOpenedCalm, GattServiceCalm,
     GattCharacteristicCalm, ProcedureCompletedCalm, ConnectionClosedCalm, IqReportCalm
     DEF HandleEvent

(* The boot event is about no tag.                                         *)
LEMMA NoneBooting == \A h : ~About(<<BootEvent>>, HandleEventType, h)
<1> DEFINE e == BootEvent
<1>1. e.type = "boot"
  BY MessageFields
<1> HIDE DEF e
<1>2. e.type \notin HandleEventType
  BY <1>1 DEF HandleEventType
<1>3. \A j \in DOMAIN <<e>> : <<e>>[j] = e
  OBVIOUS
<1>4. \A h : ~About(<<e>>, HandleEventType, h)
  BY <1>2, <1>3 DEF About
<1>5. QED
  BY <1>4 DEF e

(* The first configuration message finds no boot event under way.          *)
LEMMA ConfigCalm ==
  ASSUME Inv, CalmInv, ConfigMessage
  PROVE  CalmInv'
<1>1. SUFFICES ASSUME Undisturbed' PROVE Calm'
  BY DEF CalmInv
<1>2. /\ configs \in Nat /\ configs' = configs + 1 /\ UNCHANGED <<drops, failures, alive>>
      /\ (BootPending => configs > 0) /\ db' = <<>> /\ Reset
  BY DEF ConfigMessage, Reset, Inv, BaseInv, TypeOK
<1>3. configs = 0 /\ alive
  BY <1>1, <1>2 DEF CalmInv, Undisturbed, Calm
<1>4. /\ scanning' = FALSE /\ reused' = FALSE /\ evq' = <<BootEvent>>
      /\ link' = [h \in Handle |-> FreeLink]
  BY <1>2, <1>3 DEF Reset, BootEvent
<1>5. \A h \in Handle : link'[h].state = "free"
  BY <1>4, FreeLinkFields
<1>6. \A h : ~About(evq', HandleEventType, h)
  BY <1>4, NoneBooting
<1>7. \A h : Found(h)'
  BY <1>2 DEF Found, In
<1>8. QED
  BY <1>2, <1>3, <1>4, <1>5, <1>6, <1>7 DEF Calm

(* The handler returns SL_STATUS_OK for every event (sl_bt_on_event), in   *)
(* whatever order tags are heard, connected and searched, as long as no    *)
(* connection is lost, no procedure fails and there is one configuration:  *)
(* only these make the program abort.                                      *)
THEOREM UndisturbedHandlerReturnsOk == Spec => [](Undisturbed => HandlerReturnsOk)
<1>1. Init => CalmInv
  <2> SUFFICES ASSUME Init PROVE Calm
    BY DEF CalmInv
  <2>1. /\ alive /\ ~reused /\ ~scanning /\ evq = <<BootEvent>> /\ db = <<>>
        /\ \A h \in Handle : link[h] = FreeLink
    BY DEF Init, NcpInit, BootEvent
  <2>2. \A h : ~About(evq, HandleEventType, h)
    BY <2>1, NoneBooting
  <2>3. \A h : Found(h)
    BY <2>1 DEF Found, In
  <2>4. QED
    BY <2>1, <2>2, <2>3, FreeLinkFields DEF Calm
<1>2. Inv /\ CalmInv /\ [Next]_vars => CalmInv'
  <2> SUFFICES ASSUME Inv, CalmInv, [Next]_vars PROVE CalmInv'
    OBVIOUS
  <2>1. CASE HandleEvent
    BY <2>1, HandlerCalm
  <2>2. CASE ConfigMessage
    BY <2>2, ConfigCalm
  <2>3. CASE NcpNext /\ UNCHANGED hostVars
    BY <2>3, NcpCalm
  <2>4. CASE UNCHANGED vars
    <3>1. UNCHANGED <<scanning, link, evq, drops, failures, reused, alive, db, configs>>
      BY <2>4 DEF vars, ncpVars, hostVars
    <3>2. (Undisturbed' <=> Undisturbed) /\ (BootPending' <=> BootPending)
          /\ \A h : Found(h)' <=> Found(h)
      BY <3>1 DEF Undisturbed, BootPending, Found
    <3>3. QED
      BY <3>1, <3>2 DEF CalmInv, Calm
  <2>5. QED
    BY <2>1, <2>2, <2>3, <2>4 DEF Next
<1>3. CalmInv => (Undisturbed => HandlerReturnsOk)
  BY DEF CalmInv, Calm, HandlerReturnsOk
<1>4. QED
  BY <1>1, <1>2, <1>3, InvHolds, PTL DEF Spec

=============================================================================
