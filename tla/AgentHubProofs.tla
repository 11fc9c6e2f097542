--------------------------- MODULE AgentHubProofs ---------------------------
(* Theorems about AgentHub, for every set of instances, connections and    *)
(* requests, wherever the connections and the requests come in, and every  *)
(* bound: an open connection stays reachable, a request is queued for one  *)
(* connection, and no answer that was handled is lost.                     *)
EXTENDS AgentHub, FiniteSetTheorems, SequenceTheorems, TLAPS

-----------------------------------------------------------------------------
(* The inductive invariant.                                                *)

(* What the handlers of disconnects and of requests hold.                  *)
DiscHolds(i) ==
  /\ disc[i].pc \in {"none", "map"} => disc[i].conn = NoConn
  /\ disc[i].conn # NoConn => place[disc[i].conn] = i
  /\ disc[i].kind = "bind" /\ disc[i].origin => disc[i].max + 1 <= epoch

ReqHolds(r) ==
  /\ req[r].pc \in {"local", "push"} => req[r].target \in Conns
  /\ Registered(r) => Entry[r] \in up

Holding ==
  /\ \A i \in Instances : DiscHolds(i)
  /\ \A r \in Requests : ReqHolds(r)

(* A connection is in the table of its instance, once its handler put it   *)
(* there, and replaces one of the same instance.                           *)
Registering ==
  /\ \A i \in Instances : table[i] # NoConn => conn[table[i]].pc \notin {"none", "add"}
  /\ \A c \in Conns : conn[c].previous # NoConn => place[conn[c].previous] = place[c]
  /\ OpenIsRegistered

(* All that is on its way of a request names one connection, and nothing   *)
(* is before the request is dispatched.                                    *)
Holds(q, m) == \E k \in 1 .. Len(q) : q[k] = m
InFlight(r) ==
  {m \in Message : m.req = r /\ \E i \in Instances : Holds(delegated[i], m) \/ Holds(sub[i], m)}

OneTarget ==
  \A r \in Requests :
    /\ req[r].pc \in {"new", "lease", "local", "push"} => InFlight(r) = {} /\ pushed[r] = {}
    /\ \E t \in Refs : (\A m \in InFlight(r) : m.target = t) /\ pushed[r] \subseteq {t}

(* Only a request that began has an answer, and the answer is where the    *)
(* waiter finds it.                                                        *)
Answering ==
  \A r \in handled : req[r].pc # "new" /\ (Registered(r) => r \in answered \cup responses)

HubInv == TypeOK /\ Holding /\ Registering /\ OneTarget /\ Answering

-----------------------------------------------------------------------------
(* Types.                                                                  *)

ConnType == [pc : ConnPC, epoch : 0 .. epoch, previous : Refs]
DiscType == [pc : DiscPC, kind : Kinds, max : Nat, conn : Refs, origin : BOOLEAN]
NoticeType == [kind : Kinds, max : Nat]
ReqType == [pc : ReqPC, target : Refs]

(* A handler's next place.                                                 *)
LEMMA ConnGoes ==
  ASSUME TypeOK, NEW c \in Conns, NEW pc \in ConnPC, conn' = [conn EXCEPT ![c].pc = pc]
  PROVE  /\ conn' \in [Conns -> ConnType]
         /\ conn'[c].pc = pc /\ conn'[c].previous = conn[c].previous
         /\ \A d \in Conns \ {c} : conn'[d] = conn[d]
BY DEF TypeOK, ConnType

LEMMA PushType ==
  ASSUME TypeOK, NEW r \in Requests, NEW c \in Conns, Room(c), Push(r, c)
  PROVE  /\ queue' \in [Conns -> Seq(Requests)]
         /\ \A d \in Conns : Len(queue'[d]) <= Capacity
         /\ pushed' \in [Requests -> SUBSET Conns]
<1>1. /\ queue \in [Conns -> Seq(Requests)] /\ Capacity \in Nat
      /\ \A d \in Conns : Len(queue[d]) \in Nat /\ Len(queue[d]) <= Capacity
      /\ Len(queue[c]) < Capacity /\ queue' = [queue EXCEPT ![c] = Append(@, r)]
  BY HubAssumption, LenProperties DEF TypeOK, Room, Push
<1>2. Append(queue[c], r) \in Seq(Requests) /\ Len(Append(queue[c], r)) = Len(queue[c]) + 1
  BY <1>1, AppendProperties
<1>3. queue' \in [Conns -> Seq(Requests)]
  BY <1>1, <1>2
<1>4. \A d \in Conns : Len(queue'[d]) <= Capacity
  BY <1>1, <1>2
<1>5. pushed' \in [Requests -> SUBSET Conns]
  BY DEF TypeOK, Push
<1>6. QED
  BY <1>3, <1>4, <1>5

LEMMA TakeOutType ==
  ASSUME TypeOK, NEW i \in Instances, NEW d \in DiscType, TakeOut(i, d)
  PROVE  /\ disc' \in [Instances -> DiscType] /\ table' \in [Instances -> Refs]
         /\ \A j \in Instances : table'[j] # NoConn => place[table'[j]] = j
<1>1. NoDisc \in DiscType
  BY DEF NoDisc, DiscType, DiscPC, Kinds, Refs
<1>2. table \in [Instances -> Refs] /\ disc \in [Instances -> DiscType] /\ NoConn \in Refs
      /\ {"close", "del", "get"} \subseteq DiscPC
  BY DEF TypeOK, DiscType, Refs, DiscPC
<1>3. [d EXCEPT !.pc = "close"] \in DiscType
      /\ [d EXCEPT !.conn = table[i], !.pc = IF d.max = 0 THEN "del" ELSE "get"] \in DiscType
  BY <1>2 DEF DiscType
<1>4. disc' \in [Instances -> DiscType] /\ table' \in [Instances -> Refs]
  BY <1>1, <1>2, <1>3 DEF TakeOut
<1>5. \A j \in Instances : table'[j] = table[j] \/ table'[j] = NoConn
  BY <1>2 DEF TakeOut
<1>6. QED
  BY <1>4, <1>5 DEF TypeOK

(* The steps of a connection's handler.                                    *)
LEMMA HandlerTypes ==
  ASSUME TypeOK, NEW c \in Conns, Handler(c)
  PROVE  TypeOK'
<1> USE DEF access, wires, hubs, stops, work, counts
<1>1. ASSUME NEW pc \in ConnPC \ {"none", "gone"}, conn' = [conn EXCEPT ![c].pc = pc],
             conn[c].pc \notin {"none", "gone"}, sock' = sock
      PROVE  /\ conn' \in [Conns -> ConnType]
             /\ sock' \subseteq {d \in Conns : conn'[d].pc \notin {"none", "gone"}}
  BY <1>1, ConnGoes DEF TypeOK
<1>2. CASE AddAgent(c)
  <2>1. NoConn \in Refs /\ c \in Refs /\ table[place[c]] \in Refs /\ place[c] \in Instances
    BY HubAssumption DEF TypeOK, Refs
  <2>2. conn' \in [Conns -> ConnType]
    <3>1. PICK pc \in {"touch", "close"} :
            conn' = [conn EXCEPT ![c].previous = table[place[c]], ![c].pc = pc]
      BY <1>2 DEF AddAgent
    <3>2. conn \in [Conns -> ConnType] /\ pc \in ConnPC
      BY DEF TypeOK, ConnType, ConnPC
    <3>3. QED
      BY <2>1, <3>1, <3>2 DEF ConnType
  <2>3. table' \in [Instances -> Refs] /\ \A i \in Instances : table'[i] # NoConn => place'[table'[i]] = i
    BY <1>2, <2>1 DEF AddAgent, TypeOK
  <2>4. sock' \subseteq {d \in Conns : conn'[d].pc \notin {"none", "gone"}}
    BY <1>2 DEF AddAgent, TypeOK
  <2>5. QED
    BY <1>2, <2>2, <2>3, <2>4 DEF AddAgent, TypeOK, ConnType
<1>3. CASE ClosePrevious(c)
  <2>1. conn' \in [Conns -> ConnType]
    <3>1. conn \in [Conns -> ConnType] /\ "touch" \in ConnPC /\ NoConn \in Refs
      BY DEF TypeOK, ConnType, ConnPC, Refs
    <3>2. QED
      BY <1>3, <3>1 DEF ClosePrevious, ConnType
  <2>2. sock' \subseteq {d \in Conns : conn'[d].pc \notin {"none", "gone"}}
    BY <1>3 DEF ClosePrevious, TypeOK
  <2>3. QED
    BY <1>3, <2>1, <2>2 DEF ClosePrevious, TypeOK, ConnType
<1>4. CASE TouchAgent(c)
  BY <1>1, <1>4 DEF TouchAgent, TypeOK, ConnType, ConnPC, At, Go, Refs
<1>5. CASE ReadHeartbeat(c)
  BY <1>1, <1>5 DEF ReadHeartbeat, TypeOK, ConnType, ConnPC, At, Go
<1>6. CASE ReadFails(c)
  BY <1>1, <1>6 DEF ReadFails, TypeOK, ConnType, ConnPC, At, Go
<1>7. CASE RemoveAgentConn(c)
  BY <1>1, <1>7 DEF RemoveAgentConn, TypeOK, ConnType, ConnPC, At, Go, Refs
<1>8. CASE GetLease(c)
  BY <1>1, <1>8 DEF GetLease, TypeOK, ConnType, ConnPC, At, Go
<1>9. CASE DeleteLease(c)
  BY <1>1, <1>9 DEF DeleteLease, TypeOK, ConnType, ConnPC, At, Go, Refs
<1>10. CASE Shut(c)
  <2>1. "gone" \in ConnPC /\ conn' = [conn EXCEPT ![c].pc = "gone"] /\ sock' = sock \ {c}
    BY <1>10 DEF Shut, Go, ConnPC
  <2>2. conn' \in [Conns -> ConnType] /\ \A d \in Conns \ {c} : conn'[d] = conn[d]
    BY <2>1, ConnGoes
  <2>3. sock' \subseteq {d \in Conns : conn'[d].pc \notin {"none", "gone"}}
    BY <2>1, <2>2 DEF TypeOK
  <2>4. queue' \in [Conns -> Seq(Requests)] /\ \A d \in Conns : Len(queue'[d]) <= Capacity
    BY <1>10, EmptySeq, HubAssumption DEF Shut, TypeOK
  <2>5. QED
    BY <1>10, <2>2, <2>3, <2>4 DEF Shut, TypeOK, ConnType
<1>11. ASSUME NEW r \in Requests, ReadReply(c, r) PROVE TypeOK'
  <2>1. CASE AgentEpochMatches(c)
    BY <1>11, <2>1 DEF ReadReply, Resolve, TypeOK
  <2>2. CASE ~AgentEpochMatches(c)
    BY <1>1, <1>11, <2>2 DEF ReadReply, TypeOK, ConnType, ConnPC, At, Go
  <2>3. QED
    BY <2>1, <2>2
<1>12. QED
  BY <1>2, <1>3, <1>4, <1>5, <1>6, <1>7, <1>8, <1>9, <1>10, <1>11 DEF Handler

(* The steps of the agent, and of a disconnect.                            *)
LEMMA AgentTypes ==
  ASSUME TypeOK, \/ Drop \/ Closed \/ LeaseExpires \/ \E scope \in Scopes : Enable(scope)
                 \/ \E c \in Conns : Dial(c) \/ Write(c)
                 \/ \E w \in working : AgentAnswers(w)
  PROVE  TypeOK'
<1> USE DEF access, wires, hubs, stops, work, counts
<1>1. CASE Drop
  <2>1. mine \in Conns /\ NoConn \in Refs
    BY <1>1 DEF Drop, TypeOK, Refs
  <2>2. mine' = NoConn /\ beat' \subseteq Conns /\ working' \subseteq Requests \X Conns
        /\ drops' \in Nat /\ events' \in Nat
    BY <1>1, <2>1 DEF Drop, LeaveConn, TypeOK
  <2>3. QED
    BY <1>1, <2>1, <2>2 DEF Drop, LeaveConn, TypeOK
<1>2. CASE Closed
  BY <1>2 DEF Closed, LeaveConn, TypeOK, Refs
<1>3. CASE LeaseExpires
  BY <1>3 DEF LeaseExpires, TypeOK, Refs
<1>4. CASE \E scope \in Scopes : Enable(scope)
  BY <1>4 DEF Enable, TypeOK
<1>5. ASSUME NEW c \in Conns, Dial(c) PROVE TypeOK'
  <2>1. /\ conn' = [conn EXCEPT ![c].pc = "add", ![c].epoch = epoch] /\ sock' = sock \cup {c}
        /\ mine' = c /\ conn \in [Conns -> ConnType] /\ "add" \in ConnPC
    BY <1>5 DEF Dial, TypeOK, ConnType, ConnPC
  <2>2. conn' \in [Conns -> ConnType]
    <3>1. epoch \in 0 .. epoch
      BY HubAssumption DEF TypeOK
    <3>2. QED
      BY <2>1, <3>1 DEF ConnType
  <2>3. sock' \subseteq {d \in Conns : conn'[d].pc \notin {"none", "gone"}}
    BY <2>1 DEF TypeOK
  <2>4. QED
    BY <1>5, <2>1, <2>2, <2>3 DEF Dial, TypeOK, ConnType, Refs
<1>6. ASSUME NEW c \in Conns, Write(c) PROVE TypeOK'
  <2>1. /\ queue[c] # <<>> /\ queue' = [queue EXCEPT ![c] = Tail(queue[c])]
        /\ queue \in [Conns -> Seq(Requests)] /\ \A d \in Conns : Len(queue[d]) <= Capacity
        /\ Capacity \in Nat
    BY <1>6, HubAssumption DEF Write, TypeOK
  <2>2. /\ Tail(queue[c]) \in Seq(Requests) /\ Head(queue[c]) \in Requests
        /\ Len(Tail(queue[c])) <= Capacity
    BY <2>1, HeadTailProperties, LenProperties
  <2>3. queue' \in [Conns -> Seq(Requests)] /\ \A d \in Conns : Len(queue'[d]) <= Capacity
    BY <2>1, <2>2
  <2>4. working' \subseteq Requests \X Conns
    BY <1>6, <2>2 DEF Write, TypeOK
  <2>5. QED
    BY <1>6, <2>3, <2>4 DEF Write, TypeOK
<1>7. ASSUME NEW w \in working, AgentAnswers(w) PROVE TypeOK'
  BY <1>7 DEF AgentAnswers, TypeOK
<1>8. QED
  BY <1>1, <1>2, <1>3, <1>4, <1>5, <1>6, <1>7

LEMMA DisconnectTypes ==
  ASSUME TypeOK, Holding, NEW i \in Instances,
         Bind(i) \/ Disconnect(i) \/ \E scope \in Scopes : Disable(i, scope)
  PROVE  TypeOK'
<1> USE DEF access, wires, hubs, stops, work, counts
<1>1. epoch \in 1 .. MaxEpoch /\ held \in 1 .. epoch /\ MaxEpoch \in Nat
      /\ disc \in [Instances -> DiscType] /\ NoConn \in Refs
      /\ notices \in [Instances -> Seq(NoticeType)]
  BY HubAssumption DEF TypeOK, DiscType, NoticeType, Refs
<1>2. ASSUME NEW kind \in Kinds, NEW max \in Nat, StartDisconnect(i, kind, max)
      PROVE  disc' \in [Instances -> DiscType]
  BY <1>1, <1>2 DEF StartDisconnect, DiscType, DiscPC
<1>3. CASE Bind(i)
  <2>1. epoch' = epoch + 1 /\ epoch < MaxEpoch /\ StartDisconnect(i, "bind", epoch)
    BY <1>3 DEF Bind
  <2>2. epoch' \in 1 .. MaxEpoch /\ held' \in 1 .. epoch' /\ 0 .. epoch \subseteq 0 .. epoch'
    BY <1>1, <1>3, <2>1 DEF Bind
  <2>3. disc' \in [Instances -> DiscType]
    BY <1>1, <1>2, <2>1 DEF Kinds
  <2>4. conn' \in [Conns -> [pc : ConnPC, epoch : 0 .. epoch', previous : Refs]]
    BY <1>3, <2>2 DEF Bind, TypeOK
  <2>5. disabled' \subseteq Scopes /\ events' \in Nat
    BY <1>3 DEF Bind, TypeOK
  <2>6. UNCHANGED <<mine, place, sock, wires, hubs, notices, work, up, drops>>
        /\ \A c \in Conns : conn'[c].pc = conn[c].pc
    BY <1>3 DEF Bind
  <2>7. QED
    BY <2>2, <2>3, <2>4, <2>5, <2>6 DEF TypeOK, DiscType
<1>4. ASSUME NEW scope \in Scopes, Disable(i, scope) PROVE TypeOK'
  <2>1. disc' \in [Instances -> DiscType]
    BY <1>2, <1>4 DEF Disable, Kinds
  <2>2. disabled' \subseteq Scopes
    BY <1>4 DEF Disable, TypeOK
  <2>3. events' \in Nat
    BY <1>4 DEF Disable, TypeOK
  <2>4. UNCHANGED <<epoch, held, mine, place, conn, sock, wires, hubs, notices, work, up, drops>>
    BY <1>4 DEF Disable
  <2>5. QED
    BY <2>1, <2>2, <2>3, <2>4 DEF TypeOK, DiscType
<1>5. CASE DisconnectLocal(i)
  <2>1. /\ disc' \in [Instances -> DiscType] /\ table' \in [Instances -> Refs]
        /\ \A j \in Instances : table'[j] # NoConn => place[table'[j]] = j
    BY <1>1, <1>5, TakeOutType DEF DisconnectLocal
  <2>2. QED
    BY <1>5, <2>1 DEF DisconnectLocal, TypeOK, DiscType
<1>6. CASE Notified(i)
  <2> DEFINE d == [pc |-> "map", kind |-> Head(notices[i]).kind, max |-> Head(notices[i]).max,
                   conn |-> NoConn, origin |-> FALSE]
  <2>1. notices[i] # <<>> /\ notices' = [notices EXCEPT ![i] = Tail(notices[i])] /\ TakeOut(i, d)
    BY <1>6 DEF Notified
  <2>2. Head(notices[i]) \in NoticeType /\ Tail(notices[i]) \in Seq(NoticeType)
    BY <1>1, <2>1, HeadTailProperties
  <2>3. d \in DiscType
    BY <1>1, <2>2 DEF NoticeType, DiscType, DiscPC
  <2>4. /\ disc' \in [Instances -> DiscType] /\ table' \in [Instances -> Refs]
        /\ \A j \in Instances : table'[j] # NoConn => place[table'[j]] = j
    BY <2>1, <2>3, TakeOutType
  <2>5. notices' \in [Instances -> Seq(NoticeType)]
    BY <1>1, <2>1, <2>2
  <2>6. QED
    BY <1>6, <2>4, <2>5 DEF Notified, TypeOK, DiscType, NoticeType
<1>7. CASE DisconnectGet(i)
  <2>1. PICK pc \in {"del", "close"} : disc' = [disc EXCEPT ![i].pc = pc]
    BY <1>7 DEF DisconnectGet
  <2>2. pc \in DiscPC
    BY DEF DiscPC
  <2>3. disc' \in [Instances -> DiscType]
    BY <1>1, <2>1, <2>2 DEF DiscType
  <2>4. QED
    BY <1>7, <2>3 DEF DisconnectGet, TypeOK, DiscType
<1>8. CASE DisconnectDelete(i)
  BY <1>1, <1>8 DEF DisconnectDelete, TypeOK, DiscType, DiscPC
<1>9. CASE DisconnectClose(i)
  <2> DEFINE d == disc[i]
  <2>1. d \in DiscType /\ [kind |-> d.kind, max |-> d.max] \in NoticeType
    BY <1>1 DEF DiscType, NoticeType
  <2>2. \A j \in Instances : Append(notices[j], [kind |-> d.kind, max |-> d.max]) \in Seq(NoticeType)
    BY <1>1, <2>1, AppendProperties
  <2>3. notices' \in [Instances -> Seq(NoticeType)]
    BY <1>1, <1>9, <2>2 DEF DisconnectClose
  <2>4. disc' \in [Instances -> DiscType]
    BY <1>1, <1>9 DEF DisconnectClose, NoDisc, DiscType, DiscPC, Kinds
  <2>5. held' \in 1 .. epoch
    <3>1. d.max \in Nat /\ (d.kind = "bind" /\ d.origin => d.max + 1 <= epoch)
      BY <2>1 DEF DiscType, Holding, DiscHolds
    <3>2. held' = IF d.origin /\ d.kind = "bind" THEN d.max + 1 ELSE held
      BY <1>9 DEF DisconnectClose
    <3>3. QED
      BY <1>1, <3>1, <3>2
  <2>6. sock' \subseteq sock
    BY <1>9 DEF DisconnectClose
  <2>7. QED
    BY <1>9, <2>3, <2>4, <2>5, <2>6 DEF DisconnectClose, TypeOK, DiscType, NoticeType
<1>10. QED
  BY <1>3, <1>4, <1>5, <1>6, <1>7, <1>8, <1>9 DEF Disconnect

(* The steps of a request and of the subscribers.                          *)
LEMMA StepType ==
  ASSUME TypeOK, NEW r \in Requests, NEW pc \in ReqPC, NEW t \in Refs, Step(r, pc, t)
  PROVE  /\ req' \in [Requests -> ReqType]
         /\ req'[r] = [pc |-> pc, target |-> t]
         /\ \A q \in Requests \ {r} : req'[q] = req[q]
BY DEF TypeOK, Step, ReqType

(* A message published to other instances.                                 *)
LEMMA DelegatedType ==
  ASSUME TypeOK, NEW r \in Requests, NEW t \in Conns,
         delegated' = [j \in Instances |-> IF j \in Others(Entry[r])
                                           THEN Append(delegated[j], [req |-> r, target |-> t])
                                           ELSE delegated[j]]
  PROVE  delegated' \in [Instances -> Seq(Message)]
<1>1. [req |-> r, target |-> t] \in Message /\ delegated \in [Instances -> Seq(Message)]
  BY DEF Message, TypeOK
<1>2. \A j \in Instances : Append(delegated[j], [req |-> r, target |-> t]) \in Seq(Message)
  BY <1>1, AppendProperties
<1>3. QED
  BY <1>1, <1>2

LEMMA RequestTypes ==
  ASSUME TypeOK, Holding, NEW r \in Requests, Begin(r) \/ Dispatch(r) \/ Finish(r)
  PROVE  TypeOK' /\ req' \in [Requests -> ReqType]
<1> USE DEF access, wires, hubs, stops, work, counts
<1>1. NoConn \in Refs /\ {"lease", "local", "push", "wait", "ended"} \subseteq ReqPC
      /\ (\A t : t \in Refs /\ t # NoConn => t \in Conns) /\ Conns \subseteq Refs
  BY DEF Refs, ReqPC
<1>2. CASE Begin(r)
  <2>1. req' \in [Requests -> ReqType]
    BY <1>1, <1>2, StepType DEF Begin, End
  <2>2. QED
    BY <1>2, <2>1 DEF Begin, TypeOK, ReqType
<1>3. CASE AgentLease(r)
  <2>1. lease \in Refs
    BY DEF TypeOK
  <2>2. req' \in [Requests -> ReqType]
    BY <1>1, <1>3, <2>1, StepType DEF AgentLease, End, Accepted
  <2>3. delegated' \in [Instances -> Seq(Message)]
    <3>1. CASE UNCHANGED delegated
      BY <3>1 DEF TypeOK
    <3>2. CASE ~UNCHANGED delegated
      BY <1>1, <1>3, <2>1, <3>2, DelegatedType DEF AgentLease
    <3>3. QED
      BY <3>1, <3>2
  <2>4. UNCHANGED <<access, mine, place, conn, sock, wires, hubs, stops,
                    sub, responses, answered, pushed, handled, up, counts>>
    BY <1>3 DEF AgentLease
  <2>5. QED
    BY <2>2, <2>3, <2>4 DEF TypeOK, ReqType
<1>4. CASE DispatchLocal(r)
  <2>1. req[r].target \in Conns
    BY <1>4 DEF DispatchLocal, Holding, ReqHolds
  <2>2. \A c \in Dispatchable(Entry[r], req[r].target) : c \in Refs
    BY <1>1, <2>1 DEF Dispatchable
  <2>3. req' \in [Requests -> ReqType]
    BY <1>1, <1>4, <2>2, StepType DEF DispatchLocal, End
  <2>4. QED
    BY <1>4, <2>3 DEF DispatchLocal, TypeOK, ReqType
<1>5. CASE Send(r)
  <2>1. req[r].target \in Conns
    BY <1>5 DEF Send, Holding, ReqHolds
  <2>2. req' \in [Requests -> ReqType]
    BY <1>1, <1>5, StepType DEF Send, End, Accepted
  <2>3. /\ queue' \in [Conns -> Seq(Requests)] /\ \A d \in Conns : Len(queue'[d]) <= Capacity
        /\ pushed' \in [Requests -> SUBSET Conns]
    <3>1. CASE Room(req[r].target) /\ Push(r, req[r].target)
      BY <2>1, <3>1, PushType
    <3>2. CASE UNCHANGED <<queue, pushed>>
      BY <3>2 DEF TypeOK
    <3>3. QED
      BY <1>5, <3>1, <3>2 DEF Send
  <2>4. QED
    BY <1>5, <2>2, <2>3 DEF Send, TypeOK, ReqType
<1>6. CASE Finish(r)
  <2>1. req' \in [Requests -> ReqType]
    BY <1>1, <1>6, StepType DEF Finish, End
  <2>2. QED
    BY <1>6, <2>1 DEF Finish, TypeOK, ReqType
<1>7. QED
  BY <1>2, <1>3, <1>4, <1>5, <1>6 DEF Dispatch, TypeOK, ReqType

LEMMA SubscriberTypes ==
  ASSUME TypeOK, NEW i \in Instances, Subscriber(i)
  PROVE  TypeOK'
<1> USE DEF access, wires, hubs, stops, work, counts
<1>1. /\ delegated \in [Instances -> Seq(Message)] /\ sub \in [Instances -> Seq(Message)]
      /\ NoSub \in Seq(Message)
  BY EmptySeq DEF TypeOK, NoSub
<1>2. CASE SubscriberLook(i)
  <2> DEFINE m == Head(delegated[i])
             n == [m EXCEPT !.target = table[i]]
  <2>1. /\ delegated[i] # <<>> /\ delegated' = [delegated EXCEPT ![i] = Tail(delegated[i])]
        /\ sub' = [sub EXCEPT ![i] = IF Dispatchable(i, m.target) = {} THEN NoSub ELSE <<n>>]
    BY <1>2 DEF SubscriberLook
  <2>2. m \in Message /\ Tail(delegated[i]) \in Seq(Message)
    BY <1>1, <2>1, HeadTailProperties
  <2>3. ASSUME Dispatchable(i, m.target) # {} PROVE <<n>> \in Seq(Message)
    <3>1. table[i] = m.target
      BY <2>3 DEF Dispatchable
    <3>2. n \in Message
      BY <2>2, <3>1 DEF Message
    <3>3. QED
      BY <3>2
  <2>4. sub' \in [Instances -> Seq(Message)] /\ delegated' \in [Instances -> Seq(Message)]
    BY <1>1, <2>1, <2>2, <2>3
  <2>5. QED
    BY <1>2, <2>4 DEF SubscriberLook, TypeOK
<1>3. CASE SubscriberSend(i)
  <2>1. sub[i][1] \in Message
    <3>1. sub[i] \in Seq(Message) /\ sub[i] # <<>>
      BY <1>1, <1>3 DEF SubscriberSend, NoSub
    <3>2. QED
      BY <3>1, HeadTailProperties
  <2>2. sub[i][1].req \in Requests /\ sub[i][1].target \in Conns
    BY <2>1 DEF Message
  <2>3. sub' \in [Instances -> Seq(Message)]
    BY <1>1, <1>3 DEF SubscriberSend
  <2>4. /\ queue' \in [Conns -> Seq(Requests)] /\ \A d \in Conns : Len(queue'[d]) <= Capacity
        /\ pushed' \in [Requests -> SUBSET Conns]
    <3>1. CASE Room(sub[i][1].target) /\ Push(sub[i][1].req, sub[i][1].target)
      BY <2>2, <3>1, PushType
    <3>2. CASE UNCHANGED <<queue, pushed>>
      BY <3>2 DEF TypeOK
    <3>3. QED
      BY <1>3, <3>1, <3>2 DEF SubscriberSend
  <2>5. QED
    BY <1>3, <2>3, <2>4 DEF SubscriberSend, TypeOK
<1>4. ASSUME NEW r \in Requests, SubscriberResolve(i, r) PROVE TypeOK'
  BY <1>4 DEF SubscriberResolve, TypeOK
<1>5. QED
  BY <1>2, <1>3, <1>4 DEF Subscriber

LEMMA PanicTypes ==
  ASSUME TypeOK, NEW i \in Instances, SubscriberPanic(i)
  PROVE  TypeOK'
<1> USE DEF access, wires, hubs, stops, work, counts
<1> DEFINE lost == {c \in Conns : place[c] = i /\ ~At(c, "none")}
<1>1. /\ up' = up \ {i} /\ sock' = sock \ lost /\ beat' = beat \ lost
      /\ conn' = [c \in Conns |-> IF c \in lost
                                  THEN [conn[c] EXCEPT !.pc = "gone", !.previous = NoConn]
                                  ELSE conn[c]]
      /\ queue' = [c \in Conns |-> IF c \in lost THEN <<>> ELSE queue[c]]
      /\ reply' = {a \in reply : a[2] \notin lost}
      /\ table' = [table EXCEPT ![i] = NoConn] /\ disc' = [disc EXCEPT ![i] = NoDisc]
      /\ notices' = [notices EXCEPT ![i] = <<>>]
      /\ req' = [r \in Requests |-> IF Entry[r] = i THEN [pc |-> "ended", target |-> NoConn]
                                    ELSE req[r]]
      /\ delegated' = [delegated EXCEPT ![i] = <<>>] /\ sub' = [sub EXCEPT ![i] = NoSub]
      /\ responses' = {r \in responses : Entry[r] # i}
      /\ UNCHANGED <<access, mine, place, working, lease, answered, pushed, handled, counts>>
  BY DEF SubscriberPanic, StopInstance
<1> HIDE DEF lost
<1>2. /\ conn \in [Conns -> ConnType] /\ "gone" \in ConnPC /\ NoConn \in Refs
      /\ NoDisc \in DiscType /\ "ended" \in ReqPC
  BY DEF TypeOK, ConnType, ConnPC, Refs, NoDisc, DiscType, DiscPC, Kinds, ReqPC
<1>3. conn' \in [Conns -> ConnType]
  BY <1>1, <1>2 DEF ConnType
<1>4. sock' \subseteq {d \in Conns : conn'[d].pc \notin {"none", "gone"}}
  BY <1>1 DEF TypeOK
<1>5. /\ queue' \in [Conns -> Seq(Requests)] /\ \A d \in Conns : Len(queue'[d]) <= Capacity
  <2>1. <<>> \in Seq(Requests) /\ Len(<<>>) = 0 /\ Capacity \in Nat
    BY EmptySeq, HubAssumption
  <2>2. \A d \in Conns : queue'[d] = <<>> \/ queue'[d] = queue[d]
    BY <1>1
  <2>3. queue \in [Conns -> Seq(Requests)] /\ \A d \in Conns : Len(queue[d]) <= Capacity
    BY DEF TypeOK
  <2>4. queue' \in [Conns -> Seq(Requests)]
    BY <1>1, <2>1, <2>3
  <2>5. \A d \in Conns : Len(queue'[d]) <= Capacity
    BY <2>1, <2>2, <2>3
  <2>6. QED
    BY <2>4, <2>5
<1>6. /\ notices' \in [Instances -> Seq(NoticeType)]
      /\ delegated' \in [Instances -> Seq(Message)] /\ sub' \in [Instances -> Seq(Message)]
  <2>1. <<>> \in Seq(NoticeType) /\ <<>> \in Seq(Message) /\ NoSub = <<>>
    BY EmptySeq DEF NoSub
  <2>2. QED
    BY <1>1, <2>1 DEF TypeOK, NoticeType
<1>7. /\ table' \in [Instances -> Refs] /\ \A j \in Instances : table'[j] # NoConn => place'[table'[j]] = j
      /\ disc' \in [Instances -> DiscType]
  BY <1>1, <1>2 DEF TypeOK, DiscType
<1>8. req' \in [Requests -> ReqType]
  BY <1>1, <1>2 DEF TypeOK, ReqType
<1>9. QED
  BY <1>1, <1>3, <1>4, <1>5, <1>6, <1>7, <1>8 DEF TypeOK, ConnType, DiscType, NoticeType, ReqType

-----------------------------------------------------------------------------
(* Which steps touch what.                                                 *)

Agent == \/ Drop \/ Closed \/ LeaseExpires \/ \E scope \in Scopes : Enable(scope)
         \/ \E c \in Conns : Dial(c) \/ Write(c)
         \/ \E w \in working : AgentAnswers(w)
DisconnectStep(i) == Bind(i) \/ Disconnect(i) \/ \E scope \in Scopes : Disable(i, scope)

LEMMA NextCases ==
  Next <=> \/ Agent
           \/ \E c \in Conns : Handler(c)
           \/ \E r \in Requests : Begin(r) \/ Dispatch(r) \/ Finish(r)
           \/ \E i \in Instances : DisconnectStep(i) \/ Subscriber(i) \/ SubscriberPanic(i)
BY DEF Next, Agent, DisconnectStep

LEMMA AgentFrame ==
  ASSUME Agent
  PROVE  UNCHANGED <<epoch, place, table, stops, work, up>>
BY DEF Agent, Drop, Closed, LeaveConn, LeaseExpires, Enable, Dial, Write, AgentAnswers,
       access, hubs

LEMMA HandlerFrame ==
  ASSUME NEW c \in Conns, Handler(c)
  PROVE  /\ UNCHANGED <<access, place, stops, req, delegated, sub, pushed, up>>
         /\ UNCHANGED work \/ \E r \in Requests : ReadReply(c, r)
BY DEF Handler, AddAgent, ClosePrevious, TouchAgent, ReadHeartbeat, ReadFails, RemoveAgentConn,
       GetLease, DeleteLease, Shut, ReadReply, work

LEMMA DisconnectFrame ==
  ASSUME NEW i \in Instances, DisconnectStep(i)
  PROVE  UNCHANGED <<place, conn, work, up>>
BY DEF DisconnectStep, Bind, Disable, Disconnect, Notified, DisconnectLocal, DisconnectGet,
       DisconnectDelete, DisconnectClose

LEMMA RequestFrame ==
  ASSUME NEW r \in Requests, Begin(r) \/ Dispatch(r) \/ Finish(r)
  PROVE  UNCHANGED <<access, mine, place, conn, sock, hubs, stops, responses, sub, up>>
BY DEF Begin, Dispatch, AgentLease, DispatchLocal, Send, Finish

LEMMA SubscriberFrame ==
  ASSUME NEW i \in Instances, Subscriber(i)
  PROVE  UNCHANGED <<access, mine, place, conn, sock, hubs, stops, req, handled, up>>
BY DEF Subscriber, SubscriberLook, SubscriberSend, SubscriberResolve

(* Only the process that ends takes something from the waiters.            *)
LEMMA PanicEffect ==
  ASSUME NEW i \in Instances, SubscriberPanic(i)
  PROVE  /\ up' = up \ {i}
         /\ conn' = [c \in Conns |-> IF place[c] = i /\ conn[c].pc # "none"
                                     THEN [conn[c] EXCEPT !.pc = "gone", !.previous = NoConn]
                                     ELSE conn[c]]
         /\ sock' = sock \ {c \in Conns : place[c] = i /\ conn[c].pc # "none"}
         /\ table' = [table EXCEPT ![i] = NoConn] /\ disc' = [disc EXCEPT ![i] = NoDisc]
         /\ req' = [r \in Requests |-> IF Entry[r] = i THEN [pc |-> "ended", target |-> NoConn]
                                       ELSE req[r]]
         /\ delegated' = [delegated EXCEPT ![i] = <<>>] /\ sub' = [sub EXCEPT ![i] = NoSub]
         /\ responses' = {r \in responses : Entry[r] # i}
         /\ UNCHANGED <<access, place, answered, pushed, handled>>
BY DEF SubscriberPanic, StopInstance, At

-----------------------------------------------------------------------------
(* What the handlers hold.                                                 *)

LEMMA TakeOutHolds ==
  ASSUME TypeOK, Holding, NEW i \in Instances, NEW d \in DiscType, TakeOut(i, d),
         d.conn = NoConn, d.kind = "bind" /\ d.origin => d.max + 1 <= epoch,
         UNCHANGED <<epoch, place>>
  PROVE  \A j \in Instances : DiscHolds(j)'
<1>1. disc \in [Instances -> DiscType] /\ table \in [Instances -> Refs]
  BY DEF TypeOK, DiscType
<1>2. \A j \in Instances \ {i} : disc'[j] = disc[j]
  BY <1>1 DEF TakeOut
<1>3. \/ disc'[i] = [d EXCEPT !.pc = "close"]
      \/ disc'[i] = NoDisc
      \/ \E pc \in {"del", "get"} : disc'[i] = [d EXCEPT !.conn = table[i], !.pc = pc]
  BY <1>1 DEF TakeOut
<1>4. table[i] # NoConn => place[table[i]] = i
  BY DEF TypeOK
<1>5. DiscHolds(i)'
  <2>1. CASE disc'[i] = NoDisc
    BY <2>1 DEF DiscHolds, NoDisc
  <2>2. CASE disc'[i] = [d EXCEPT !.pc = "close"]
    <3>1. /\ disc'[i].pc = "close" /\ disc'[i].conn = NoConn /\ disc'[i].kind = d.kind
          /\ disc'[i].origin = d.origin /\ disc'[i].max = d.max
      BY <2>2 DEF DiscType
    <3>2. QED
      BY <3>1 DEF DiscHolds
  <2>3. ASSUME NEW pc \in {"del", "get"}, disc'[i] = [d EXCEPT !.conn = table[i], !.pc = pc]
        PROVE  DiscHolds(i)'
    <3>1. /\ disc'[i].pc = pc /\ disc'[i].conn = table[i] /\ disc'[i].kind = d.kind
          /\ disc'[i].origin = d.origin /\ disc'[i].max = d.max
      BY <2>3 DEF DiscType
    <3>2. QED
      BY <1>4, <3>1 DEF DiscHolds
  <2>4. QED
    BY <1>3, <2>1, <2>2, <2>3
<1>6. QED
  BY <1>2, <1>5 DEF Holding, DiscHolds

LEMMA DiscHoldsKept ==
  ASSUME TypeOK, Holding, NEW i \in Instances, DisconnectStep(i)
  PROVE  \A j \in Instances : DiscHolds(j)'
<1>1. /\ disc \in [Instances -> DiscType] /\ epoch \in Nat /\ UNCHANGED place
      /\ \A j \in Instances : DiscHolds(j)
      /\ notices \in [Instances -> Seq(NoticeType)]
  <2>1. epoch \in Nat
    BY HubAssumption DEF TypeOK
  <2>2. QED
    BY <2>1, DisconnectFrame DEF TypeOK, DiscType, Holding, NoticeType
<1>2. CASE Bind(i) \/ \E scope \in Scopes : Disable(i, scope)
  <2>1. PICK kind \in Kinds, max \in Nat :
          /\ StartDisconnect(i, kind, max) /\ epoch' \in {epoch, epoch + 1}
          /\ kind = "bind" => max + 1 <= epoch'
    BY <1>1, <1>2 DEF Bind, Disable, Kinds
  <2>2. /\ disc'[i] = [pc |-> "map", kind |-> kind, max |-> max, conn |-> NoConn, origin |-> TRUE]
        /\ \A j \in Instances \ {i} : disc'[j] = disc[j]
    BY <1>1, <2>1 DEF StartDisconnect
  <2>3. DiscHolds(i)'
    BY <2>1, <2>2 DEF DiscHolds
  <2>4. ASSUME NEW j \in Instances \ {i} PROVE DiscHolds(j)'
    <3>1. disc[j].max \in Nat
      BY <1>1 DEF DiscType
    <3>2. QED
      BY <1>1, <2>1, <2>2, <3>1 DEF DiscHolds
  <2>5. QED
    BY <2>3, <2>4
<1>3. CASE DisconnectLocal(i)
  BY <1>1, <1>3, TakeOutHolds DEF DisconnectLocal, DiscHolds, access
<1>4. CASE Notified(i)
  <2> DEFINE d == [pc |-> "map", kind |-> Head(notices[i]).kind, max |-> Head(notices[i]).max,
                   conn |-> NoConn, origin |-> FALSE]
  <2>1. Head(notices[i]) \in NoticeType
    BY <1>1, <1>4, HeadTailProperties DEF Notified
  <2>2. d \in DiscType
    BY <2>1 DEF NoticeType, DiscType, DiscPC, Refs
  <2>3. TakeOut(i, d) /\ UNCHANGED epoch
    BY <1>4 DEF Notified, access
  <2>4. QED
    BY <1>1, <2>2, <2>3, TakeOutHolds
<1>5. CASE DisconnectGet(i) \/ DisconnectDelete(i)
  <2>1. disc[i].pc \in {"get", "del"} /\ \E pc \in {"del", "close"} : disc' = [disc EXCEPT ![i].pc = pc]
    BY <1>5 DEF DisconnectGet, DisconnectDelete
  <2>2. UNCHANGED epoch
    BY <1>5 DEF DisconnectGet, DisconnectDelete, access
  <2>3. /\ disc'[i].pc \in {"del", "close"} /\ disc'[i].conn = disc[i].conn
        /\ disc'[i].kind = disc[i].kind /\ disc'[i].origin = disc[i].origin
        /\ disc'[i].max = disc[i].max
        /\ \A j \in Instances \ {i} : disc'[j] = disc[j]
    BY <1>1, <2>1 DEF DiscType
  <2>4. QED
    BY <1>1, <2>2, <2>3 DEF DiscHolds
<1>6. CASE DisconnectClose(i)
  <2>1. disc' = [disc EXCEPT ![i] = NoDisc] /\ UNCHANGED epoch
    BY <1>6 DEF DisconnectClose
  <2>2. QED
    BY <1>1, <2>1 DEF DiscHolds, NoDisc
<1>7. QED
  BY <1>2, <1>3, <1>4, <1>5, <1>6 DEF DisconnectStep, Disconnect

LEMMA ReqHoldsKept ==
  ASSUME TypeOK, Holding, NEW r \in Requests, Begin(r) \/ Dispatch(r) \/ Finish(r)
  PROVE  \A q \in Requests : ReqHolds(q)'
<1>1. UNCHANGED up /\ \A q \in Requests : ReqHolds(q)
  BY RequestFrame DEF Holding
<1>2. /\ \A q \in Requests \ {r} : req'[q] = req[q]
      /\ req'[r].pc \in {"local", "push"} => req'[r].target \in Conns
      /\ req[r].pc = "new" \/ Registered(r)
      /\ req[r].pc = "new" => Entry[r] \in up
  <2>1. /\ \A t : t \in Refs /\ t # NoConn => t \in Conns
        /\ lease \in Refs /\ req \in [Requests -> ReqType]
    BY DEF TypeOK, Refs, ReqType
  <2>2. CASE Begin(r)
    BY <2>1, <2>2 DEF Begin, End, Step, ReqType
  <2>3. CASE AgentLease(r)
    BY <2>1, <2>3 DEF AgentLease, End, Step, Accepted, ReqType, ReqPC, Registered
  <2>4. CASE DispatchLocal(r)
    BY <1>1, <2>1, <2>4 DEF DispatchLocal, Dispatchable, End, Step, ReqType, ReqPC, Registered, ReqHolds
  <2>5. CASE Send(r)
    BY <2>1, <2>5 DEF Send, End, Step, Accepted, ReqType, ReqPC, Registered
  <2>6. CASE Finish(r)
    BY <2>1, <2>6 DEF Finish, End, Step, ReqType, ReqPC, Registered
  <2>7. QED
    BY <2>2, <2>3, <2>4, <2>5, <2>6 DEF Dispatch
<1>3. QED
  BY <1>1, <1>2 DEF ReqHolds, Registered

LEMMA PanicHolds ==
  ASSUME TypeOK, Holding, NEW i \in Instances, SubscriberPanic(i)
  PROVE  Holding'
<1>1. /\ up' = up \ {i} /\ disc' = [disc EXCEPT ![i] = NoDisc] /\ UNCHANGED <<epoch, place>>
      /\ req' = [r \in Requests |-> IF Entry[r] = i THEN [pc |-> "ended", target |-> NoConn]
                                    ELSE req[r]]
      /\ disc \in [Instances -> DiscType]
  BY PanicEffect DEF access, TypeOK, DiscType
<1>2. \A j \in Instances : DiscHolds(j)'
  BY <1>1 DEF Holding, DiscHolds, NoDisc
<1>3. \A r \in Requests : ReqHolds(r)'
  BY <1>1 DEF Holding, ReqHolds, Registered
<1>4. QED
  BY <1>2, <1>3 DEF Holding

-----------------------------------------------------------------------------
(* A connection that is served stays in the table, or somebody closes it.  *)

(* How c is accounted for.                                                 *)
Reachable(c) ==
  \/ table[place[c]] = c
  \/ \E d \in Conns : At(d, "close") /\ conn[d].previous = c
  \/ disc[place[c]].conn = c

LEMMA OpenReachable ==
  OpenIsRegistered <=> \A c \in Conns : Served(c) => Reachable(c)
BY DEF OpenIsRegistered, Reachable

(* A handler's step other than putting the connection into the table.      *)
LEMMA HandlerRegisters ==
  ASSUME TypeOK, Registering, NEW c \in Conns, Handler(c)
  PROVE  Registering'
<1>1. /\ UNCHANGED <<place, disc>>
      /\ conn \in [Conns -> ConnType] /\ table \in [Instances -> Refs] /\ place \in [Conns -> Instances]
      /\ \A i \in Instances : table[i] # NoConn => place[table[i]] = i /\ table[i] \in Conns
      /\ \A i \in Instances : table[i] # NoConn => conn[table[i]].pc \notin {"none", "add"}
      /\ \A d \in Conns : conn[d].previous # NoConn => place[conn[d].previous] = place[d]
      /\ \A d \in Conns : Served(d) => Reachable(d)
      /\ NoConn \notin Conns
  BY HandlerFrame, HubAssumption, OpenReachable
     DEF TypeOK, ConnType, Refs, Registering, stops
<1>2. ASSUME \A d \in Conns \ {c} : conn'[d] = conn[d],
             conn'[c].pc \notin {"none", "add"}, conn'[c].previous = conn[c].previous,
             conn[c].pc # "close", sock' \subseteq sock,
             \/ UNCHANGED table
             \/ table[place[c]] = c /\ table' = [table EXCEPT ![place[c]] = NoConn],
             Served(c)' => Served(c) /\ UNCHANGED table
      PROVE  Registering'
  <2>1. \A i \in Instances : table'[i] # NoConn => table'[i] = table[i]
    BY <1>1, <1>2
  <2>2. \A i \in Instances : table'[i] # NoConn => conn'[table'[i]].pc \notin {"none", "add"}
    BY <1>1, <1>2, <2>1
  <2>3. \A d \in Conns : conn'[d].previous # NoConn => place'[conn'[d].previous] = place'[d]
    BY <1>1, <1>2
  <2>4. ASSUME NEW d \in Conns, Served(d)' PROVE Reachable(d)'
    <3>1. Served(d)
      BY <1>2, <2>4 DEF Served
    <3>2. table[place[d]] = d => table'[place[d]] = d
      BY <1>1, <1>2, <2>4
    <3>3. \A e \in Conns : At(e, "close") /\ conn[e].previous = d
                             => At(e, "close")' /\ conn'[e].previous = d
      BY <1>2 DEF At
    <3>4. QED
      BY <1>1, <3>1, <3>2, <3>3 DEF Reachable
  <2>5. QED
    BY <2>2, <2>3, <2>4 DEF Registering, OpenIsRegistered, Reachable
<1>3. ASSUME NEW pc \in ConnPC \ {"none", "add"}, conn' = [conn EXCEPT ![c].pc = pc]
      PROVE  /\ \A d \in Conns \ {c} : conn'[d] = conn[d]
             /\ conn'[c].pc = pc /\ conn'[c].previous = conn[c].previous
  BY <1>3, ConnGoes
<1>4. CASE AddAgent(c)
  <2> DEFINE i == place[c]
             old == table[i]
  <2>1. /\ conn[c].pc = "add" /\ table' = [table EXCEPT ![i] = c] /\ UNCHANGED sock
        /\ conn' = [conn EXCEPT ![c].previous = old,
                                ![c].pc = IF old = NoConn THEN "touch" ELSE "close"]
        /\ i \in Instances
    BY <1>1, <1>4 DEF AddAgent, At
  <2>2. /\ conn'[c].pc = (IF old = NoConn THEN "touch" ELSE "close") /\ conn'[c].previous = old
        /\ \A d \in Conns \ {c} : conn'[d] = conn[d]
        /\ table'[i] = c /\ \A j \in Instances \ {i} : table'[j] = table[j]
    BY <1>1, <2>1 DEF ConnType
  <2>3. \A j \in Instances : table'[j] # NoConn => conn'[table'[j]].pc \notin {"none", "add"}
    BY <1>1, <2>1, <2>2
  <2>4. \A d \in Conns : conn'[d].previous # NoConn => place'[conn'[d].previous] = place'[d]
    BY <1>1, <2>1, <2>2
  <2>5. ASSUME NEW d \in Conns, Served(d)' PROVE Reachable(d)'
    <3>1. CASE d = c
      BY <1>1, <2>2, <3>1 DEF Reachable
    <3>2. CASE d # c /\ old = d
      <4>1. At(c, "close")' /\ conn'[c].previous = d
        BY <1>1, <2>2, <3>2 DEF At
      <4>2. QED
        BY <4>1 DEF Reachable
    <3>3. CASE d # c /\ old # d
      <4>1. Served(d)
        BY <2>1, <2>2, <2>5, <3>3 DEF Served
      <4>2. table[place[d]] = d => table'[place[d]] = d
        BY <1>1, <2>2, <3>3
      <4>3. \A e \in Conns : At(e, "close") /\ conn[e].previous = d
                               => At(e, "close")' /\ conn'[e].previous = d
        BY <2>1, <2>2 DEF At
      <4>4. QED
        BY <1>1, <4>1, <4>2, <4>3 DEF Reachable
    <3>4. QED
      BY <3>1, <3>2, <3>3
  <2>6. QED
    BY <2>3, <2>4, <2>5 DEF Registering, OpenIsRegistered, Reachable
<1>5. CASE ClosePrevious(c)
  <2>1. /\ conn[c].pc = "close" /\ sock' = sock \ {conn[c].previous} /\ UNCHANGED table
        /\ conn' = [conn EXCEPT ![c].previous = NoConn, ![c].pc = "touch"]
    BY <1>5 DEF ClosePrevious, At, hubs
  <2>2. /\ conn'[c].pc = "touch" /\ conn'[c].previous = NoConn
        /\ \A d \in Conns \ {c} : conn'[d] = conn[d]
    BY <1>1, <2>1 DEF ConnType
  <2>3. \A i \in Instances : table'[i] # NoConn => conn'[table'[i]].pc \notin {"none", "add"}
    BY <1>1, <2>1, <2>2
  <2>4. \A d \in Conns : conn'[d].previous # NoConn => place'[conn'[d].previous] = place'[d]
    BY <1>1, <2>2
  <2>5. ASSUME NEW d \in Conns, Served(d)' PROVE Reachable(d)'
    <3>1. Served(d) /\ d # conn[c].previous
      BY <2>1, <2>2, <2>5 DEF Served
    <3>2. \A e \in Conns : At(e, "close") /\ conn[e].previous = d
                             => At(e, "close")' /\ conn'[e].previous = d
      BY <2>2, <3>1 DEF At
    <3>3. QED
      BY <1>1, <2>1, <3>1, <3>2 DEF Reachable
  <2>6. QED
    BY <2>3, <2>4, <2>5 DEF Registering, OpenIsRegistered, Reachable
<1>6. CASE TouchAgent(c) \/ ReadHeartbeat(c) \/ ReadFails(c) \/ \E r \in Requests : ReadReply(c, r)
  <2>1. /\ conn[c].pc \in {"touch", "read"} /\ UNCHANGED <<sock, table>>
        /\ conn' = conn \/ \E pc \in {"read", "touch", "remove"} : conn' = [conn EXCEPT ![c].pc = pc]
    BY <1>6 DEF TouchAgent, ReadHeartbeat, ReadFails, ReadReply, At, Go, hubs
  <2>2. /\ \A d \in Conns \ {c} : conn'[d] = conn[d]
        /\ conn'[c].pc \notin {"none", "add"} /\ conn'[c].previous = conn[c].previous
    BY <1>3, <2>1 DEF ConnPC
  <2>3. Served(c)' => Served(c)
    BY <2>1 DEF Served
  <2>4. QED
    BY <1>2, <2>1, <2>2, <2>3
<1>7. CASE RemoveAgentConn(c) \/ GetLease(c) \/ DeleteLease(c) \/ Shut(c)
  <2>1. /\ conn[c].pc \in {"remove", "get", "del", "shut"} /\ sock' \subseteq sock
        /\ \E pc \in {"get", "del", "shut", "gone"} : conn' = [conn EXCEPT ![c].pc = pc]
        /\ \/ UNCHANGED table
           \/ table[place[c]] = c /\ table' = [table EXCEPT ![place[c]] = NoConn]
    BY <1>7 DEF RemoveAgentConn, GetLease, DeleteLease, Shut, At, Go, hubs
  <2>2. /\ \A d \in Conns \ {c} : conn'[d] = conn[d]
        /\ conn'[c].pc \in {"get", "del", "shut", "gone"} /\ conn'[c].previous = conn[c].previous
    BY <1>3, <2>1 DEF ConnPC
  <2>3. ~Served(c)'
    BY <2>2 DEF Served
  <2>4. QED
    BY <1>2, <2>1, <2>2, <2>3
<1>8. QED
  BY <1>4, <1>5, <1>6, <1>7 DEF Handler

LEMMA AgentRegisters ==
  ASSUME TypeOK, Registering, Agent
  PROVE  Registering'
<1>1. UNCHANGED <<place, table, disc>>
  BY AgentFrame DEF stops
<1>2. CASE UNCHANGED <<conn, sock>>
  BY <1>1, <1>2 DEF Registering, OpenIsRegistered, Served, At
<1>3. ASSUME NEW c \in Conns, Dial(c) PROVE Registering'
  <2>1. /\ conn[c].pc = "none" /\ conn \in [Conns -> ConnType] /\ sock' = sock \cup {c}
        /\ conn' = [conn EXCEPT ![c].pc = "add", ![c].epoch = epoch]
    BY <1>3 DEF Dial, At, TypeOK, ConnType
  <2>2. /\ conn'[c].pc = "add" /\ conn'[c].previous = conn[c].previous
        /\ \A d \in Conns \ {c} : conn'[d] = conn[d]
    BY <2>1 DEF ConnType
  <2>3. \A i \in Instances : table[i] # NoConn => table[i] \in Conns \ {c}
    BY <2>1 DEF Registering, TypeOK, Refs
  <2>4. \A i \in Instances : table'[i] # NoConn => conn'[table'[i]].pc \notin {"none", "add"}
    BY <1>1, <2>2, <2>3 DEF Registering
  <2>5. \A d \in Conns : conn'[d].previous # NoConn => place'[conn'[d].previous] = place'[d]
    BY <1>1, <2>2 DEF Registering
  <2>6. ASSUME NEW d \in Conns, Served(d)' PROVE Reachable(d)'
    <3>1. Served(d)
      BY <2>1, <2>2, <2>6 DEF Served
    <3>2. \A e \in Conns : At(e, "close") /\ conn[e].previous = d
                             => At(e, "close")' /\ conn'[e].previous = d
      BY <2>1, <2>2 DEF At
    <3>3. QED
      BY <1>1, <3>1, <3>2 DEF Registering, OpenIsRegistered, Reachable
  <2>7. QED
    BY <2>4, <2>5, <2>6 DEF Registering, OpenIsRegistered, Reachable
<1>4. UNCHANGED <<conn, sock>> \/ \E c \in Conns : Dial(c)
  BY DEF Agent, Drop, Closed, LeaveConn, LeaseExpires, Enable, Write, AgentAnswers
<1>5. QED
  BY <1>2, <1>3, <1>4

(* A disconnect takes the connection out of the table, remembers it, and   *)
(* forgets it when its socket is closed.                                   *)
LEMMA DisconnectRegisters ==
  ASSUME TypeOK, Holding, Registering, NEW i \in Instances, DisconnectStep(i)
  PROVE  Registering'
<1>1. /\ UNCHANGED <<place, conn>>
      /\ disc \in [Instances -> DiscType] /\ table \in [Instances -> Refs]
      /\ \A j \in Instances : table[j] # NoConn => place[table[j]] = j
      /\ disc[i].pc \in {"none", "map"} => disc[i].conn = NoConn
      /\ \A c \in Conns : Served(c) => Reachable(c)
      /\ NoConn \notin Conns
  BY DisconnectFrame, HubAssumption DEF TypeOK, DiscType, Holding, DiscHolds, Registering,
     OpenIsRegistered, Reachable
<1>2. ASSUME \A j \in Instances \ {i} : disc'[j] = disc[j] /\ table'[j] = table[j],
             sock' \subseteq sock,
             \/ table'[i] = table[i] /\ (disc'[i].conn = disc[i].conn \/ disc[i].conn \notin sock')
             \/ table'[i] = NoConn /\ disc'[i].conn = table[i] /\ disc[i].conn = NoConn
      PROVE  Registering'
  <2>1. \A j \in Instances : table'[j] # NoConn => table'[j] = table[j]
    BY <1>2
  <2>2. ASSUME NEW c \in Conns, Served(c)' PROVE Reachable(c)'
    <3>1. Served(c) /\ c \in sock'
      BY <1>1, <1>2, <2>2 DEF Served
    <3>2. \A e \in Conns : At(e, "close") => At(e, "close")'
      BY <1>1 DEF At
    <3>3. place[c] \in Instances
      BY HubAssumption DEF TypeOK
    <3>4. CASE place[c] = i
      BY <1>1, <1>2, <3>1, <3>2, <3>4 DEF Reachable
    <3>5. CASE place[c] # i
      BY <1>1, <1>2, <3>1, <3>2, <3>3, <3>5 DEF Reachable
    <3>6. QED
      BY <3>4, <3>5
  <2>3. QED
    BY <1>1, <2>1, <2>2 DEF Registering, OpenIsRegistered, Reachable
<1>3. ASSUME NEW d \in DiscType, TakeOut(i, d), d.conn = NoConn, disc[i].conn = NoConn,
             UNCHANGED sock
      PROVE  Registering'
  <2>1. \A j \in Instances \ {i} : disc'[j] = disc[j] /\ table'[j] = table[j]
    BY <1>1, <1>3 DEF TakeOut
  <2>2. CASE Spared(i, d) \/ Nothing(i, d)
    <3>1. table'[i] = table[i] /\ (disc'[i] = NoDisc \/ disc'[i] = [d EXCEPT !.pc = "close"])
      BY <1>1, <1>3, <2>2 DEF TakeOut
    <3>2. disc'[i].conn = NoConn
      BY <1>3, <3>1 DEF NoDisc, DiscType
    <3>3. QED
      BY <1>2, <1>3, <2>1, <3>1, <3>2
  <2>3. CASE ~(Spared(i, d) \/ Nothing(i, d))
    <3>1. PICK pc \in {"del", "get"} :
            /\ disc' = [disc EXCEPT ![i] = [d EXCEPT !.conn = table[i], !.pc = pc]]
            /\ table' = [table EXCEPT ![i] = NoConn]
      BY <1>3, <2>3 DEF TakeOut
    <3>2. table'[i] = NoConn /\ disc'[i].conn = table[i]
      BY <1>1, <3>1 DEF DiscType
    <3>3. QED
      BY <1>2, <1>3, <2>1, <3>2
  <2>4. QED
    BY <2>2, <2>3
<1>4. CASE Bind(i) \/ \E scope \in Scopes : Disable(i, scope)
  <2>1. /\ disc[i].pc = "none" /\ UNCHANGED <<sock, table>>
        /\ \E kind, max : StartDisconnect(i, kind, max)
    BY <1>4 DEF Bind, Disable, hubs
  <2>2. disc'[i].conn = NoConn /\ \A j \in Instances \ {i} : disc'[j] = disc[j]
    BY <1>1, <2>1 DEF StartDisconnect
  <2>3. QED
    BY <1>1, <1>2, <2>1, <2>2
<1>5. CASE DisconnectLocal(i)
  BY <1>1, <1>3, <1>5 DEF DisconnectLocal
<1>6. CASE Notified(i)
  <2> DEFINE d == [pc |-> "map", kind |-> Head(notices[i]).kind, max |-> Head(notices[i]).max,
                   conn |-> NoConn, origin |-> FALSE]
  <2>1. Head(notices[i]) \in NoticeType
    <3>1. notices[i] \in Seq(NoticeType) /\ notices[i] # <<>>
      BY <1>6 DEF Notified, TypeOK, NoticeType
    <3>2. QED
      BY <3>1, HeadTailProperties
  <2>2. d \in DiscType
    BY <2>1 DEF NoticeType, DiscType, DiscPC, Refs
  <2>3. TakeOut(i, d) /\ UNCHANGED sock /\ disc[i].pc = "none"
    BY <1>6 DEF Notified
  <2>4. QED
    BY <1>1, <1>3, <2>2, <2>3
<1>7. CASE DisconnectGet(i) \/ DisconnectDelete(i)
  <2>1. /\ \E pc \in {"del", "close"} : disc' = [disc EXCEPT ![i].pc = pc]
        /\ UNCHANGED <<sock, table>>
    BY <1>7 DEF DisconnectGet, DisconnectDelete, hubs
  <2>2. disc'[i].conn = disc[i].conn /\ \A j \in Instances \ {i} : disc'[j] = disc[j]
    BY <1>1, <2>1 DEF DiscType
  <2>3. QED
    BY <1>2, <2>1, <2>2
<1>8. CASE DisconnectClose(i)
  <2>1. /\ disc' = [disc EXCEPT ![i] = NoDisc] /\ sock' = sock \ {disc[i].conn} /\ UNCHANGED table
    BY <1>8 DEF DisconnectClose, hubs
  <2>2. \A j \in Instances \ {i} : disc'[j] = disc[j]
    BY <1>1, <2>1
  <2>3. QED
    BY <1>2, <2>1, <2>2
<1>9. QED
  BY <1>4, <1>5, <1>6, <1>7, <1>8 DEF DisconnectStep, Disconnect

LEMMA PanicRegisters ==
  ASSUME TypeOK, Registering, NEW i \in Instances, SubscriberPanic(i)
  PROVE  Registering'
<1>1. /\ conn' = [c \in Conns |-> IF place[c] = i /\ conn[c].pc # "none"
                                  THEN [conn[c] EXCEPT !.pc = "gone", !.previous = NoConn]
                                  ELSE conn[c]]
      /\ sock' \subseteq sock
      /\ table' = [table EXCEPT ![i] = NoConn] /\ disc' = [disc EXCEPT ![i] = NoDisc]
      /\ UNCHANGED place
  BY PanicEffect
<1>2. /\ conn \in [Conns -> ConnType] /\ table \in [Instances -> Refs]
      /\ disc \in [Instances -> DiscType] /\ place \in [Conns -> Instances]
      /\ \A j \in Instances : table[j] # NoConn => place[table[j]] = j /\ table[j] \in Conns
      /\ \A j \in Instances : table[j] # NoConn => conn[table[j]].pc \notin {"none", "add"}
      /\ \A d \in Conns : conn[d].previous # NoConn => place[conn[d].previous] = place[d]
      /\ \A d \in Conns : Served(d) => Reachable(d)
  BY HubAssumption, OpenReachable DEF TypeOK, ConnType, DiscType, Refs, Registering
<1>3. \A c \in Conns : \/ conn'[c] = conn[c] /\ (place[c] # i \/ conn[c].pc = "none")
                       \/ conn'[c].pc = "gone" /\ conn'[c].previous = NoConn /\ place[c] = i
  <2>1. ASSUME NEW c \in Conns, place[c] = i, conn[c].pc # "none"
        PROVE  conn'[c].pc = "gone" /\ conn'[c].previous = NoConn
    <3>1. conn'[c] = [conn[c] EXCEPT !.pc = "gone", !.previous = NoConn]
      BY <1>1, <2>1
    <3>2. QED
      BY <1>2, <3>1 DEF ConnType
  <2>2. ASSUME NEW c \in Conns, ~(place[c] = i /\ conn[c].pc # "none") PROVE conn'[c] = conn[c]
    BY <1>1, <2>2
  <2>3. QED
    BY <2>1, <2>2
<1>4. ASSUME NEW j \in Instances, table'[j] # NoConn
      PROVE  conn'[table'[j]].pc \notin {"none", "add"}
  <2>1. table'[j] = table[j] /\ j # i
    BY <1>1, <1>2, <1>4
  <2>2. conn'[table[j]] = conn[table[j]]
    BY <1>2, <1>3, <1>4, <2>1
  <2>3. QED
    BY <1>2, <1>4, <2>1, <2>2
<1>5. \A d \in Conns : conn'[d].previous # NoConn => place'[conn'[d].previous] = place'[d]
  BY <1>1, <1>2, <1>3
<1>6. ASSUME NEW c \in Conns, Served(c)' PROVE Reachable(c)'
  <2>1. Served(c) /\ place[c] # i
    BY <1>1, <1>3, <1>6 DEF Served
  <2>2. ASSUME NEW d \in Conns, At(d, "close"), conn[d].previous = c
        PROVE  At(d, "close")' /\ conn'[d].previous = c
    <3>1. place[d] = place[c]
      BY <1>2, <2>2, HubAssumption
    <3>2. QED
      BY <1>3, <2>1, <2>2, <3>1 DEF At
  <2>3. QED
    BY <1>1, <1>2, <2>1, <2>2 DEF Reachable
<1>7. QED
  BY <1>4, <1>5, <1>6 DEF Registering, OpenIsRegistered, Reachable

-----------------------------------------------------------------------------
(* A request is queued for one connection.                                 *)

Undispatched == {"new", "lease", "local", "push"}

LEMMA HoldsAppend ==
  ASSUME NEW q \in Seq(Message), NEW n \in Message, NEW m
  PROVE  Holds(Append(q, n), m) => Holds(q, m) \/ m = n
<1>1. Len(q) \in Nat /\ Len(Append(q, n)) = Len(q) + 1 /\ Append(q, n)[Len(q) + 1] = n
      /\ \A k \in 1 .. Len(q) : Append(q, n)[k] = q[k]
  BY AppendProperties, LenProperties
<1>2. \A k \in 1 .. Len(q) + 1 : k \in 1 .. Len(q) \/ k = Len(q) + 1
  BY <1>1
<1>3. QED
  BY <1>1, <1>2 DEF Holds

LEMMA HoldsTail ==
  ASSUME NEW q \in Seq(Message), q # <<>>
  PROVE  /\ Head(q) \in Message /\ Holds(q, Head(q))
         /\ \A m : Holds(Tail(q), m) => Holds(q, m)
<1>1. /\ Len(q) \in Nat /\ Len(q) # 0 /\ Len(Tail(q)) = Len(q) - 1
      /\ \A k \in 1 .. Len(Tail(q)) : Tail(q)[k] = q[k + 1]
      /\ Head(q) = q[1] /\ Head(q) \in Message
  BY HeadTailProperties, LenProperties, EmptySeq
<1>2. 1 \in 1 .. Len(q) /\ \A k \in 1 .. Len(Tail(q)) : k + 1 \in 1 .. Len(q)
  BY <1>1
<1>3. QED
  BY <1>1, <1>2 DEF Holds

LEMMA HoldsNothing ==
  \A m : ~Holds(<<>>, m)
<1>1. \A k \in 1 .. Len(<<>>) : FALSE
  BY EmptySeq
<1>2. QED
  BY <1>1 DEF Holds

(* Messages are taken, none is published and none is sent.                 *)
LEMMA LessInFlight ==
  ASSUME OneTarget, \A r \in Requests : InFlight(r)' \subseteq InFlight(r),
         UNCHANGED pushed,
         \A r \in Requests : req'[r].pc \in Undispatched => req[r].pc \in Undispatched
  PROVE  OneTarget'
BY DEF OneTarget, Undispatched

LEMMA RequestTargets ==
  ASSUME TypeOK, Holding, OneTarget, NEW r \in Requests, Begin(r) \/ Dispatch(r) \/ Finish(r)
  PROVE  OneTarget'
<1>1. /\ UNCHANGED sub /\ req \in [Requests -> ReqType] /\ req' \in [Requests -> ReqType]
      /\ delegated \in [Instances -> Seq(Message)]
      /\ lease \in Refs /\ \A t : t \in Refs /\ t # NoConn => t \in Conns
  BY RequestFrame, RequestTypes DEF TypeOK, ReqType, Refs
<1>2. ASSUME UNCHANGED <<delegated, pushed>>, req[r].pc \in Undispatched \/ req'[r].pc \notin Undispatched,
             \A q \in Requests \ {r} : req'[q] = req[q]
      PROVE  OneTarget'
  <2>1. \A q \in Requests : InFlight(q)' \subseteq InFlight(q)
    BY <1>1, <1>2 DEF InFlight
  <2>2. \A q \in Requests : req'[q].pc \in Undispatched => req[q].pc \in Undispatched
    BY <1>2
  <2>3. QED
    BY <1>2, <2>1, <2>2, LessInFlight
<1>3. CASE Begin(r)
  BY <1>1, <1>2, <1>3 DEF Begin, End, Step, Undispatched, ReqType
<1>4. CASE DispatchLocal(r)
  BY <1>1, <1>2, <1>4 DEF DispatchLocal, End, Step, Undispatched, ReqType
<1>5. CASE Finish(r)
  BY <1>1, <1>2, <1>5 DEF Finish, End, Step, Undispatched, ReqType
<1>6. CASE AgentLease(r)
  <2>1. /\ req[r].pc \in Undispatched /\ UNCHANGED pushed
        /\ \A q \in Requests \ {r} : req'[q] = req[q]
    BY <1>1, <1>6 DEF AgentLease, End, Step, Accepted, Undispatched, ReqType
  <2>2. CASE UNCHANGED delegated
    BY <1>2, <2>1, <2>2
  <2>3. CASE ~UNCHANGED delegated
    <3> DEFINE n == [req |-> r, target |-> lease]
    <3>1. /\ req'[r].pc = "wait" /\ lease \in Conns
          /\ delegated' = [j \in Instances |-> IF j \in Others(Entry[r]) THEN Append(delegated[j], n)
                                               ELSE delegated[j]]
      BY <1>1, <1>6, <2>3 DEF AgentLease, Step, Accepted, ReqType
    <3>2. n \in Message
      BY <3>1 DEF Message
    <3>3. \A j \in Instances : \A m : Holds(delegated'[j], m) => Holds(delegated[j], m) \/ m = n
      BY <1>1, <3>1, <3>2, HoldsAppend
    <3>4. \A q \in Requests \ {r} : InFlight(q)' \subseteq InFlight(q)
      BY <1>1, <3>3 DEF InFlight
    <3>5. InFlight(r)' \subseteq {n} /\ pushed'[r] = {}
      <4>1. InFlight(r) = {} /\ pushed[r] = {}
        BY <2>1 DEF OneTarget, Undispatched
      <4>2. QED
        BY <1>1, <2>1, <3>3, <4>1 DEF InFlight
    <3>6. ASSUME NEW q \in Requests
          PROVE  /\ req'[q].pc \in Undispatched => InFlight(q)' = {} /\ pushed'[q] = {}
                 /\ \E t \in Refs : (\A m \in InFlight(q)' : m.target = t) /\ pushed'[q] \subseteq {t}
      <4>1. CASE q = r
        <5>1. (\A m \in InFlight(q)' : m.target = lease) /\ pushed'[q] \subseteq {lease}
          BY <3>5, <4>1
        <5>2. req'[q].pc \notin Undispatched
          BY <3>1, <4>1 DEF Undispatched
        <5>3. QED
          BY <1>1, <5>1, <5>2
      <4>2. CASE q # r
        <5>1. req'[q] = req[q] /\ pushed'[q] = pushed[q] /\ InFlight(q)' \subseteq InFlight(q)
          BY <2>1, <3>4, <4>2
        <5>2. QED
          BY <5>1 DEF OneTarget, Undispatched
      <4>3. QED
        BY <4>1, <4>2
    <3>7. QED
      BY <3>6 DEF OneTarget, Undispatched
  <2>4. QED
    BY <2>2, <2>3
<1>7. CASE Send(r)
  <2> DEFINE c == req[r].target
  <2>1. /\ req[r].pc = "push" /\ req'[r].pc \in {"wait", "ended"} /\ UNCHANGED delegated
        /\ \A q \in Requests \ {r} : req'[q] = req[q]
    BY <1>1, <1>7 DEF Send, End, Step, Accepted, ReqType
  <2>2. CASE UNCHANGED pushed
    BY <1>2, <2>1, <2>2 DEF Undispatched
  <2>3. CASE Push(r, c)
    <3>1. InFlight(r) = {} /\ pushed[r] = {} /\ c \in Conns
      BY <2>1 DEF OneTarget, Holding, ReqHolds
    <3>2. \A q \in Requests : InFlight(q)' = InFlight(q)
      BY <1>1, <2>1 DEF InFlight
    <3>3. pushed'[r] = {c} /\ \A q \in Requests \ {r} : pushed'[q] = pushed[q]
      BY <2>3, <3>1 DEF Push, TypeOK
    <3>4. ASSUME NEW q \in Requests
          PROVE  /\ req'[q].pc \in Undispatched => InFlight(q)' = {} /\ pushed'[q] = {}
                 /\ \E t \in Refs : (\A m \in InFlight(q)' : m.target = t) /\ pushed'[q] \subseteq {t}
      <4>1. CASE q = r
        BY <2>1, <3>1, <3>2, <3>3, <4>1 DEF Undispatched, Refs
      <4>2. CASE q # r
        BY <2>1, <3>2, <3>3, <4>2 DEF OneTarget, Undispatched
      <4>3. QED
        BY <4>1, <4>2
    <3>5. QED
      BY <3>4 DEF OneTarget, Undispatched
  <2>4. QED
    BY <1>7, <2>2, <2>3 DEF Send
<1>8. QED
  BY <1>3, <1>4, <1>5, <1>6, <1>7 DEF Dispatch

LEMMA SubscriberTargets ==
  ASSUME TypeOK, OneTarget, NEW i \in Instances, Subscriber(i)
  PROVE  OneTarget'
<1>1. /\ UNCHANGED req
      /\ delegated \in [Instances -> Seq(Message)] /\ sub \in [Instances -> Seq(Message)]
      /\ \A m : ~Holds(NoSub, m)
  BY SubscriberFrame, HoldsNothing DEF TypeOK, NoSub
<1>2. CASE SubscriberLook(i)
  <2> DEFINE m == Head(delegated[i])
  <2>1. /\ delegated[i] # <<>> /\ delegated' = [delegated EXCEPT ![i] = Tail(delegated[i])]
        /\ UNCHANGED pushed
        /\ sub' = [sub EXCEPT ![i] = IF Dispatchable(i, m.target) = {} THEN NoSub
                                     ELSE <<[m EXCEPT !.target = table[i]]>>]
    BY <1>2 DEF SubscriberLook
  <2>2. /\ m \in Message /\ Holds(delegated[i], m)
        /\ \A n : Holds(Tail(delegated[i]), n) => Holds(delegated[i], n)
    BY <1>1, <2>1, HoldsTail
  <2>3. \A n : Holds(sub'[i], n) => n = m
    <3>1. CASE sub'[i] = NoSub
      BY <1>1, <3>1
    <3>2. CASE sub'[i] # NoSub
      <4>1. sub'[i] = <<[m EXCEPT !.target = table[i]]>> /\ table[i] = m.target
        BY <1>1, <2>1, <3>2 DEF Dispatchable
      <4>2. [m EXCEPT !.target = table[i]] = m
        BY <2>2, <4>1 DEF Message
      <4>3. Len(<<m>>) = 1 /\ <<m>>[1] = m
        OBVIOUS
      <4>4. \A n : Holds(<<m>>, n) => n = m
        BY <4>3 DEF Holds
      <4>5. QED
        BY <4>1, <4>2, <4>4
    <3>3. QED
      BY <3>1, <3>2
  <2>4. \A j \in Instances : \A n : /\ Holds(delegated'[j], n) => Holds(delegated[j], n)
                                    /\ Holds(sub'[j], n) => Holds(sub[j], n) \/ Holds(delegated[j], n)
    BY <1>1, <2>1, <2>2, <2>3
  <2>5. \A r \in Requests : InFlight(r)' \subseteq InFlight(r)
    BY <2>4 DEF InFlight
  <2>6. QED
    BY <1>1, <2>1, <2>5, LessInFlight
<1>3. CASE SubscriberSend(i)
  <2> DEFINE m == sub[i][1]
  <2>1. sub[i] # NoSub /\ sub' = [sub EXCEPT ![i] = NoSub] /\ UNCHANGED delegated
    BY <1>3 DEF SubscriberSend
  <2>2. m \in Message /\ Holds(sub[i], m)
    <3>1. sub[i] \in Seq(Message) /\ sub[i] # <<>>
      BY <1>1, <2>1 DEF NoSub
    <3>2. QED
      BY <3>1, HeadTailProperties, HoldsTail
  <2>3. \A r \in Requests : InFlight(r)' \subseteq InFlight(r)
    <3>1. \A j \in Instances : \A n : Holds(sub'[j], n) => Holds(sub[j], n)
      BY <1>1, <2>1
    <3>2. QED
      BY <2>1, <3>1 DEF InFlight
  <2>4. CASE UNCHANGED pushed
    BY <1>1, <2>3, <2>4, LessInFlight
  <2>5. CASE Push(m.req, m.target)
    <3>1. m.req \in Requests /\ m \in InFlight(m.req)
      BY <2>2 DEF InFlight, Message
    <3>2. req[m.req].pc \notin Undispatched
      BY <3>1 DEF OneTarget, Undispatched
    <3>3. /\ pushed'[m.req] = pushed[m.req] \cup {m.target}
          /\ \A q \in Requests \ {m.req} : pushed'[q] = pushed[q]
      BY <2>5, <3>1 DEF Push, TypeOK
    <3>4. ASSUME NEW q \in Requests
          PROVE  /\ req'[q].pc \in Undispatched => InFlight(q)' = {} /\ pushed'[q] = {}
                 /\ \E t \in Refs : (\A n \in InFlight(q)' : n.target = t) /\ pushed'[q] \subseteq {t}
      <4>1. PICK t \in Refs : (\A n \in InFlight(q) : n.target = t) /\ pushed[q] \subseteq {t}
        BY DEF OneTarget
      <4>2. CASE q = m.req
        <5>1. m.target = t
          BY <3>1, <4>1, <4>2
        <5>2. (\A n \in InFlight(q)' : n.target = t) /\ pushed'[q] \subseteq {t}
          BY <2>3, <3>3, <4>1, <4>2, <5>1
        <5>3. QED
          BY <1>1, <3>2, <4>2, <5>2
      <4>3. CASE q # m.req
        <5>1. pushed'[q] = pushed[q] /\ InFlight(q)' \subseteq InFlight(q)
          BY <2>3, <3>3, <4>3
        <5>2. QED
          BY <1>1, <4>1, <5>1 DEF OneTarget, Undispatched
      <4>4. QED
        BY <4>2, <4>3
    <3>5. QED
      BY <3>4 DEF OneTarget, Undispatched
  <2>6. QED
    BY <1>3, <2>4, <2>5 DEF SubscriberSend
<1>4. CASE \E r \in Requests : SubscriberResolve(i, r)
  <2>1. UNCHANGED <<delegated, sub, pushed>>
    BY <1>4 DEF SubscriberResolve
  <2>2. \A r \in Requests : InFlight(r)' \subseteq InFlight(r)
    BY <2>1 DEF InFlight
  <2>3. QED
    BY <1>1, <2>1, <2>2, LessInFlight
<1>5. QED
  BY <1>2, <1>3, <1>4 DEF Subscriber

LEMMA PanicTargets ==
  ASSUME TypeOK, OneTarget, NEW i \in Instances, SubscriberPanic(i)
  PROVE  OneTarget'
<1>1. /\ delegated' = [delegated EXCEPT ![i] = <<>>] /\ sub' = [sub EXCEPT ![i] = NoSub]
      /\ UNCHANGED pushed
      /\ req' = [r \in Requests |-> IF Entry[r] = i THEN [pc |-> "ended", target |-> NoConn]
                                    ELSE req[r]]
  BY PanicEffect
<1>2. /\ delegated \in [Instances -> Seq(Message)] /\ sub \in [Instances -> Seq(Message)]
      /\ \A m : ~Holds(NoSub, m) /\ ~Holds(<<>>, m)
  BY HoldsNothing DEF TypeOK, NoSub
<1>3. \A j \in Instances : \A n : /\ Holds(delegated'[j], n) => Holds(delegated[j], n)
                                  /\ Holds(sub'[j], n) => Holds(sub[j], n)
  BY <1>1, <1>2
<1>4. \A r \in Requests : InFlight(r)' \subseteq InFlight(r)
  BY <1>3 DEF InFlight
<1>5. \A r \in Requests : req'[r].pc \in Undispatched => req[r].pc \in Undispatched
  BY <1>1 DEF Undispatched
<1>6. QED
  BY <1>1, <1>4, <1>5, LessInFlight

-----------------------------------------------------------------------------
(* An answer stays where its waiter finds it.                              *)

LEMMA HandlerAnswers ==
  ASSUME TypeOK, Holding, Answering, NEW c \in Conns, Handler(c)
  PROVE  Answering'
<1>1. UNCHANGED req /\ (UNCHANGED work \/ \E r \in Requests : ReadReply(c, r))
  BY HandlerFrame
<1>2. CASE UNCHANGED work
  BY <1>2 DEF work, Answering, Registered
<1>3. ASSUME NEW r \in Requests, ReadReply(c, r) PROVE Answering'
  <2>1. CASE UNCHANGED <<responses, answered, handled>>
    BY <1>1, <2>1 DEF Answering, Registered
  <2>2. CASE /\ Resolve(r, place[c])
             /\ handled' = IF Registered(r) THEN handled \cup {r} ELSE handled
    <3>1. Registered(r) => r \in answered' \cup responses'
      BY <2>2 DEF Resolve, Others, Holding, ReqHolds
    <3>2. answered \subseteq answered' /\ responses \subseteq responses'
      BY <2>2 DEF Resolve
    <3>3. Registered(r) => req[r].pc # "new"
      BY DEF Registered
    <3>4. QED
      BY <1>1, <2>2, <3>1, <3>2, <3>3 DEF Answering, Registered
  <2>3. QED
    BY <1>3, <2>1, <2>2 DEF ReadReply
<1>4. QED
  BY <1>1, <1>2, <1>3

LEMMA RequestAnswers ==
  ASSUME TypeOK, Answering, NEW r \in Requests, Begin(r) \/ Dispatch(r) \/ Finish(r)
  PROVE  Answering'
<1>1. req \in [Requests -> ReqType] /\ handled \subseteq Requests /\ UNCHANGED responses
  BY RequestFrame DEF TypeOK, ReqType
<1>2. \A q \in Requests \ {r} : req'[q] = req[q]
  BY <1>1 DEF Begin, Dispatch, AgentLease, DispatchLocal, Send, Finish, End, Accepted, Step
<1>3. CASE Begin(r)
  <2>1. req[r].pc = "new" /\ UNCHANGED <<handled, answered>>
    BY <1>3 DEF Begin
  <2>2. r \notin handled
    BY <2>1 DEF Answering
  <2>3. QED
    BY <1>1, <1>2, <2>1, <2>2 DEF Answering, Registered
<1>4. CASE Dispatch(r)
  <2>1. Registered(r) /\ UNCHANGED <<handled, answered>>
    BY <1>4 DEF Dispatch, AgentLease, DispatchLocal, Send, Registered, ReqPC
  <2>2. req'[r].pc # "new"
    BY <1>1, <1>4 DEF Dispatch, AgentLease, DispatchLocal, Send, End, Accepted, Step, ReqType
  <2>3. QED
    BY <1>1, <1>2, <2>1, <2>2 DEF Answering, Registered
<1>5. CASE Finish(r)
  <2>1. handled' = handled \ {r} /\ answered' = answered \ {r}
    BY <1>5 DEF Finish
  <2>2. QED
    BY <1>1, <1>2, <2>1 DEF Answering, Registered
<1>6. QED
  BY <1>3, <1>4, <1>5

LEMMA SubscriberAnswers ==
  ASSUME Answering, NEW i \in Instances, Subscriber(i)
  PROVE  Answering'
<1>1. UNCHANGED <<req, handled>>
  BY SubscriberFrame
<1>2. CASE UNCHANGED <<responses, answered>>
  BY <1>1, <1>2 DEF Answering, Registered
<1>3. ASSUME NEW r \in Requests, SubscriberResolve(i, r) PROVE Answering'
  BY <1>1, <1>3 DEF SubscriberResolve, Answering, Registered
<1>4. QED
  BY <1>2, <1>3 DEF Subscriber, SubscriberLook, SubscriberSend

LEMMA PanicAnswers ==
  ASSUME TypeOK, Answering, NEW i \in Instances, SubscriberPanic(i)
  PROVE  Answering'
<1>1. /\ req' = [r \in Requests |-> IF Entry[r] = i THEN [pc |-> "ended", target |-> NoConn]
                                    ELSE req[r]]
      /\ responses' = {r \in responses : Entry[r] # i}
      /\ UNCHANGED <<answered, handled>>
  BY PanicEffect
<1>2. handled \subseteq Requests
  BY DEF TypeOK
<1>3. QED
  BY <1>1, <1>2 DEF Answering, Registered

-----------------------------------------------------------------------------
(* The theorems.                                                           *)

LEMMA InitHub ==
  Init => HubInv
<1> SUFFICES ASSUME Init PROVE HubInv
  OBVIOUS
<1>1. /\ <<>> \in Seq(Requests) /\ Len(<<>>) = 0 /\ <<>> \in Seq(NoticeType)
      /\ <<>> \in Seq(Message) /\ NoSub = <<>>
  BY EmptySeq DEF NoSub
<1>2. NoConn \in Refs /\ NoDisc \in DiscType
  BY DEF Refs, NoDisc, DiscType, DiscPC, Kinds
<1>3. epoch \in 1 .. MaxEpoch /\ held \in 1 .. epoch /\ 0 \in 0 .. epoch /\ Capacity \in Nat
  BY HubAssumption DEF Init
<1>4. conn \in [Conns -> [pc : ConnPC, epoch : 0 .. epoch, previous : Refs]]
  BY <1>2, <1>3 DEF Init, ConnPC
<1>5. queue \in [Conns -> Seq(Requests)] /\ \A c \in Conns : Len(queue[c]) <= Capacity
  BY <1>1, <1>3 DEF Init
<1>6. /\ notices \in [Instances -> Seq(NoticeType)]
      /\ delegated \in [Instances -> Seq(Message)] /\ sub \in [Instances -> Seq(Message)]
  BY <1>1 DEF Init
<1>7. req \in [Requests -> [pc : ReqPC, target : Refs]] /\ disc \in [Instances -> DiscType]
  BY <1>2 DEF Init, ReqPC
<1>8. TypeOK
  BY <1>2, <1>3, <1>4, <1>5, <1>6, <1>7 DEF Init, TypeOK, NoticeType, DiscType
<1>9. Holding
  BY DEF Init, Holding, DiscHolds, ReqHolds, NoDisc, Registered
<1>10. Registering
  BY DEF Init, Registering, OpenIsRegistered, Served
<1>11. OneTarget
  <2>1. \A r \in Requests : InFlight(r) = {} /\ pushed[r] = {}
    BY <1>1, HoldsNothing DEF Init, InFlight
  <2>2. QED
    BY <1>2, <2>1 DEF OneTarget
<1>12. Answering
  BY DEF Init, Answering
<1>13. QED
  BY <1>8, <1>9, <1>10, <1>11, <1>12 DEF HubInv

LEMMA NextHub ==
  HubInv /\ [Next]_vars => HubInv'
<1> SUFFICES ASSUME HubInv, [Next]_vars PROVE HubInv'
  OBVIOUS
<1>1. TypeOK /\ Holding /\ Registering /\ OneTarget /\ Answering
  BY DEF HubInv
<1>2. CASE UNCHANGED vars
  <2>1. TypeOK'
    BY <1>1, <1>2 DEF vars, access, wires, hubs, stops, work, counts, TypeOK
  <2>2. Holding'
    BY <1>1, <1>2 DEF vars, access, stops, work, Holding, DiscHolds, ReqHolds, Registered
  <2>3. Registering'
    BY <1>1, <1>2 DEF vars, hubs, stops, Registering, OpenIsRegistered, Served, At
  <2>4. OneTarget'
    BY <1>1, <1>2 DEF vars, work, OneTarget, InFlight
  <2>5. Answering'
    BY <1>1, <1>2 DEF vars, work, Answering, Registered
  <2>6. QED
    BY <2>1, <2>2, <2>3, <2>4, <2>5 DEF HubInv
<1>3. CASE Agent
  <2>1. UNCHANGED <<epoch, place, table, disc, req, delegated, sub, responses, answered,
                    pushed, handled, up>>
    BY <1>3, AgentFrame DEF stops, work
  <2>2. TypeOK'
    BY <1>1, <1>3, AgentTypes DEF Agent
  <2>3. Holding'
    BY <1>1, <2>1 DEF Holding, DiscHolds, ReqHolds, Registered
  <2>4. Registering'
    BY <1>1, <1>3, AgentRegisters
  <2>5. OneTarget'
    BY <1>1, <2>1 DEF OneTarget, InFlight
  <2>6. Answering'
    BY <1>1, <2>1 DEF Answering, Registered
  <2>7. QED
    BY <2>2, <2>3, <2>4, <2>5, <2>6 DEF HubInv
<1>4. ASSUME NEW c \in Conns, Handler(c) PROVE HubInv'
  <2>1. UNCHANGED <<epoch, place, disc, req, delegated, sub, pushed, up>>
    BY <1>4, HandlerFrame DEF access, stops
  <2>2. Holding'
    BY <1>1, <2>1 DEF Holding, DiscHolds, ReqHolds, Registered
  <2>3. OneTarget'
    BY <1>1, <2>1 DEF OneTarget, InFlight
  <2>4. QED
    BY <1>1, <1>4, <2>2, <2>3, HandlerTypes, HandlerRegisters, HandlerAnswers DEF HubInv
<1>5. ASSUME NEW r \in Requests, Begin(r) \/ Dispatch(r) \/ Finish(r) PROVE HubInv'
  <2>1. UNCHANGED <<epoch, place, conn, sock, table, disc>>
    BY <1>5, RequestFrame DEF access, hubs, stops
  <2>2. Holding'
    <3>1. \A q \in Requests : ReqHolds(q)'
      BY <1>1, <1>5, ReqHoldsKept
    <3>2. \A i \in Instances : DiscHolds(i)'
      BY <1>1, <2>1 DEF Holding, DiscHolds
    <3>3. QED
      BY <3>1, <3>2 DEF Holding
  <2>3. Registering'
    BY <1>1, <2>1 DEF Registering, OpenIsRegistered, Served, At
  <2>4. QED
    BY <1>1, <1>5, <2>2, <2>3, RequestTypes, RequestTargets, RequestAnswers DEF HubInv
<1>6. ASSUME NEW i \in Instances, DisconnectStep(i) PROVE HubInv'
  <2>1. UNCHANGED <<req, delegated, sub, responses, answered, pushed, handled, up>>
    BY <1>6, DisconnectFrame DEF work
  <2>2. TypeOK'
    BY <1>1, <1>6, DisconnectTypes DEF DisconnectStep
  <2>3. Holding'
    <3>1. \A j \in Instances : DiscHolds(j)'
      BY <1>1, <1>6, DiscHoldsKept
    <3>2. \A r \in Requests : ReqHolds(r)'
      BY <1>1, <2>1 DEF Holding, ReqHolds, Registered
    <3>3. QED
      BY <3>1, <3>2 DEF Holding
  <2>4. Registering'
    BY <1>1, <1>6, DisconnectRegisters
  <2>5. OneTarget'
    BY <1>1, <2>1 DEF OneTarget, InFlight
  <2>6. Answering'
    BY <1>1, <2>1 DEF Answering, Registered
  <2>7. QED
    BY <2>2, <2>3, <2>4, <2>5, <2>6 DEF HubInv
<1>7. ASSUME NEW i \in Instances, Subscriber(i) PROVE HubInv'
  <2>1. UNCHANGED <<epoch, place, conn, sock, table, disc, req, up>>
    BY <1>7, SubscriberFrame DEF access, hubs, stops
  <2>2. Holding'
    BY <1>1, <2>1 DEF Holding, DiscHolds, ReqHolds, Registered
  <2>3. Registering'
    BY <1>1, <2>1 DEF Registering, OpenIsRegistered, Served, At
  <2>4. QED
    BY <1>1, <1>7, <2>2, <2>3, SubscriberTypes, SubscriberTargets, SubscriberAnswers DEF HubInv
<1>8. ASSUME NEW i \in Instances, SubscriberPanic(i) PROVE HubInv'
  BY <1>1, <1>8, PanicTypes, PanicHolds, PanicRegisters, PanicTargets, PanicAnswers DEF HubInv
<1>9. QED
  BY <1>2, <1>3, <1>4, <1>5, <1>6, <1>7, <1>8, NextCases

(* The invariant of the hubs and of the handlers, whatever is interleaved. *)
THEOREM HubInvariant == Spec => []HubInv
<1>1. Init => HubInv
  BY InitHub
<1>2. HubInv /\ [Next]_vars => HubInv'
  BY NextHub
<1>3. QED
  BY <1>1, <1>2, PTL DEF Spec

(* Every variable of the hubs, the handlers and the lease keeps its type:  *)
(* a table holds connections of its own instance, a Send channel no more   *)
(* than it has room for, the agent's secret no epoch that was not given    *)
(* (AddAgent, dispatchCommandLocal, AuthenticateAndBind).                  *)
THEOREM TypeCorrect == Spec => []TypeOK
<1>1. HubInv => TypeOK
  BY DEF HubInv
<1>2. QED
  BY <1>1, HubInvariant, PTL

(* A websocket that its reader serves is in the table of its instance, or  *)
(* somebody is about to close it, however connections replace each other   *)
(* while rebinds and access changes take them out of the table             *)
(* (Hub.AddAgent, RemoveAgentConn, disconnectAgentLocal).                  *)
THEOREM ServedIsReachable == Spec => []OpenIsRegistered
<1>1. HubInv => OpenIsRegistered
  BY DEF HubInv, Registering
<1>2. QED
  BY <1>1, HubInvariant, PTL

(* A request that every instance hears of is queued for one connection,    *)
(* however often the agent reconnects meanwhile: whoever queues it asks    *)
(* for the connection that the lease named when it was dispatched          *)
(* (dispatchEnvelope, subscribeCommands, dispatchCommandLocal).            *)
THEOREM RequestsDeliveredOnce == Spec => []DeliveredOnce
<1>1. ASSUME HubInv, NEW r \in Requests PROVE Cardinality(pushed[r]) <= 1
  <2>1. PICK t : pushed[r] \subseteq {t}
    BY <1>1 DEF HubInv, OneTarget
  <2>2. pushed[r] = {} \/ pushed[r] = {t}
    BY <2>1
  <2>3. Cardinality({}) = 0 /\ Cardinality({t}) = 1
    BY FS_EmptySet, FS_Singleton
  <2>4. QED
    BY <2>2, <2>3
<1>2. HubInv => DeliveredOnce
  BY <1>1 DEF DeliveredOnce
<1>3. QED
  BY <1>2, HubInvariant, PTL

(* An answer that a reader handled reaches the instance that waits for it, *)
(* or is on its way to it, as long as the waiter waits: its instance runs, *)
(* and the waiter is registered before the request leaves                  *)
(* (WorkspaceBroker.Send, Resolve, Run).                                   *)
THEOREM AnswersKept == Spec => []AnswerKept
<1>1. HubInv => AnswerKept
  BY DEF HubInv, Answering, AnswerKept, Registered, ReqPC
<1>2. QED
  BY <1>1, HubInvariant, PTL
=============================================================================
