------------------------------ MODULE AgentHub ------------------------------
(***************************************************************************)
(* The hubs of several server instances and one agent.  Each instance      *)
(* keeps a table of the agent's connection; a lease in Redis names the     *)
(* connection that commands and workspace requests go to.  One that comes   *)
(* to another instance is published to all of them, the answer of a        *)
(* workspace request comes back through the connection and, if need be,    *)
(* is published to the instance that waits for it.                         *)
(*                                                                         *)
(* Connections come and go, the agent may open a new one while the server  *)
(* still reads the old one; a rebind raises the agent's epoch, an access   *)
(* change disables it, and both disconnect it at every instance.           *)
(*                                                                         *)
(* Abstractions: one agent of one user; a connection id stands for the     *)
(* connection, its instance and its epoch, as a lease record does; Redis   *)
(* answers, and a message published reaches every instance that is up.     *)
(***************************************************************************)
EXTENDS Naturals, Sequences, FiniteSets

CONSTANTS
  Instances,   (* server instances                                         *)
  Conns,       (* websocket connections of the agent                       *)
  NoConn,
  Places,      (* bound: where the connections go, functions of Conns      *)
  Requests,    (* workspace requests                                       *)
  Entry,       (* request -> the instance that handles it                  *)
  Admin,       (* bound: instances that handle binds and access changes    *)
  Capacity,    (* AgentConn.Send, 64 in the code                           *)
  MaxEpoch,    (* bound: epochs                                            *)
  MaxDrops,    (* bound: connections the agent gives up                    *)
  MaxEvents    (* bound: these, binds and access changes together          *)

ASSUME HubAssumption ==
  /\ NoConn \notin Conns
  /\ Places \subseteq [Conns -> Instances] /\ Places # {}
  /\ Entry \in [Requests -> Instances]
  /\ Admin \subseteq Instances
  /\ Capacity \in Nat \ {0} /\ MaxEpoch \in Nat \ {0}
  /\ MaxDrops \in Nat /\ MaxEvents \in Nat

VARIABLES
  epoch,     (* agents.agent_epoch                                         *)
  disabled,  (* which of the agent, its device and its user are disabled   *)
  held,      (* the epoch of the secret the agent holds                    *)
  mine,      (* the connection the agent uses                              *)
  place,     (* connection -> its instance                                 *)
  conn,      (* connection -> its handler: pc, epoch, previous             *)
  sock,      (* the websockets open at the server                          *)
  queue,     (* connection -> AgentConn.Send                               *)
  beat,      (* connections given up with a heartbeat on its way           *)
  working,   (* <<request, connection>> the agent works on                 *)
  reply,     (* <<request, connection>> answers on their way               *)
  table,     (* instance -> Hub.agents                                     *)
  lease,     (* agent:online in Redis                                      *)
  disc,      (* instance -> the disconnect it executes                     *)
  notices,   (* instance -> ov:agent:disconnects                           *)
  req,       (* request -> its handler: pc, target                         *)
  delegated, (* instance -> ov:agent:commands                              *)
  sub,       (* instance -> what subscribeCommands is about to send        *)
  responses, (* ov:workspace:responses, at the instance of the request     *)
  answered,  (* requests whose channel holds the answer                    *)
  up,        (* instances that run                                         *)
  pushed,    (* history: request -> connections it was queued for          *)
  handled,   (* history: waiting requests whose answer a reader handled    *)
  drops, events

access == <<epoch, disabled, held>>
wires  == <<queue, beat, working, reply>>
hubs   == <<table, lease>>
stops  == <<disc, notices>>
work   == <<req, delegated, sub, responses, answered, pushed, handled>>
counts == <<drops, events>>
vars   == <<access, mine, place, conn, sock, wires, hubs, stops, work, up, counts>>

ConnPC == {"none", "add", "close", "touch", "read", "remove", "get", "del", "shut", "gone"}
DiscPC == {"none", "map", "get", "del", "close"}
ReqPC  == {"new", "lease", "local", "push", "wait", "ended"}
Kinds  == {"bind", "agent", "user"}
Scopes == {"agent", "device", "user"}
Refs   == Conns \cup {NoConn}

NoDisc == [pc |-> "none", kind |-> "bind", max |-> 0, conn |-> NoConn, origin |-> FALSE]
NoSub  == <<>>
Message == [req : Requests, target : Conns]

TypeOK ==
  /\ epoch \in 1 .. MaxEpoch /\ disabled \subseteq Scopes /\ held \in 1 .. epoch
  /\ mine \in Refs /\ place \in Places
  /\ conn \in [Conns -> [pc : ConnPC, epoch : 0 .. epoch, previous : Refs]]
  /\ sock \subseteq {c \in Conns : conn[c].pc \notin {"none", "gone"}}
  /\ queue \in [Conns -> Seq(Requests)] /\ \A c \in Conns : Len(queue[c]) <= Capacity
  /\ beat \subseteq Conns
  /\ working \subseteq Requests \X Conns /\ reply \subseteq Requests \X Conns
  /\ table \in [Instances -> Refs] /\ lease \in Refs
  /\ \A i \in Instances : table[i] # NoConn => place[table[i]] = i
  /\ disc \in [Instances -> [pc : DiscPC, kind : Kinds, max : Nat, conn : Refs, origin : BOOLEAN]]
  /\ notices \in [Instances -> Seq([kind : Kinds, max : Nat])]
  /\ req \in [Requests -> [pc : ReqPC, target : Refs]]
  /\ delegated \in [Instances -> Seq(Message)] /\ sub \in [Instances -> Seq(Message)]
  /\ responses \subseteq Requests /\ answered \subseteq Requests
  /\ up \subseteq Instances
  /\ pushed \in [Requests -> SUBSET Conns] /\ handled \subseteq Requests
  /\ drops \in Nat /\ events \in Nat

Init ==
  /\ epoch = 1 /\ disabled = {} /\ held = 1
  /\ mine = NoConn /\ place \in Places
  /\ conn = [c \in Conns |-> [pc |-> "none", epoch |-> 0, previous |-> NoConn]]
  /\ sock = {} /\ queue = [c \in Conns |-> <<>>] /\ beat = {} /\ working = {} /\ reply = {}
  /\ table = [i \in Instances |-> NoConn] /\ lease = NoConn
  /\ disc = [i \in Instances |-> NoDisc] /\ notices = [i \in Instances |-> <<>>]
  /\ req = [r \in Requests |-> [pc |-> "new", target |-> NoConn]]
  /\ delegated = [i \in Instances |-> <<>>] /\ sub = [i \in Instances |-> NoSub]
  /\ responses = {} /\ answered = {}
  /\ up = Instances
  /\ pushed = [r \in Requests |-> {}] /\ handled = {}
  /\ drops = 0 /\ events = 0

(* agentAccessAllowed.                                                     *)
enabled == disabled = {}

At(c, pc) == conn[c].pc = pc
Go(c, pc) == conn' = [conn EXCEPT ![c].pc = pc]

-----------------------------------------------------------------------------
(* The agent's side of its connections.                                    *)

(* AgentBySecret takes the agent's secret and reads its epoch; the upgrade *)
(* answers the agent.                                                      *)
Dial(c) ==
  /\ mine = NoConn /\ At(c, "none") /\ place[c] \in up
  /\ enabled /\ held = epoch
  /\ mine' = c
  /\ conn' = [conn EXCEPT ![c].pc = "add", ![c].epoch = epoch]
  /\ sock' = sock \cup {c}
  /\ UNCHANGED <<access, place, wires, hubs, stops, work, up, counts>>

(* The agent learns that the server closed its connection, or gives it up, *)
(* maybe with a heartbeat the server has not read; the readLoop's context  *)
(* ends what it works on.                                                  *)
LeaveConn ==
  /\ mine' = NoConn
  /\ working' = {w \in working : w[2] # mine}
  /\ UNCHANGED <<access, place, conn, sock, queue, reply, hubs, stops, work, up>>

Closed == mine # NoConn /\ mine \notin sock /\ LeaveConn /\ UNCHANGED <<beat, counts>>

Drop ==
  /\ mine # NoConn /\ mine \in sock /\ drops < MaxDrops /\ events < MaxEvents
  /\ drops' = drops + 1 /\ events' = events + 1
  /\ beat' \in {beat, beat \cup {mine}}
  /\ LeaveConn

(* handleWorkspaceRequest answers on the connection the request came by.   *)
AgentAnswers(w) ==
  /\ w \in working 
  /\ working' = working \ {w}
  /\ reply' = reply \cup {w}
  /\ UNCHANGED <<access, mine, place, conn, sock, queue, beat, hubs, stops, work, up, counts>>

-----------------------------------------------------------------------------
(* The handler of a connection: AddAgent, agentReader, RemoveAgentConn.    *)

(* Mutant: the connection it replaces is forgotten.                        *)
AddAgentOnly(c) ==
  /\ At(c, "add")
  /\ table' = [table EXCEPT ![place[c]] = c]
  /\ conn' = [conn EXCEPT ![c].pc = "touch"]
  /\ UNCHANGED <<access, mine, place, sock, wires, lease, stops, work, up, counts>>

AddAgent(c) ==
  /\ At(c, "add")
  /\ table' = [table EXCEPT ![place[c]] = c]
  /\ conn' = [conn EXCEPT ![c].previous = table[place[c]],
                          ![c].pc = IF table[place[c]] = NoConn THEN "touch" ELSE "close"]
  /\ UNCHANGED <<access, mine, place, sock, wires, lease, stops, work, up, counts>>

ClosePrevious(c) ==
  /\ At(c, "close")
  /\ sock' = sock \ {conn[c].previous}
  /\ conn' = [conn EXCEPT ![c].previous = NoConn, ![c].pc = "touch"]
  /\ UNCHANGED <<access, mine, place, wires, hubs, stops, work, up, counts>>

(* The lease is set whoever holds it.                                      *)
TouchAgent(c) ==
  /\ At(c, "touch")
  /\ lease' = c
  /\ Go(c, "read")
  /\ UNCHANGED <<access, mine, place, sock, wires, table, stops, work, up, counts>>

(* Mutant: the epoch is looked at, the access is not.                      *)
EpochOnly(c) == conn[c].epoch = epoch

AgentEpochMatches(c) == conn[c].epoch = epoch /\ enabled

(* Mutant: a heartbeat is saved, the lease is not renewed.                 *)
ReadHeartbeatOnly(c) ==
  /\ At(c, "read") /\ c \in sock /\ (mine = c \/ c \in beat)
  /\ beat' = beat \ {c}
  /\ Go(c, IF AgentEpochMatches(c) THEN "read" ELSE "remove")
  /\ UNCHANGED <<access, mine, place, sock, queue, working, reply, hubs, stops, work, up, counts>>

ReadHeartbeat(c) ==
  /\ At(c, "read") /\ c \in sock /\ (mine = c \/ c \in beat)
  /\ beat' = beat \ {c}
  /\ Go(c, IF AgentEpochMatches(c) THEN "touch" ELSE "remove")
  /\ UNCHANGED <<access, mine, place, sock, queue, working, reply, hubs, stops, work, up, counts>>

Others(i) == up \ {i}
Registered(r) == req[r].pc \in ReqPC \ {"new", "ended"}

(* Mutant: only a waiter of this instance is answered.                     *)
ResolveHere(r, i) ==
  /\ answered' = IF Entry[r] = i /\ Registered(r) THEN answered \cup {r} ELSE answered
  /\ UNCHANGED responses

(* WorkspaceBroker.Resolve: a waiter of this instance, or all the others,  *)
(* among which only the instance of the request can know it.               *)
Resolve(r, i) ==
  IF Entry[r] = i /\ Registered(r)
  THEN answered' = answered \cup {r} /\ UNCHANGED responses
  ELSE /\ responses' = IF Entry[r] \in Others(i) THEN responses \cup {r} ELSE responses
       /\ UNCHANGED answered

ReadReply(c, r) ==
  /\ At(c, "read") /\ c \in sock /\ <<r, c>> \in reply
  /\ reply' = reply \ {<<r, c>>}
  /\ IF AgentEpochMatches(c)
     THEN /\ Resolve(r, place[c])
          /\ handled' = IF Registered(r) THEN handled \cup {r} ELSE handled
          /\ UNCHANGED conn
     ELSE Go(c, "remove") /\ UNCHANGED <<responses, answered, handled>>
  /\ UNCHANGED <<access, mine, place, sock, queue, beat, working, hubs, stops,
                 req, delegated, sub, pushed, up, counts>>

(* The socket is closed, or its peer is gone.                              *)
ReadFails(c) ==
  /\ At(c, "read") /\ (c \notin sock \/ mine # c)
  /\ Go(c, "remove")
  /\ UNCHANGED <<access, mine, place, sock, wires, hubs, stops, work, up, counts>>

RemoveAgentConn(c) ==
  /\ At(c, "remove")
  /\ IF table[place[c]] = c
     THEN table' = [table EXCEPT ![place[c]] = NoConn] /\ Go(c, "get")
     ELSE Go(c, "shut") /\ UNCHANGED table
  /\ UNCHANGED <<access, mine, place, sock, wires, lease, stops, work, up, counts>>

(* removeAgentLeaseIfOwned reads the lease, then deletes it.               *)
GetLease(c) ==
  /\ At(c, "get")
  /\ Go(c, IF lease = c THEN "del" ELSE "shut")
  /\ UNCHANGED <<access, mine, place, sock, wires, hubs, stops, work, up, counts>>

DeleteLease(c) ==
  /\ At(c, "del")
  /\ lease' = NoConn
  /\ Go(c, "shut")
  /\ UNCHANGED <<access, mine, place, sock, wires, table, stops, work, up, counts>>

(* Mutant: the channel is closed, the socket is left to its peer.          *)
ShutChannel(c) ==
  /\ At(c, "shut")
  /\ Go(c, "gone")
  /\ queue' = [queue EXCEPT ![c] = <<>>]
  /\ beat' = beat \ {c}
  /\ reply' = {a \in reply : a[2] # c}
  /\ UNCHANGED <<access, mine, place, sock, working, hubs, stops, work, up, counts>>

(* The socket and the Send channel are closed; what is queued is lost.     *)
Shut(c) ==
  /\ At(c, "shut")
  /\ sock' = sock \ {c}
  /\ Go(c, "gone")
  /\ queue' = [queue EXCEPT ![c] = <<>>]
  /\ beat' = beat \ {c}
  /\ reply' = {a \in reply : a[2] # c}
  /\ UNCHANGED <<access, mine, place, working, hubs, stops, work, up, counts>>

(* agentWriter.                                                            *)
Write(c) ==
  /\ queue[c] # <<>>
  /\ queue' = [queue EXCEPT ![c] = Tail(@)]
  /\ working' = IF c \in sock /\ mine = c THEN working \cup {<<Head(queue[c]), c>>} ELSE working
  /\ UNCHANGED <<access, mine, place, conn, sock, beat, reply, hubs, stops, work, up, counts>>

Handler(c) ==
  \/ AddAgent(c) \/ ClosePrevious(c) \/ TouchAgent(c) \/ ReadHeartbeat(c) \/ ReadFails(c)
  \/ RemoveAgentConn(c) \/ GetLease(c) \/ DeleteLease(c) \/ Shut(c)
  \/ \E r \in Requests : ReadReply(c, r)

(* The key lives for 90 seconds, the time of several heartbeats.           *)
LeaseExpires ==
  /\ lease # NoConn /\ ~(mine = lease /\ lease \in sock)
  /\ lease' = NoConn
  /\ UNCHANGED <<access, mine, place, conn, sock, wires, table, stops, work, up, counts>>

-----------------------------------------------------------------------------
(* A rebind and access changes disconnect the agent.                       *)

StartDisconnect(i, kind, max) ==
  disc' = [disc EXCEPT ![i] = [pc |-> "map", kind |-> kind, max |-> max,
                               conn |-> NoConn, origin |-> TRUE]]

(* AuthenticateAndBind gives the agent a new secret and raises its epoch;  *)
(* handleBind then disconnects the connections of older epochs.  It looks  *)
(* at the user and the device; an agent that is disabled may bind again.   *)
Bind(i) ==
  /\ i \in up \cap Admin /\ disc[i].pc = "none" /\ disabled \subseteq {"agent"}
  /\ events < MaxEvents /\ epoch < MaxEpoch
  /\ events' = events + 1
  /\ epoch' = epoch + 1
  /\ StartDisconnect(i, "bind", epoch)
  /\ UNCHANGED <<disabled, held, mine, place, conn, sock, wires, hubs, notices, work, up, drops>>

(* The agent or its device by the agent's page, the user by the admin's.   *)
Disable(i, scope) ==
  /\ i \in up \cap Admin /\ disc[i].pc = "none" /\ events < MaxEvents
  /\ events' = events + 1
  /\ disabled' = disabled \cup {scope}
  /\ StartDisconnect(i, IF scope = "user" THEN "user" ELSE "agent", 0)
  /\ UNCHANGED <<epoch, held, mine, place, conn, sock, wires, hubs, notices, work, up, drops>>

Enable(scope) ==
  /\ scope \in disabled
  /\ disabled' = disabled \ {scope}
  /\ UNCHANGED <<epoch, held, mine, place, conn, sock, wires, hubs, stops, work, up, counts>>

(* disconnectAgentLocal, disconnectUserAgentsLocal under the lock.  A      *)
(* rebind spares the connections of the new epoch and the lease of another *)
(* connection; the other changes spare nothing, and that of a user looks   *)
(* only at the connections of the instance.                                *)
Spared(i, d) == table[i] # NoConn /\ d.max > 0 /\ conn[table[i]].epoch > d.max
Nothing(i, d) == table[i] = NoConn /\ d.kind # "agent"

TakeOut(i, d) ==
  IF Spared(i, d) \/ Nothing(i, d)
  THEN /\ disc' = [disc EXCEPT ![i] = IF d.origin THEN [d EXCEPT !.pc = "close"] ELSE NoDisc]
       /\ UNCHANGED table
  ELSE /\ disc' = [disc EXCEPT ![i] = [d EXCEPT !.conn = table[i],
                                               !.pc = IF d.max = 0 THEN "del" ELSE "get"]]
       /\ table' = [table EXCEPT ![i] = NoConn]

DisconnectLocal(i) ==
  /\ disc[i].pc = "map"
  /\ TakeOut(i, disc[i])
  /\ UNCHANGED <<access, mine, place, conn, sock, wires, lease, notices, work, up, counts>>

(* subscribeAgentDisconnects.                                              *)
Notified(i) ==
  /\ notices[i] # <<>> /\ disc[i].pc = "none"
  /\ notices' = [notices EXCEPT ![i] = Tail(@)]
  /\ TakeOut(i, [pc |-> "map", kind |-> Head(notices[i]).kind, max |-> Head(notices[i]).max,
                 conn |-> NoConn, origin |-> FALSE])
  /\ UNCHANGED <<access, mine, place, conn, sock, wires, lease, work, up, counts>>

DisconnectGet(i) ==
  /\ disc[i].pc = "get"
  /\ disc' = [disc EXCEPT ![i].pc = IF lease = disc[i].conn THEN "del" ELSE "close"]
  /\ UNCHANGED <<access, mine, place, conn, sock, wires, hubs, notices, work, up, counts>>

DisconnectDelete(i) ==
  /\ disc[i].pc = "del"
  /\ lease' = NoConn
  /\ disc' = [disc EXCEPT ![i].pc = "close"]
  /\ UNCHANGED <<access, mine, place, conn, sock, wires, table, notices, work, up, counts>>

(* The socket is closed; the instance that began publishes the disconnect, *)
(* and the bind answers with the new secret.                               *)
DisconnectClose(i) ==
  LET d == disc[i] IN
  /\ d.pc = "close"
  /\ sock' = sock \ {d.conn}
  /\ disc' = [disc EXCEPT ![i] = NoDisc]
  /\ notices' = [j \in Instances |->
                   IF d.origin /\ j \in Others(i)
                   THEN Append(notices[j], [kind |-> d.kind, max |-> d.max]) ELSE notices[j]]
  /\ held' = IF d.origin /\ d.kind = "bind" THEN d.max + 1 ELSE held
  /\ UNCHANGED <<epoch, disabled, mine, place, conn, wires, hubs, work, up, counts>>

Disconnect(i) == \/ Notified(i) \/ DisconnectLocal(i) \/ DisconnectGet(i)
                 \/ DisconnectDelete(i) \/ DisconnectClose(i)

-----------------------------------------------------------------------------
(* A request: WorkspaceBroker.Send, which dispatches as DispatchCommand     *)
(* does.                                                                   *)

Step(r, pc, target) == req' = [req EXCEPT ![r] = [pc |-> pc, target |-> target]]
End(r) == Step(r, "ended", NoConn)

AgentMayBeOnline(i) == table[i] # NoConn \/ lease # NoConn

Begin(r) ==
  /\ req[r].pc = "new" /\ Entry[r] \in up
  /\ IF ~AgentMayBeOnline(Entry[r]) THEN End(r) ELSE Step(r, "lease", NoConn)
  /\ UNCHANGED <<access, mine, place, conn, sock, wires, hubs, stops,
                 delegated, sub, responses, answered, pushed, handled, up, counts>>

(* What the dispatch does with its result; a delegated one is accepted.    *)
Accepted(r) == Step(r, "wait", NoConn)

(* connOwnsLease, then agentLease.  Both read the lease: a connection of   *)
(* the instance that owns it goes to dispatchCommandLocal either way.      *)
AgentLease(r) ==
  /\ req[r].pc = "lease"
  /\ CASE lease = NoConn -> End(r) /\ UNCHANGED delegated
       [] lease # NoConn /\ place[lease] = Entry[r] ->
            Step(r, "local", lease) /\ UNCHANGED delegated
       [] OTHER ->
            /\ delegated' = [j \in Instances |->
                               IF j \in Others(Entry[r])
                               THEN Append(delegated[j], [req |-> r, target |-> lease])
                               ELSE delegated[j]]
            /\ Accepted(r)
  /\ UNCHANGED <<access, mine, place, conn, sock, wires, hubs, stops,
                 sub, responses, answered, pushed, handled, up, counts>>

(* Mutant: any connection of the agent will do.                            *)
DispatchableAnywhere(i, c) == IF table[i] = NoConn THEN {} ELSE {table[i]}

(* dispatchCommandLocal: the connection in the table must be the one that  *)
(* the lease named.                                                        *)
Dispatchable(i, c) == IF table[i] = c THEN {c} ELSE {}

DispatchLocal(r) ==
  LET found == Dispatchable(Entry[r], req[r].target) IN
  /\ req[r].pc = "local"
  /\ \/ found = {} /\ End(r)
     \/ \E c \in found : Step(r, "push", c)
  /\ UNCHANGED <<access, mine, place, conn, sock, wires, hubs, stops,
                 delegated, sub, responses, answered, pushed, handled, up, counts>>

Push(r, c) ==
  /\ queue' = [queue EXCEPT ![c] = Append(@, r)]
  /\ pushed' = [pushed EXCEPT ![r] = @ \cup {c}]

Room(c) == ~At(c, "gone") /\ Len(queue[c]) < Capacity

(* The send is outside the lock.  A full queue is reported; a channel that *)
(* was closed panics, and net/http ends the request.                       *)
Send(r) ==
  LET c == req[r].target IN
  /\ req[r].pc = "push"
  /\ \/ Room(c) /\ Push(r, c) /\ Accepted(r)
     \/ ~Room(c) /\ End(r) /\ UNCHANGED <<queue, pushed>>
  /\ UNCHANGED <<access, mine, place, conn, sock, beat, working, reply, hubs, stops,
                 delegated, sub, responses, answered, handled, up, counts>>

(* The answer, or 15 seconds or the end of the client's request.           *)
Finish(r) ==
  /\ req[r].pc = "wait"
  /\ End(r)
  /\ answered' = answered \ {r} /\ handled' = handled \ {r}
  /\ UNCHANGED <<access, mine, place, conn, sock, wires, hubs, stops,
                 delegated, sub, responses, pushed, up, counts>>

Dispatch(r) == \/ AgentLease(r) \/ DispatchLocal(r) \/ Send(r)

(* subscribeCommands.                                                      *)
SubscriberLook(i) ==
  LET m == Head(delegated[i]) IN
  /\ delegated[i] # <<>> /\ sub[i] = NoSub
  /\ delegated' = [delegated EXCEPT ![i] = Tail(@)]
  /\ sub' = [sub EXCEPT ![i] = IF Dispatchable(i, m.target) = {} THEN NoSub
                               ELSE <<[m EXCEPT !.target = table[i]]>>]
  /\ UNCHANGED <<access, mine, place, conn, sock, wires, hubs, stops,
                 req, responses, answered, pushed, handled, up, counts>>

SubscriberSend(i) ==
  /\ sub[i] # NoSub /\ ~At(sub[i][1].target, "gone")
  /\ sub' = [sub EXCEPT ![i] = NoSub]
  /\ \/ Room(sub[i][1].target) /\ Push(sub[i][1].req, sub[i][1].target)
     \/ ~Room(sub[i][1].target) /\ UNCHANGED <<queue, pushed>>
  /\ UNCHANGED <<access, mine, place, conn, sock, beat, working, reply, hubs, stops,
                 req, delegated, responses, answered, handled, up, counts>>

(* WorkspaceBroker.Run.                                                    *)
SubscriberResolve(i, r) ==
  /\ r \in responses /\ Entry[r] = i
  /\ responses' = responses \ {r}
  /\ answered' = IF Registered(r) THEN answered \cup {r} ELSE answered
  /\ UNCHANGED <<access, mine, place, conn, sock, wires, hubs, stops,
                 req, delegated, sub, pushed, handled, up, counts>>

Subscriber(i) == \/ SubscriberLook(i) \/ SubscriberSend(i)
                 \/ \E r \in Requests : SubscriberResolve(i, r)

-----------------------------------------------------------------------------
(* The process of an instance ends: its connections, its requests and what was published *)
(* to it are gone, its lease stays.                                        *)
StopInstance(i) ==
  LET lost == {c \in Conns : place[c] = i /\ ~At(c, "none")} IN
  /\ up' = up \ {i}
  /\ conn' = [c \in Conns |-> IF c \in lost THEN [conn[c] EXCEPT !.pc = "gone", !.previous = NoConn]
                              ELSE conn[c]]
  /\ sock' = sock \ lost
  /\ queue' = [c \in Conns |-> IF c \in lost THEN <<>> ELSE queue[c]]
  /\ beat' = beat \ lost
  /\ reply' = {a \in reply : a[2] \notin lost}
  /\ table' = [table EXCEPT ![i] = NoConn]
  /\ disc' = [disc EXCEPT ![i] = NoDisc]
  /\ notices' = [notices EXCEPT ![i] = <<>>]
  /\ req' = [r \in Requests |-> IF Entry[r] = i THEN [pc |-> "ended", target |-> NoConn] ELSE req[r]]
  /\ delegated' = [delegated EXCEPT ![i] = <<>>]
  /\ sub' = [sub EXCEPT ![i] = NoSub]
  /\ responses' = {r \in responses : Entry[r] # i}
  /\ UNCHANGED <<access, mine, place, working, lease, answered, pushed, handled, counts>>

(* The same send on a closed channel in the subscriber's goroutine, which  *)
(* nothing recovers.                                                       *)
SubscriberPanic(i) ==
  /\ sub[i] # NoSub /\ At(sub[i][1].target, "gone")
  /\ StopInstance(i)

Next ==
  \/ Drop \/ Closed \/ LeaseExpires
  \/ \E scope \in Scopes : Enable(scope)
  \/ \E c \in Conns : Dial(c) \/ Handler(c) \/ Write(c)
  \/ \E w \in working : AgentAnswers(w)
  \/ \E r \in Requests : Begin(r) \/ Dispatch(r) \/ Finish(r)
  \/ \E i \in Instances : \/ Bind(i) \/ Disconnect(i) \/ Subscriber(i)
                          \/ SubscriberPanic(i)
                          \/ \E scope \in Scopes : Disable(i, scope)

Spec == Init /\ [][Next]_vars

(* The agent beats while it is connected and notices closed sockets; the   *)
(* handlers go on; the lease has its time to live.                         *)
FairSpec ==
  /\ Spec
  /\ WF_vars(Closed) /\ WF_vars(LeaseExpires)
  /\ \A c \in Conns : WF_vars(Handler(c))
  /\ \A i \in Instances : WF_vars(Disconnect(i))

-----------------------------------------------------------------------------
(* A websocket that its reader still serves is the one in the table of its *)
(* instance, or somebody is about to close it: the agent is never left     *)
(* connected where no request can reach it (Hub.AddAgent, RemoveAgentConn, *)
(* disconnectAgentLocal).                                                  *)
Served(c) == c \in sock /\ conn[c].pc \in {"close", "touch", "read"}
OpenIsRegistered ==
  \A c \in Conns : Served(c) =>
    \/ table[place[c]] = c
    \/ \E d \in Conns : At(d, "close") /\ conn[d].previous = c
    \/ disc[place[c]].conn = c

(* A request, whichever instances hold a connection of the agent when it   *)
(* is published to them, is queued for one connection at most              *)
(* (dispatchEnvelope, subscribeCommands, dispatchCommandLocal).            *)
DeliveredOnce == \A r \in Requests : Cardinality(pushed[r]) <= 1

(* An answer that a reader handled is not lost on its way to the instance  *)
(* that waits for it: the waiter is registered before the request leaves,  *)
(* and found here or by the subscribers (Resolve, Run, register).          *)
AnswerKept ==
  \A r \in handled : req[r].pc = "wait" =>
    r \in answered \cup responses

(* Whatever older connections did to it, the lease names the agent's       *)
(* connection again and again as long as that stays open: a lost lease is  *)
(* set by the next heartbeat (TouchAgent, removeAgentLeaseIfOwned).        *)
LeaseReturns ==
  \A c \in Conns : <>[](mine = c /\ Served(c)) => []<>(lease = c)

(* An agent that stays disabled is offline in the end, although a          *)
(* heartbeat handled during the change, or a connection registered after   *)
(* it, sets the lease again (AgentEpochMatches, disconnectAgentLocal).     *)
DisabledGoesOffline == <>[](~enabled) => <>[](lease = NoConn)

(* Not satisfied: a connection that read its identity before a rebind      *)
(* registers after it, closes the newer connection and takes the lease.    *)
LeaseEpochGrows ==
  [][lease # NoConn /\ lease' # NoConn => conn[lease'].epoch >= conn[lease].epoch]_vars

(* Not satisfied: the send is outside the lock, the channel may be closed. *)
NoPanic ==
  /\ \A r \in Requests : req[r].pc = "push" => ~At(req[r].target, "gone")
  /\ \A i \in Instances : sub[i] # NoSub => ~At(sub[i][1].target, "gone")

(* Not satisfied: a heartbeat handled during the change sets the lease of  *)
(* a connection that is already gone; the agent seems online for the time  *)
(* to live of the key.                                                     *)
DisabledIsOffline ==
  ~enabled /\ (\A i \in Instances : disc[i].pc = "none" /\ notices[i] = <<>>) => lease = NoConn
=============================================================================
