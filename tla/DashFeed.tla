------------------------------ MODULE DashFeed ------------------------------
(***************************************************************************)
(* How the events of a run get to a dash page: stored by the readers of    *)
(* the agent's connections, broadcast in the instance and through Redis,   *)
(* filtered by the page's subscription, and merged with the snapshot the   *)
(* subscription starts with.  RunProjections is the store.                 *)
(*                                                                         *)
(* A reader stores one event after the other and broadcasts it before the  *)
(* next; but an old connection's reader works on beside the new one's, and *)
(* the broadcasts of two instances reach a page in any order.  The page's  *)
(* subscription drops what is not above the last sequence number it let    *)
(* through.                                                                *)
(*                                                                         *)
(* Abstractions: one run, one page with one socket at a time; which events *)
(* the agent sends when is RunEventOutbox's, here it is any of them (or,   *)
(* in some scenarios, only in order); a page on a session watches the      *)
(* run's thread; other messages to the page are left out.                  *)
(***************************************************************************)
EXTENDS RunProjections

CONSTANTS
  Instances,  (* server processes                                          *)
  Conns,      (* the agent's connections: 1 .. n, one after the other      *)
  InstOf,     (* connection -> the instance it ends at                     *)
  NoInst,
  Window,     (* bound on the run.event envelopes under way              *)
  Limit,      (* events in a snapshot: 300 or what the page asks for       *)
  Cap,        (* capacity of a page's Send channel: 128                    *)
  Scenarios   (* the events of the run, whether they are sent in order,    *)
              (* whether those without a thread carry the session's id,    *)
              (* whether instances share a Redis, and how many            *)
              (* connections, pages, rebuilds and failures there are       *)

ASSUME DashFeedAssumption ==
  /\ IsFiniteSet(Conns) /\ Conns = 1 .. Cardinality(Conns)
  /\ InstOf \in [Conns -> Instances] /\ NoInst \notin Instances
  /\ Window \in Nat \ {0} /\ Limit \in Nat \ {0} /\ Cap \in Nat \ {0}
  /\ Scenarios \subseteq [script : Seq(Events), ordered : BOOLEAN, named : BOOLEAN, conns : Conns,
                           opens : Nat, watch : {"run", "session"}, redis : BOOLEAN,
                           rebuilds : Nat, failures : Nat]
  /\ \A p \in Scenarios : ~p.redis => p.conns = 1

VARIABLES
  planned,   (* the scenario                                               *)
  conn,      (* the agent's newest connection                              *)
  pipe,      (* connection -> run.event envelopes under way                *)
  reader,    (* connection -> its reader at the server                     *)
  bus,       (* instance -> what Redis will still hand its subscriber      *)
  accepted,  (* instances whose subscriber found the head of it acceptable *)
  dash,      (* the page's socket at the server                            *)
  shown,     (* the events in the page's model                             *)
  lost,      (* events a full channel, a failed publish, a subscriber that *)
             (* fell behind or a snapshot's limit kept from the page       *)
  opens, rebuilds, failures

links    == <<conn, pipe, reader, bus, accepted>>
feedVars == <<links, dash, shown, lost>>
counted  == <<planned, opens, rebuilds, failures>>
vars     == <<runVars, feedVars, counted>>

NoReader == [at |-> "idle", seq |-> 0]
NoDash == [inst |-> NoInst, pc |-> "off", after |-> 0, run |-> FALSE, seq |-> 0, session |-> FALSE,
           through |-> 0, rows |-> {}, list |-> {}, send |-> <<>>]
SnapshotPC == {"subscribe", "mark", "views", "list", "finish"}
Snapshot(events, rows) == [type |-> "run.snapshot", events |-> events, rows |-> rows]
Live(s) == [type |-> "run.event", events |-> {s}, rows |-> {}]
Wire == [type : {"run.snapshot", "run.event"}, events : SUBSET Seqs, rows : SUBSET Seqs]

TypeOK ==
  /\ RunTypeOK /\ planned \in Scenarios /\ script = planned.script
  /\ conn \in Conns /\ conn <= planned.conns
  /\ pipe \in [Conns -> Seq(Seqs)]
  /\ reader \in [Conns -> [at : {"idle", "saving", "local", "accepted", "publish"}, seq : 0 .. Len(script)]]
  /\ \A c, d \in Conns : reader[c].at = "saving" /\ reader[d].at = "saving" => c = d
  /\ bus \in [Instances -> Seq(Stored)] /\ accepted \subseteq Instances
  /\ dash \in [inst : Instances \cup {NoInst}, pc : {"off", "live", "refused"} \cup SnapshotPC,
               after : 0 .. Len(script), run : BOOLEAN, seq : 0 .. Len(script), session : BOOLEAN,
               through : 0 .. Len(script), rows : SUBSET Stored, list : SUBSET Stored, send : Seq(Wire)]
  /\ Len(dash.send) <= Cap
  /\ shown \subseteq Stored /\ lost \subseteq Stored

Init ==
  /\ planned \in Scenarios /\ script = planned.script /\ RunInit
  /\ conn = 1 /\ pipe = [c \in Conns |-> <<>>] /\ reader = [c \in Conns |-> NoReader]
  /\ bus = [i \in Instances |-> <<>>] /\ accepted = {}
  /\ dash = NoDash /\ shown = {} /\ lost = {}
  /\ opens = 0 /\ rebuilds = 0 /\ failures = 0

(* Without Redis there is one instance.                                    *)
Running == IF planned.redis THEN Instances ELSE {InstOf[1]}

Fails == failures < planned.failures /\ failures' = failures + 1

-----------------------------------------------------------------------------
(* The agent has emitted the events and saved them; at most Window of them *)
(* are under way on a connection.                                          *)

Send(s) ==
  /\ s \notin Stored /\ s \notin Range(pipe[conn]) /\ Len(pipe[conn]) < Window
  /\ planned.ordered => \A t \in 1 .. s - 1 : t \in Stored \cup Range(pipe[conn])
  /\ pipe' = [pipe EXCEPT ![conn] = Append(@, s)]
  /\ UNCHANGED <<runVars, conn, reader, bus, accepted, dash, shown, lost, counted>>

(* What is under way on the old connection may still be read there.        *)
Reconnect ==
  /\ conn < planned.conns
  /\ conn' = conn + 1
  /\ UNCHANGED <<runVars, pipe, reader, bus, accepted, dash, shown, lost, counted>>

Break(c) ==
  /\ c < conn /\ pipe[c] # <<>>
  /\ pipe' = [pipe EXCEPT ![c] = <<>>]
  /\ UNCHANGED <<runVars, conn, reader, bus, accepted, dash, shown, lost, counted>>

-----------------------------------------------------------------------------
(* The page's subscription: dashAcceptsBroadcast and the push that drops.  *)

Push(d, m) == IF Len(d.send) < Cap THEN [d EXCEPT !.send = Append(@, m)] ELSE d

Accepts(d, s) ==
  \/ d.session /\ (script[s].codex \/ planned.named)
  \/ d.run /\ s > d.seq

(* The check is made on a copy of the subscriptions; what it let through   *)
(* is told later, whatever became of the subscription meanwhile.           *)
Tell(s) ==
  /\ dash' = Push([dash EXCEPT !.seq = IF dash.run /\ s > @ THEN s ELSE @], Live(s))
  /\ lost' = IF Len(dash.send) < Cap THEN lost ELSE lost \cup {s}

(* The broadcast of s at an instance ends.                                 *)
Offer(i, s, isAccepted) ==
  \/ isAccepted /\ dash.inst = i /\ Tell(s)
  \/ isAccepted /\ dash.inst # i /\ UNCHANGED <<dash, lost>>
  \/ ~isAccepted /\ (dash.inst = i => ~Accepts(dash, s)) /\ UNCHANGED <<dash, lost>>

(* It holds the lock of the hub's tables: no page is added meanwhile.      *)
Broadcasting(i) == i \in accepted \/ \E c \in Conns : InstOf[c] = i /\ reader[c].at = "accepted"

-----------------------------------------------------------------------------
(* The reader of one connection: SaveRunEvent, the ack, BroadcastDash.     *)

Begin(c) ==
  /\ reader[c].at = "idle" /\ pipe[c] # <<>>
  /\ LET s == Head(pipe[c])
     IN IF s \in Stored
        THEN UNCHANGED <<runVars, reader>>
        ELSE /\ SaveBegin(s)
             /\ reader' = [reader EXCEPT ![c] = [at |-> "saving", seq |-> s]]
  /\ pipe' = [pipe EXCEPT ![c] = Tail(@)]
  /\ UNCHANGED <<conn, bus, accepted, dash, shown, lost, counted>>

Commit(c) ==
  /\ reader[c].at = "saving" /\ SaveCommit
  /\ reader' = [reader EXCEPT ![c].at = "local"]
  /\ UNCHANGED <<conn, pipe, bus, accepted, dash, shown, lost, counted>>

Check(c) ==
  /\ reader[c].at = "local" /\ dash.inst = InstOf[c] /\ Accepts(dash, reader[c].seq)
  /\ reader' = [reader EXCEPT ![c].at = "accepted"]
  /\ UNCHANGED <<runVars, conn, pipe, bus, accepted, dash, shown, lost, counted>>

Broadcast(c) ==
  /\ reader[c].at \in {"local", "accepted"}
  /\ Offer(InstOf[c], reader[c].seq, reader[c].at = "accepted")
  /\ reader' = [reader EXCEPT ![c] = IF planned.redis THEN [@ EXCEPT !.at = "publish"] ELSE NoReader]
  /\ UNCHANGED <<runVars, conn, pipe, bus, accepted, shown, counted>>

(* The error of the publish is dropped.                                    *)
Publish(c) ==
  /\ reader[c].at = "publish"
  /\ reader' = [reader EXCEPT ![c] = NoReader]
  /\ \/ /\ bus' = [i \in Instances |-> IF i = InstOf[c] THEN bus[i] ELSE Append(bus[i], reader[c].seq)]
        /\ UNCHANGED <<lost, failures>>
     \/ /\ Fails
        /\ lost' = lost \cup {reader[c].seq} /\ UNCHANGED bus
  /\ UNCHANGED <<runVars, conn, pipe, accepted, dash, shown, planned, opens, rebuilds>>

(* Mutant: an instance skips what others broadcast, not its own. *)
RelayOwn(i) ==
  /\ bus[i] # <<>>
  /\ bus' = [bus EXCEPT ![i] = Tail(@)] /\ accepted' = accepted \ {i}
  /\ UNCHANGED <<runVars, conn, pipe, reader, dash, shown, lost, counted>>

RelayCheck(i) ==
  /\ bus[i] # <<>> /\ i \notin accepted /\ dash.inst = i /\ Accepts(dash, Head(bus[i]))
  /\ accepted' = accepted \cup {i}
  /\ UNCHANGED <<runVars, conn, pipe, reader, bus, dash, shown, lost, counted>>

Relay(i) ==
  /\ bus[i] # <<>>
  /\ Offer(i, Head(bus[i]), i \in accepted)
  /\ bus' = [bus EXCEPT ![i] = Tail(@)] /\ accepted' = accepted \ {i}
  /\ UNCHANGED <<runVars, conn, pipe, reader, shown, counted>>

(* The subscriber's channel is full, or it connects to Redis again.        *)
Miss(i) ==
  /\ bus[i] # <<>> /\ i \notin accepted /\ Fails
  /\ bus' = [bus EXCEPT ![i] = Tail(@)]
  /\ lost' = IF dash.inst = i THEN lost \cup {Head(bus[i])} ELSE lost
  /\ UNCHANGED <<runVars, conn, pipe, reader, accepted, dash, shown, planned, opens, rebuilds>>

-----------------------------------------------------------------------------
(* The page, and the handler of its subscription.                          *)

Listed(set) == {s \in set : Cardinality({t \in set : t < s}) < Limit}
Recent(set) == {s \in set : Cardinality({t \in set : t > s}) < Limit}

(* A new page loads the run's events by HTTP; a page that comes back to    *)
(* the run still has them, and asks for what is above the last one.        *)
Open(i, fresh) ==
  /\ i \in Running /\ dash.pc = "off" /\ opens < planned.opens /\ ~Broadcasting(i)
  /\ opens' = opens + 1
  /\ shown' = IF fresh THEN Listed(Stored) ELSE shown
  /\ lost' = IF fresh THEN {} ELSE lost
  /\ dash' = [NoDash EXCEPT !.inst = i, !.pc = "subscribe",
                            !.after = IF planned.watch = "run" THEN Max(shown' \cup {0}) ELSE 0]
  /\ UNCHANGED <<runVars, links, planned, rebuilds, failures>>

Subscribe ==
  /\ dash.pc = "subscribe"
  /\ dash' = IF planned.watch = "run"
             THEN [dash EXCEPT !.pc = "mark", !.run = TRUE, !.seq = dash.after]
             ELSE [dash EXCEPT !.pc = "views", !.session = TRUE]
  /\ UNCHANGED <<runVars, links, shown, lost, counted>>

Watermark ==
  /\ dash.pc = "mark"
  /\ dash' = [dash EXCEPT !.pc = "views", !.through = Max(Stored \cup {0})]
  /\ UNCHANGED <<runVars, links, shown, lost, counted>>

(* Steps, messages, tool calls and the timeline, read as one; of these the *)
(* steps are kept, and of a session's snapshot the timeline.               *)
ReadViews ==
  /\ dash.pc = "views"
  /\ dash' = IF planned.watch = "run" THEN [dash EXCEPT !.pc = "list", !.rows = steps]
             ELSE [dash EXCEPT !.pc = "finish", !.list = Recent(timeline)]
  /\ lost' = IF planned.watch = "run" THEN lost ELSE lost \cup (timeline \ Recent(timeline))
  /\ UNCHANGED <<runVars, links, shown, counted>>

(* Mutant: the list is not bounded by the watermark. *)
AskedAll == {s \in Stored : s > dash.after}

Asked == {s \in Stored : s > dash.after /\ s <= dash.through}

ListEvents ==
  /\ dash.pc = "list"
  /\ dash' = [dash EXCEPT !.pc = "finish", !.list = Listed(Asked)]
  /\ lost' = lost \cup (Asked \ Listed(Asked))
  /\ UNCHANGED <<runVars, links, shown, counted>>

(* Mutant: the cursor goes to the newest event, not to the watermark. *)
FinishNow ==
  /\ dash.pc = "finish"
  /\ LET advanced == [dash EXCEPT !.pc = "live", !.rows = {}, !.list = {}, !.seq = Max(Stored \cup {@})]
     IN dash' = Push(advanced, Snapshot(dash.list, dash.rows))
  /\ lost' = IF Len(dash.send) >= Cap THEN lost \cup dash.list ELSE lost
  /\ UNCHANGED <<runVars, links, shown, counted>>

(* The cursor goes to the watermark unless a live event has moved it; the  *)
(* snapshot is dropped when the channel is full.                           *)
Finish ==
  /\ dash.pc = "finish"
  /\ LET advanced == [dash EXCEPT !.pc = "live", !.rows = {}, !.list = {},
                        !.seq = IF dash.run /\ @ = dash.after THEN Max({dash.after, dash.through}) ELSE @]
     IN dash' = Push(advanced, Snapshot(dash.list, dash.rows))
  /\ lost' = IF Len(dash.send) >= Cap THEN lost \cup dash.list ELSE lost
  /\ UNCHANGED <<runVars, links, shown, counted>>

(* One of the reads fails: the subscription is taken back, unless a live   *)
(* event has moved it meanwhile.                                           *)
Refuse ==
  /\ dash.pc \in {"mark", "views", "list"} /\ Fails
  /\ dash' = [dash EXCEPT !.pc = "refused", !.session = FALSE, !.rows = {}, !.list = {},
                          !.run = @ /\ dash.seq # dash.after]
  /\ UNCHANGED <<runVars, links, shown, lost, planned, opens, rebuilds>>

Receive ==
  /\ dash.send # <<>>
  /\ shown' = shown \cup Head(dash.send).events
  /\ dash' = [dash EXCEPT !.send = Tail(@)]
  /\ UNCHANGED <<runVars, links, lost, counted>>

(* Another run is selected: the socket is closed with what it still holds. *)
Close ==
  /\ dash.pc \in {"subscribe", "live", "refused"}
  /\ dash' = NoDash
  /\ UNCHANGED <<runVars, links, shown, lost, counted>>

-----------------------------------------------------------------------------

StartRebuild(w) ==
  /\ rebuilds < planned.rebuilds /\ rebuilds' = rebuilds + 1
  /\ Select(w) /\ UNCHANGED <<feedVars, planned, opens, failures>>
RebuildStep(w) == (Clear(w) \/ Replay(w)) /\ UNCHANGED <<feedVars, counted>>
RebuildFails(w) == Fails /\ Abort(w) /\ UNCHANGED <<feedVars, planned, opens, rebuilds>>

Next ==
  \/ Reconnect
  \/ \E s \in Seqs : Send(s)
  \/ \E c \in Conns : Break(c) \/ Begin(c) \/ Commit(c) \/ Check(c) \/ Broadcast(c) \/ Publish(c)
  \/ \E i \in Instances : \/ RelayCheck(i) \/ Relay(i) \/ Miss(i)
                          \/ \E fresh \in BOOLEAN : Open(i, fresh)
  \/ Subscribe \/ Watermark \/ ReadViews \/ ListEvents \/ Finish \/ Refuse
  \/ Receive \/ Close
  \/ \E w \in Admins : StartRebuild(w) \/ RebuildStep(w) \/ RebuildFails(w)

(* The readers, the subscribers of Redis, the handler of the subscription  *)
(* and the page's socket keep running.                                     *)
Fairness ==
  /\ \A c \in Conns : WF_vars(Commit(c) \/ Check(c) \/ Broadcast(c) \/ Publish(c))
  /\ \A i \in Instances : WF_vars(RelayCheck(i) \/ Relay(i) \/ Miss(i))
  /\ WF_vars(Watermark \/ ReadViews \/ ListEvents \/ Finish \/ Refuse)
  /\ WF_vars(Receive)

Spec == Init /\ [][Next]_vars /\ Fairness

-----------------------------------------------------------------------------
(* Properties.                                                             *)

Coming(s) ==
  \/ \E i \in DOMAIN dash.send : s \in dash.send[i].events
  \/ \E c \in Conns : /\ reader[c].seq = s
                      /\ \/ reader[c].at \in {"local", "accepted"}
                         \/ reader[c].at = "publish" /\ InstOf[c] # dash.inst
  \/ dash.inst # NoInst /\ s \in Range(bus[dash.inst])

Sequential == planned.ordered /\ conn = 1

Reaches(s) == s \in shown \cup lost \/ Coming(s)

(* A page that got its snapshot shows every stored event above the one it  *)
(* asked to start from, or the event is on its way, or a full channel, a   *)
(* failed publish, a subscriber that fell behind or the snapshot's limit   *)
(* took it: between the watermark, the list and the live events there is   *)
(* no gap, whatever moves the cursor after a broadcast looked at it.  For  *)
(* a run this needs the events to come in order on one connection; a       *)
(* session's subscription has no cursor and takes them in any order, but   *)
(* its snapshot is the timeline and needs that no rebuild clears it.       *)
NothingSkipped ==
  dash.pc = "live" =>
    /\ dash.run /\ Sequential => \A s \in Stored : s > dash.after => Reaches(s)
    /\ dash.session /\ rebuilds = 0 => \A s \in Stored : script[s].codex => Reaches(s)

(* The views of a snapshot are not behind its events: a step of an event   *)
(* the page is told of is there, since the watermark is read before them.  *)
SnapshotWhole ==
  Sequential /\ rebuilds = 0 =>
    \A i \in DOMAIN dash.send : dash.send[i].type = "run.snapshot" /\ ~dash.session =>
      {s \in dash.send[i].events : IsStep(s)} \subseteq dash.send[i].rows

(* A page that stays on the run catches up with what is stored, again and  *)
(* again.                                                                  *)
CaughtUp == \A s \in Stored : s > dash.after => s \in shown \cup lost
FeedCatchesUp == []<>(dash.pc = "live" /\ Sequential /\ dash.run => CaughtUp)

(* A page that comes back to the run gets what it missed.  It does not: it *)
(* asks for what is above the last event it shows.                         *)
ReopenRepairs ==
  dash.pc = "live" /\ ~dash.session => \A s \in Stored : s \in shown \/ Coming(s) \/ s > dash.after

(* A page on a session gets all of its run.  It does not while a rebuild   *)
(* has cleared the timeline, which is what its snapshot shows, and nothing *)
(* tells the page when the timeline is back.                               *)
SessionWhole ==
  dash.pc = "live" /\ dash.session => \A s \in Stored : script[s].codex => Reaches(s)

(* After an error the page is not subscribed.  It is, when a live event    *)
(* came between the subscription and the error.                            *)
RefusedIsOff == dash.pc = "refused" => ~dash.run /\ ~dash.session
=============================================================================
