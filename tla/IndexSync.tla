----------------------------- MODULE IndexSync -----------------------------
(***************************************************************************)
(* The index of the Codex conversations of one machine: the files on its   *)
(* disk, the agent's SQLite index of them, and the server's copy.          *)
(*                                                                         *)
(* A conversation has a file, whose id is the session id, and a thread,    *)
(* the id `codex exec resume' takes; the file names the thread only once   *)
(* its session_configured line is written.  Scans walk the roots directory *)
(* by directory while files are created, moved and removed, and several of *)
(* them overlap: one per finished run, per connection, per refresh_index   *)
(* command and per command whose session is not indexed yet.  Runs write   *)
(* the thread the CLI reports into the same table, in three statements.    *)
(*                                                                         *)
(* Abstractions: projects, which take the path of the sessions, are left   *)
(* out, and of a runtime session the columns that say which conversation   *)
(* and which run it belongs to are kept.  updated_at orders rows by clocks *)
(* and file times, so "the newest" of several is any of them.              *)
(***************************************************************************)
EXTENDS Naturals, Sequences, FiniteSets

CONSTANTS
  Convs,       (* conversations, each its session id                       *)
  Thread,      (* conversation -> the thread id of the CLI                 *)
  Roots,       (* Codex homes                                              *)
  Places,      (* the directories of the roots, in the order of the walk   *)
  RootOf,      (* directory -> its root                                    *)
  Live,        (* directories new sessions are written to                  *)
  NoPlace,
  Tasks,       (* goroutines that scan                                     *)
  Runs,
  NoRun, NoId,
  Scenarios    (* bounds: the conversations and runs there are, and how    *)
               (* many scans, disk changes, and lost connections or agent  *)
               (* restarts, taken together in each scenario                *)

ASSUME IndexAssumption ==
  /\ Roots # {} /\ Live # {} /\ Len(Places) > 0
  /\ RootOf \in [{Places[i] : i \in DOMAIN Places} -> Roots]
  /\ Places \in Seq(DOMAIN RootOf) /\ Live \subseteq DOMAIN RootOf /\ NoPlace \notin DOMAIN RootOf
  /\ \A c, d \in Convs : c # d => Thread[c] # Thread[d] /\ Thread[c] # d
  /\ NoRun \notin Runs /\ \A c \in Convs : NoId \notin {c, Thread[c]}
  /\ Scenarios # {}
  /\ Scenarios \subseteq [convs : SUBSET Convs, runs : SUBSET Runs,
                           tasks : Nat, changes : Nat, drops : Nat]

Ids == Convs \cup {Thread[c] : c \in Convs}
ConvOf(id) == CHOOSE c \in Convs : id \in {c, Thread[c]}
Refs == Ids \cup {NoId}

VARIABLES
  disk,       (* conversation -> its file: place, and whether it is configured *)
  mounted,    (* the roots that exist                                      *)
  sessions,   (* sessions at the agent: state and root                     *)
  rows,       (* runtime_sessions at the agent, by session_id              *)
  task,       (* goroutine -> its scan and upload                          *)
  run,        (* run -> its thread.started handler                         *)
  events,     (* session.updated events the outbox will deliver            *)
  net,        (* index messages on the websocket                           *)
  srvSessions,(* codex_sessions at the server: state                       *)
  srvRows,    (* runtime_sessions at the server, by id                     *)
  runLink,    (* runs.session_id                                           *)
  steady,     (* history: scans the disk did not change under              *)
  settled,    (* history: the index is what a steady scan saved            *)
  published,  (* history: a steady refresh has sent all it had to send     *)
  latest,     (* conversation -> the run that wrote a row of it last       *)
  scenario, started, changes, drops

agent   == <<sessions, rows>>
server  == <<srvSessions, srvRows, runLink>>
history == <<steady, settled, published, latest>>
counts  == <<started, changes, drops, scenario>>
vars    == <<disk, mounted, agent, task, run, events, net, server, history, counts>>

None   == [native |-> NoId, run |-> NoRun]
SrvNone == [session |-> NoId, native |-> NoId, run |-> NoRun]
Row    == [native : Refs, run : Runs \cup {NoRun}]
SrvRow == [session : Refs, native : Refs, run : Runs \cup {NoRun}]
Seen   == [root : Roots, native : Ids]
Unseen == [root |-> CHOOSE r \in Roots : TRUE, native |-> NoId]
Idle   == [kind |-> "none", pc |-> "idle", at |-> 1, found |-> [c \in Convs |-> Unseen],
           roots |-> {}, deleted |-> {}, run |-> NoRun, target |-> [ids |-> {}, run |-> NoRun]]
NewRun == [pc |-> "new", id |-> NoId, conv |-> CHOOSE c \in Convs : TRUE,
           resume |-> FALSE, row |-> None, key |-> NoId, existing |-> NoId]
TaskPC == {"idle", "walk", "save", "sessions", "runtime", "deleted"}
RunPC  == {"new", "lookup", "refresh", "retry", "select", "delete", "insert", "running", "ended", "synced", "failed"}

TypeOK ==
  /\ disk \in [Convs -> [place : DOMAIN RootOf \cup {NoPlace}, configured : BOOLEAN]]
  /\ mounted \subseteq Roots
  /\ sessions \in [Convs -> [state : {"none", "live", "deleted"}, root : Roots]]
  /\ rows \in [Ids -> Row]
  /\ \A k \in Tasks : /\ task[k].pc \in TaskPC /\ task[k].roots \subseteq Roots
                      /\ task[k].kind \in {"none", "refresh", "history", "lookup"}
                      /\ task[k].at \in 1 .. Len(Places) + 1 /\ task[k].deleted \subseteq Convs
                      /\ task[k].found \in [Convs -> Seen \cup {Unseen}]
  /\ \A r \in Runs : run[r].pc \in RunPC /\ run[r].id \in Refs /\ run[r].existing \in Refs
  /\ \A id \in Ids : rows[id] # None => rows[id].native \in {ConvOf(id), Thread[ConvOf(id)]}
  /\ srvSessions \in [Convs -> {"none", "live", "deleted"}]
  /\ srvRows \in [Ids -> SrvRow] /\ runLink \in [Runs -> Refs]
  /\ steady \subseteq Tasks /\ settled \in BOOLEAN /\ published \in BOOLEAN
  /\ latest \in [Convs -> Runs \cup {NoRun}]
  /\ started <= scenario.tasks /\ changes <= scenario.changes /\ drops <= scenario.drops

Init ==
  /\ disk = [c \in Convs |-> [place |-> NoPlace, configured |-> FALSE]]
  /\ mounted = Roots
  /\ sessions = [c \in Convs |-> [state |-> "none", root |-> Unseen.root]]
  /\ rows = [id \in Ids |-> None]
  /\ task = [k \in Tasks |-> Idle] /\ run = [r \in Runs |-> NewRun]
  /\ events = <<>> /\ net = <<>>
  /\ srvSessions = [c \in Convs |-> "none"] /\ srvRows = [id \in Ids |-> SrvNone]
  /\ runLink = [r \in Runs |-> NoId]
  /\ steady = {} /\ settled = FALSE /\ published = FALSE
  /\ latest = [c \in Convs |-> NoRun]
  /\ scenario \in Scenarios /\ started = 0 /\ changes = 0 /\ drops = 0
-----------------------------------------------------------------------------
(* The disk.  A change spoils the scans in progress and what was settled. *)

Disturb ==
  /\ changes < scenario.changes /\ changes' = changes + 1
  /\ steady' = {} /\ settled' = FALSE /\ published' = FALSE
  /\ UNCHANGED <<agent, task, events, net, server, latest, started, drops, scenario>>

WriteSession(c) ==
  \E p \in Live : /\ RootOf[p] \in mounted
                  /\ disk' = [disk EXCEPT ![c] = [place |-> p, configured |-> Thread[c] = c]]

(* A session of the user's own terminal. *)
Create(c) ==
  /\ c \in scenario.convs /\ disk[c].place = NoPlace /\ WriteSession(c) /\ Disturb
  /\ UNCHANGED <<mounted, run>>

(* Codex writes session_configured, archives a session or brings it back,  *)
(* and the user removes it.                                                *)
Configure(c) ==
  /\ disk[c].place # NoPlace /\ ~disk[c].configured /\ Disturb
  /\ disk' = [disk EXCEPT ![c].configured = TRUE] /\ UNCHANGED <<mounted, run>>

Move(c) ==
  /\ disk[c].place # NoPlace /\ RootOf[disk[c].place] \in mounted /\ Disturb
  /\ \E p \in DOMAIN RootOf \ {disk[c].place} :
       RootOf[p] = RootOf[disk[c].place] /\ disk' = [disk EXCEPT ![c].place = p]
  /\ UNCHANGED <<mounted, run>>

Remove(c) ==
  /\ disk[c].place # NoPlace /\ RootOf[disk[c].place] \in mounted /\ Disturb
  /\ disk' = [disk EXCEPT ![c] = [place |-> NoPlace, configured |-> FALSE]]
  /\ UNCHANGED <<mounted, run>>

(* A Codex home goes away or comes back, as on a share or another drive.   *)
Mount(root) ==
  /\ mounted' = (mounted \ {root}) \cup ({root} \ mounted) /\ Disturb
  /\ UNCHANGED <<disk, run>>
-----------------------------------------------------------------------------
(* The agent's runtime_sessions table. *)

(* Mutant: the row of any conversation is taken. *)
ByRuntime(table, native) == {id \in Ids : table[id] # None}

Stored(id) == rows[id] # None
ByNative(table, native) == {id \in Ids : table[id] # None /\ table[id].native = native}
ByIdOrNative(id) == {k \in Ids : Stored(k) /\ (k = id \/ rows[k].native = id)}

(* Mutant: the run of the row that is replaced is not carried over. *)
NewRunOnly(r, table, existing) == r

(* mergeRuntimeSessionRecords for an incoming row of a known thread, with  *)
(* the row `existing' of that thread: the key it is written under, and the *)
(* run it keeps.                                                           *)
MergedKey(key, native, existing) ==
  IF existing # NoId /\ key = native /\ existing # native THEN existing ELSE key
MergedRun(r, table, existing) ==
  IF r = NoRun /\ existing # NoId THEN table[existing].run ELSE r

(* The row it replaces is deleted. *)
Replaced(table, key, existing) ==
  IF existing \in {NoId, key} THEN table ELSE [table EXCEPT ![existing] = None]

(* Mutant: the thread that is there wins over the one scanned. *)
UpsertKeeps(table, key, native, r) ==
  [table EXCEPT ![key] = [native |-> IF r = NoRun /\ @ # None THEN @.native ELSE native,
                          run |-> IF r = NoRun /\ @ # None THEN @.run ELSE r]]

(* INSERT ... ON CONFLICT(session_id, runtime) DO UPDATE. *)
Upsert(table, key, native, r) ==
  [table EXCEPT ![key] = [native |-> native,
                          run |-> IF r = NoRun /\ @ # None THEN @.run ELSE r]]

(* runtimeSessionByNativeID: a newest row of the thread.  One that only an *)
(* earlier run has written is older than the row of the latest one.        *)
Older(table, id, others) ==
  /\ id \notin Convs /\ table[id].run \notin {NoRun, latest[ConvOf(id)]}
  /\ \E o \in others : table[o].run = latest[ConvOf(id)]
Picks(table, native) ==
  LET same == ByNative(table, native)
  IN  IF same = {} THEN {NoId} ELSE {id \in same : ~Older(table, id, same)}

(* upsertRuntimeSessions for one scanned conversation, in the transaction. *)
SaveScanned(table, c, native, existing) ==
  LET key == MergedKey(c, native, existing)
  IN  Upsert(Replaced(table, key, existing), key, native, MergedRun(NoRun, table, existing))

(* ResolveCommandContext and buildArgs: the threads a resume of id may     *)
(* take; none when it is not indexed locally.                              *)
Resolve(id) ==
  LET known == {rows[k].native : k \in ByIdOrNative(id)}
  IN  IF known = {} /\ id \in Convs /\ sessions[id].state = "live" THEN {id} ELSE known

(* RuntimeSessionByRun. *)
ByRun(r) == {id \in Ids : Stored(id) /\ rows[id].run = r}
-----------------------------------------------------------------------------
(* Scans. *)

Begin(k, kind, r, target) ==
  /\ task[k].pc = "idle" /\ started < scenario.tasks /\ started' = started + 1
  /\ task' = [task EXCEPT ![k] = [Idle EXCEPT !.kind = kind, !.pc = "walk", !.run = r,
                                              !.target = target]]
  /\ steady' = steady \cup {k}

(* uploadIndex on a new connection, for a refresh_index command and for a  *)
(* workspace request.                                                      *)
StartRefresh(k) ==
  /\ Begin(k, "refresh", NoRun, Idle.target)
  /\ UNCHANGED <<disk, mounted, agent, run, events, net, server, settled, published, latest, changes, drops, scenario>>

(* Scan: one directory.  A root that is a directory at its first stat      *)
(* counts as scanned; an entry that fails later is skipped.                *)
NativeOf(c) == IF disk[c].configured THEN Thread[c] ELSE c
SessionFromFile(c, root) == [root |-> root, native |-> NativeOf(c)]
Walk(k) ==
  /\ task[k].pc = "walk" /\ task[k].at <= Len(Places)
  /\ LET place == Places[task[k].at]
         root == RootOf[place]
         first == \A i \in 1 .. task[k].at - 1 : RootOf[Places[i]] # root
         readable == root \in mounted /\ (first \/ root \in task[k].roots)
     IN task' = [task EXCEPT
          ![k].at = @ + 1,
          ![k].roots = IF first /\ root \in mounted THEN @ \cup {root} ELSE @,
          ![k].found = [c \in Convs |-> IF readable /\ disk[c].place = place
                                        THEN SessionFromFile(c, root) ELSE @[c]]]
  /\ UNCHANGED <<disk, mounted, agent, run, events, net, server, history, counts>>

Found(k) == {c \in Convs : task[k].found[c].native # NoId}

(* missingIDs: sessions of the roots scanned that the scan did not see. *)
Scanned(k, c) == sessions[c].root \in task[k].roots
MissingIDs(k) ==
  {c \in Convs : sessions[c].state = "live" /\ Scanned(k, c) /\ c \notin Found(k)}

(* runHistoryTarget, read once before the scan: the row of the run, else   *)
(* one of the session its last event names, else that session.             *)
Targets(r) ==
  LET known == IF ByRun(r) # {} THEN ByRun(r) ELSE ByIdOrNative(run[r].id)
  IN  IF known = {} THEN {[ids |-> {run[r].id}, run |-> r]}
      ELSE {[ids |-> {id, rows[id].native}, run |-> IF rows[id].run = NoRun THEN r ELSE rows[id].run] :
              id \in known}

(* findHistorySession. *)
HistorySession(k) ==
  {c \in Found(k) : {c, task[k].found[c].native} \cap task[k].target.ids # {}}

(* emitHistoryRuntimeSession. *)
HistoryEvent(k, c) ==
  [session |-> c, native |-> task[k].found[c].native, run |-> task[k].target.run,
   of |-> task[k].run, create |-> ~run[task[k].run].resume]

(* A scan the disk changed under spoils the refreshes that are sending     *)
(* when it saves or sends after them.                                      *)
Sending == {k \in Tasks : task[k].pc \in {"sessions", "runtime", "deleted"}}
Unspoiled(k) == IF k \in steady THEN steady ELSE steady \ Sending

(* SaveScanResult, one transaction. *)
SaveResult(k) ==
  /\ task[k].pc = "walk" /\ task[k].at > Len(Places)
  /\ \E pick \in [Found(k) -> Refs] :
       /\ \A c \in Found(k) : pick[c] \in Picks(rows, task[k].found[c].native)
       /\ rows' = [id \in Ids |->
            IF ConvOf(id) \in Found(k)
            THEN SaveScanned(rows, ConvOf(id), task[k].found[ConvOf(id)].native, pick[ConvOf(id)])[id]
            ELSE rows[id]]
  /\ sessions' = [c \in Convs |->
       IF c \in Found(k) THEN [state |-> "live", root |-> task[k].found[c].root]
       ELSE IF c \in MissingIDs(k) THEN [sessions[c] EXCEPT !.state = "deleted"]
       ELSE sessions[c]]
  /\ settled' = (k \in steady) /\ published' = (published /\ k \in steady)

(* scanAndSaveIndex: the refresh goes on to upload what it saw. *)
SaveRefresh(k) ==
  /\ task[k].kind = "refresh" /\ SaveResult(k)
  /\ task' = [task EXCEPT ![k].pc = "sessions", ![k].deleted = MissingIDs(k)]
  /\ steady' = Unspoiled(k) /\ UNCHANGED <<disk, mounted, run, events, net, server, latest, counts>>

(* RefreshCodexIndex: the command that waited looks again. *)
SaveLookup(k) ==
  /\ task[k].kind = "lookup" /\ SaveResult(k)
  /\ task' = [task EXCEPT ![k] = Idle] /\ run' = [run EXCEPT ![task[k].run].pc = "retry"]
  /\ steady' = Unspoiled(k) /\ UNCHANGED <<disk, mounted, events, net, server, latest, counts>>

(* scanRunHistorySession and syncRunHistory: the session of the run, if    *)
(* the scan has it and its history is uploaded, is reported, else it scans *)
(* again or gives up; what was deleted is dropped.  uploadIndex follows.   *)
Rescan(k, kind) ==
  [Idle EXCEPT !.kind = kind, !.pc = "walk", !.run = task[k].run, !.target = task[k].target]
SaveHistory(k) ==
  /\ task[k].kind = "history" /\ SaveResult(k)
  /\ \/ \E c \in HistorySession(k) :
          /\ events' \in {Append(events, HistoryEvent(k, c)), events}
          /\ task' = [task EXCEPT ![k] = Rescan(k, "refresh")] /\ UNCHANGED started
     \/ /\ HistorySession(k) = {} /\ started < scenario.tasks /\ started' = started + 1
        /\ task' = [task EXCEPT ![k] = Rescan(k, "history")] /\ UNCHANGED events
     \/ /\ HistorySession(k) = {}
        /\ task' = [task EXCEPT ![k] = Rescan(k, "refresh")] /\ UNCHANGED <<events, started>>
  /\ steady' = Unspoiled(k) \cup {k}
  /\ UNCHANGED <<disk, mounted, run, net, server, latest, changes, drops, scenario>>
-----------------------------------------------------------------------------
(* uploadIndexSnapshot: three messages, the last one only if this scan     *)
(* deleted something.  A steady refresh that has sent all is published,    *)
(* one of an older scan spoils it.                                         *)

Finished(k) == task' = [task EXCEPT ![k] = Idle]
Outdated(k) == published /\ k \in steady

SendSessions(k) ==
  /\ task[k].pc = "sessions" /\ net' = Append(net, [kind |-> "sessions", convs |-> Found(k)])
  /\ task' = [task EXCEPT ![k].pc = "runtime"] /\ published' = Outdated(k)
  /\ steady' = Unspoiled(k) /\ UNCHANGED <<disk, mounted, agent, run, events, server, settled, latest, counts>>

(* Mutant: the rows that only runs have written are not sent. *)
ScannedSessions(k, stored) ==
  {[session |-> c, native |-> task[k].found[c].native, run |-> NoRun] : c \in Found(k)}

(* uniqueRuntimeSessions keeps of a scanned and a stored row with the same *)
(* session_id the newer one.                                               *)
RuntimeSessions(k, stored) ==
  {[session |-> c, native |-> task[k].found[c].native, run |-> NoRun] : c \in Found(k) \ stored}
  \cup {[session |-> id, native |-> rows[id].native, run |-> rows[id].run] :
          id \in {i \in Ids : Stored(i) /\ i \notin Found(k) \ stored}}

SendRuntime(k) ==
  /\ task[k].pc = "runtime"
  /\ \E stored \in SUBSET {c \in Found(k) : Stored(c)} :
       LET all == RuntimeSessions(k, stored)
       IN net' = IF all = {} THEN net ELSE Append(net, [kind |-> "runtime", rows |-> all])
  /\ IF task[k].deleted # {}
     THEN task' = [task EXCEPT ![k].pc = "deleted"] /\ published' = Outdated(k)
     ELSE Finished(k) /\ published' = (settled /\ k \in steady)
  /\ steady' = Unspoiled(k) /\ UNCHANGED <<disk, mounted, agent, run, events, server, settled, latest, counts>>

SendDeleted(k) ==
  /\ task[k].pc = "deleted" /\ net' = Append(net, [kind |-> "deleted", convs |-> task[k].deleted])
  /\ Finished(k) /\ published' = (settled /\ k \in steady)
  /\ steady' = Unspoiled(k) /\ UNCHANGED <<disk, mounted, agent, run, events, server, settled, latest, counts>>

(* The connection is lost with what is on it.  A refresh whose next send   *)
(* fails ends, another goes on over the next connection.                   *)
Drop ==
  /\ drops < scenario.drops /\ drops' = drops + 1 /\ net' = <<>>
  /\ \E failed \in SUBSET Sending :
       task' = [k \in Tasks |-> IF k \in failed THEN Idle ELSE task[k]]
  /\ steady' = steady \ Sending /\ published' = FALSE
  /\ UNCHANGED <<disk, mounted, agent, run, events, server, settled, latest, started, changes, scenario>>

(* The agent stops and starts again: its goroutines end, and SQLite with   *)
(* the outbox stays, or is gone with the data directory; the identity is   *)
(* in another one.                                                         *)
Stopped(kept) == [r \in Runs |-> IF run[r].pc \in kept THEN run[r] ELSE [run[r] EXCEPT !.pc = "failed"]]
AgentStops ==
  /\ drops < scenario.drops /\ drops' = drops + 1 /\ net' = <<>>
  /\ task' = [k \in Tasks |-> Idle]
  /\ \/ /\ run' = Stopped({"new", "ended", "synced"}) /\ UNCHANGED <<agent, events, settled, latest>>
     \/ /\ run' = Stopped({"new", "synced"}) /\ events' = <<>>
        /\ sessions' = [c \in Convs |-> [state |-> "none", root |-> Unseen.root]]
        /\ rows' = [id \in Ids |-> None] /\ settled' = FALSE
        /\ latest' = [c \in Convs |-> NoRun]
  /\ steady' = {} /\ published' = FALSE
  /\ UNCHANGED <<disk, mounted, server, started, changes, scenario>>
-----------------------------------------------------------------------------
(* Runs.  The dash starts a new session or resumes an id the server knows. *)

ServerKnows(id) == \/ id \in Convs /\ srvSessions[id] = "live"
                   \/ \E s \in Ids : srvRows[s] # SrvNone /\ id \in {srvRows[s].session, srvRows[s].native}

Started(r, c, id, key, resume) ==
  run' = [run EXCEPT ![r] = [@ EXCEPT !.pc = "select", !.conv = c, !.id = id, !.key = key,
                                      !.resume = resume, !.row = [native |-> Thread[c], run |-> r]]]

(* new_session: the CLI creates the file and reports the thread. *)
StartNew(r) ==
  /\ run[r].pc = "new" /\ r \in scenario.runs
  /\ \E c \in scenario.convs : /\ disk[c].place = NoPlace /\ sessions[c].state = "none"
                               /\ \A id \in {c, Thread[c]} : ~Stored(id)
                               /\ \A q \in Runs : run[q].pc # "new" => run[q].conv # c
                               /\ WriteSession(c) /\ Started(r, c, Thread[c], Thread[c], FALSE)
  /\ Disturb /\ UNCHANGED mounted

(* start or continue of an id: the thread is looked up, after a scan if it *)
(* is not indexed, and resumed if its file is there.  The manager refuses  *)
(* it while a run of the conversation is active.                           *)
Active(c) == \E q \in Runs : run[q].pc \notin {"new", "ended", "synced", "failed"} /\ run[q].conv = c
Resume(r) ==
  /\ run[r].pc = "new" /\ r \in scenario.runs
  /\ \E id \in Ids : /\ ServerKnows(id) /\ ~Active(ConvOf(id))
                     /\ run' = [run EXCEPT ![r] = [@ EXCEPT !.pc = "lookup", !.id = id, !.key = id,
                                                            !.conv = ConvOf(id), !.resume = TRUE]]
  /\ UNCHANGED <<disk, mounted, agent, task, events, net, server, history, counts>>

Refreshed(r) ==
  /\ run[r].pc = "lookup" /\ Resolve(run[r].id) = {} /\ run' = [run EXCEPT ![r].pc = "refresh"]
  /\ \E k \in Tasks : Begin(k, "lookup", r, Idle.target)
  /\ UNCHANGED <<disk, mounted, agent, events, net, server, settled, published, latest, changes, drops, scenario>>

Resolved(r) ==
  LET c == run[r].conv
      runs == Resolve(run[r].id) # {} /\ disk[c].place # NoPlace /\ RootOf[disk[c].place] \in mounted
  IN /\ \/ run[r].pc = "retry"
        \/ run[r].pc = "lookup" /\ Resolve(run[r].id) # {}
     /\ IF runs THEN Started(r, c, run[r].id, run[r].key, TRUE)
                ELSE run' = [run EXCEPT ![r].pc = "failed"]
     /\ UNCHANGED <<disk, mounted, agent, task, events, net, server, history, counts>>

(* SaveRuntimeSession for thread.started: the row of the thread is read,   *)
(* a row it replaces is deleted, and the new one is inserted.              *)
Select(r) ==
  /\ run[r].pc = "select"
  /\ \E existing \in Picks(rows, run[r].row.native) :
       LET key == MergedKey(run[r].key, run[r].row.native, existing)
       IN run' = [run EXCEPT ![r] = [@ EXCEPT !.key = key, !.existing = existing,
                    !.pc = IF existing \in {NoId, key} THEN "insert" ELSE "delete"]]
  /\ UNCHANGED <<disk, mounted, agent, task, events, net, server, history, counts>>

Delete(r) ==
  /\ run[r].pc = "delete" /\ rows' = [rows EXCEPT ![run[r].existing] = None]
  /\ run' = [run EXCEPT ![r].pc = "insert"] /\ latest' = [latest EXCEPT ![run[r].conv] = NoRun]
  /\ UNCHANGED <<disk, mounted, sessions, task, events, net, server, steady, settled, published, counts>>

(* The event names the session as the command did, not as the row does. *)
Insert(r) ==
  /\ run[r].pc = "insert"
  /\ rows' = Upsert(rows, run[r].key, run[r].row.native, run[r].row.run)
  /\ run' = [run EXCEPT ![r].pc = "running"] /\ latest' = [latest EXCEPT ![run[r].conv] = r]
  /\ events' = Append(events, [session |-> run[r].id, native |-> run[r].row.native, run |-> r,
                               of |-> r, create |-> ~run[r].resume])
  /\ UNCHANGED <<disk, mounted, sessions, task, net, server, steady, settled, published, counts>>

EndRun(r) ==
  /\ run[r].pc = "running" /\ run' = [run EXCEPT ![r].pc = "ended"]
  /\ UNCHANGED <<disk, mounted, agent, task, events, net, server, history, counts>>

(* refreshIndexAfterRun, once the end of the run is sent. *)
AfterRun(r) ==
  /\ run[r].pc = "ended" /\ run' = [run EXCEPT ![r].pc = "synced"]
  /\ \E k \in Tasks, t \in Targets(r) : Begin(k, "history", r, t)
  /\ UNCHANGED <<disk, mounted, agent, events, net, server, settled, published, latest, changes, drops, scenario>>
-----------------------------------------------------------------------------
(* The server. *)

(* upsertRuntimeSessionTx: the row that has the native id is taken, else   *)
(* the one whose id is derived from the session.                           *)
ServerRow(m) ==
  LET same == {s \in Ids : srvRows[s].native = m.native}
  IN  IF same = {} THEN m.session ELSE CHOOSE s \in same : TRUE
UpsertServer(m) ==
  srvRows' = [srvRows EXCEPT ![ServerRow(m)] =
                [session |-> m.session, native |-> m.native,
                 run |-> IF m.run = NoRun THEN @.run ELSE m.run]]

ReceiveSessions ==
  /\ net # <<>> /\ Head(net).kind = "sessions" /\ net' = Tail(net)
  /\ srvSessions' = [c \in Convs |-> IF c \in Head(net).convs THEN "live" ELSE srvSessions[c]]
  /\ UNCHANGED <<disk, mounted, agent, task, run, events, srvRows, runLink, history, counts>>

(* MarkIndexDeleted. *)
ReceiveDeleted ==
  /\ net # <<>> /\ Head(net).kind = "deleted" /\ net' = Tail(net)
  /\ srvSessions' = [c \in Convs |-> IF c \in Head(net).convs /\ srvSessions[c] # "none"
                                     THEN "deleted" ELSE srvSessions[c]]
  /\ UNCHANGED <<disk, mounted, agent, task, run, events, srvRows, runLink, history, counts>>

(* UpsertRuntimeSession, a row of the message at a time, and               *)
(* linkRuntimeSessionToRun for a run that has no session yet.              *)
ReceiveRuntime ==
  /\ net # <<>> /\ Head(net).kind = "runtime"
  /\ \E m \in Head(net).rows :
       /\ UpsertServer(m)
       /\ runLink' = [r \in Runs |-> IF r = m.run /\ runLink[r] = NoId THEN m.session ELSE runLink[r]]
       /\ net' = IF Head(net).rows = {m} THEN Tail(net)
                 ELSE [net EXCEPT ![1].rows = @ \ {m}]
  /\ UNCHANGED <<disk, mounted, agent, task, run, events, srvSessions, history, counts>>

(* projectRuntimeSessionTx: an event of a run that resumed must be about a *)
(* session the server knows, else it is refused.                           *)
Accepted(e) == e.create \/ ServerKnows(e.session) \/ ServerKnows(e.native)
ReceiveEvent ==
  /\ events # <<>> /\ events' = Tail(events)
  /\ IF Accepted(Head(events))
     THEN UpsertServer(Head(events)) /\ runLink' = [runLink EXCEPT ![Head(events).of] = Head(events).session]
     ELSE UNCHANGED <<srvRows, runLink>>
  /\ UNCHANGED <<disk, mounted, agent, task, run, net, srvSessions, history, counts>>
-----------------------------------------------------------------------------
Next ==
  \/ \E c \in Convs : Create(c) \/ Configure(c) \/ Move(c) \/ Remove(c)
  \/ \E root \in Roots : Mount(root)
  \/ \E k \in Tasks : StartRefresh(k) \/ Walk(k) \/ SaveRefresh(k) \/ SaveLookup(k) \/ SaveHistory(k)
                      \/ SendSessions(k) \/ SendRuntime(k) \/ SendDeleted(k)
  \/ \E r \in Runs : StartNew(r) \/ Resume(r) \/ Refreshed(r) \/ Resolved(r)
                     \/ Select(r) \/ Delete(r) \/ Insert(r) \/ EndRun(r) \/ AfterRun(r)
  \/ ReceiveSessions \/ ReceiveDeleted \/ ReceiveRuntime \/ ReceiveEvent
  \/ Drop \/ AgentStops

Spec == Init /\ [][Next]_vars
-----------------------------------------------------------------------------
(* A scan the disk does not change under repairs whatever overlapping      *)
(* scans and runs have left: the sessions on the roots that exist are the  *)
(* live ones, and both ids of a configured one lead to its thread.         *)
OnDisk(c) == disk[c].place # NoPlace /\ RootOf[disk[c].place] \in mounted
ScanRepairs ==
  settled => \A c \in Convs :
    /\ OnDisk(c) => sessions[c].state = "live"
    /\ ~OnDisk(c) /\ sessions[c].root \in mounted => sessions[c].state # "live"
    /\ OnDisk(c) /\ disk[c].configured => Resolve(c) = {Thread[c]} /\ Resolve(Thread[c]) = {Thread[c]}

(* A conversation stays found by the run that wrote a row of it last, which *)
(* is how the history of that run is read, however scans merge, rename and *)
(* replace the row.  It can only be lost while both ids of it have rows    *)
(* that disagree on its thread: a scan of the file as it was before it was *)
(* configured then came after the run, and the next scan takes the run of  *)
(* the other row.                                                          *)
Holds(c) == \E id \in ByRun(latest[c]) : ConvOf(id) = c
Disagree(c) ==
  Stored(c) /\ Stored(Thread[c]) /\ rows[c].native = c /\ rows[Thread[c]].native # c
RunKept ==
  [][\A c \in Convs : latest[c] # NoRun /\ latest'[c] = latest[c] /\ Holds(c) /\ ~Holds(c)'
       => Disagree(c)]_vars

(* What a steady refresh has sent, once it has arrived, is at the server   *)
(* in spite of older scans: every session there is, and every conversation. *)
ServerFollows ==
  published /\ net = <<>> /\ events = <<>> =>
    /\ \A c \in Convs : OnDisk(c) => srvSessions[c] = "live"
    /\ \A id \in Ids : Stored(id) => ServerKnows(ConvOf(id)) \/ ServerKnows(Thread[ConvOf(id)])

(* Not so: the run that wrote a row of a conversation last finds it.       *)
RunFound == \A c \in Convs : latest[c] # NoRun => Holds(c)

(* Not so: a session is only marked deleted while its file is away.  A     *)
(* file that moves behind the walk, or was written after the walk of a     *)
(* scan that is saved late, is marked deleted although it is there.        *)
DeletedOnlyWhenGone ==
  [][\A c \in Convs : sessions[c].state = "live" /\ sessions'[c].state = "deleted" => ~OnDisk(c)]_vars

(* Not so: with no connection lost and nothing on its way the server does  *)
(* not show a session the agent has marked deleted.                        *)
DeletionReported ==
  settled /\ drops = 0 /\ net = <<>> /\ (\A k \in Tasks : task[k].pc = "idle") =>
    \A c \in Convs : sessions[c].state = "deleted" => srvSessions[c] # "live"

(* Not so: the server does not refuse the thread of a run it has sent. *)
ThreadAccepted == events # <<>> => Accepted(Head(events))
=============================================================================
