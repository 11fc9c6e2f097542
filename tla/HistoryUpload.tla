--------------------------- MODULE HistoryUpload ----------------------------
(***************************************************************************)
(* How the history of one Codex session reaches the server.  Each upload   *)
(* (Client.uploadHistoryItems) compares the cursor of the scanned file     *)
(* with the stored one, reads the file into batches, sends one batch after *)
(* the other, each waiting for its history.items.ack, and saves the cursor *)
(* and sends it (sync.cursor).  uploadIndex then sends the raw chunks.     *)
(* The server stages the batches of an upload and replaces the session's   *)
(* items when all are there; an upload of one batch replaces them at once. *)
(*                                                                         *)
(* Uploads overlap: one starts with every connection, two after each run   *)
(* (syncRunHistory, then uploadIndex), one runs inside the read loop for   *)
(* the command refresh_index.  Nothing serialises them.                    *)
(*                                                                         *)
(* Abstractions: one session; the file is its version number, and the      *)
(* items of batch b of version v are the pair <<v, b>>; the raw history is *)
(* one chunk whose hash is the version.                                    *)
(***************************************************************************)
EXTENDS Naturals, Sequences, FiniteSets

CONSTANTS
  Uploads,       (* the calls of uploadHistoryItems, by upload id          *)
  KindOf,        (* "connect", "command", "sync" or "post"                 *)
  Then,          (* "sync" upload -> the "post" upload that follows it     *)
  Scenarios,     (* bound: the sets of uploads that happen in one behaviour *)
  MaxVersion,    (* bound: versions of the file                            *)
  BatchCount,    (* version -> batches of its items                        *)
  Insert,        (* outcomes of an INSERT while the rows of the same       *)
                 (* transaction are open: "done", "busy"                   *)
  UploadChunks,  (* Client.uploadHistory                                   *)
  MaxDrops,      (* bound: lost connections                                *)
  MaxFailures    (* bound: store errors and acks lost to a full queue      *)

Versions == 1 .. MaxVersion
Items(v) == {<<v, b>> : b \in 0 .. BatchCount[v] - 1}

ASSUME UploadAssumption ==
  /\ IsFiniteSet(Uploads)
  /\ KindOf \in [Uploads -> {"connect", "command", "sync", "post"}]
  /\ Then \in [{u \in Uploads : KindOf[u] = "sync"} -> {u \in Uploads : KindOf[u] = "post"}]
  /\ \A t, u \in DOMAIN Then : t # u => Then[t] # Then[u]
  /\ Scenarios \subseteq SUBSET Uploads
  /\ MaxVersion \in Nat \ {0}
  /\ BatchCount \in [Versions -> Nat \ {0}]
  /\ Insert \subseteq {"done", "busy"} /\ Insert # {}
  /\ UploadChunks \in BOOLEAN
  /\ MaxDrops \in Nat /\ MaxFailures \in Nat

VARIABLES
  planned,   (* the uploads of this behaviour                              *)
  file,      (* the version of the rollout file                            *)
  up,        (* upload -> where it is                                      *)
  ack,       (* upload -> what is in its ack channel                       *)
  cursor,    (* the agent's sync_cursors row, 0: none                      *)
  chunk,     (* the agent's history_chunks row: hash, 0: none, and acked   *)
  conn,      (* the connection is up                                       *)
  wire,      (* messages to the server, in order                           *)
  buffered,  (* messages of the lost connection the server still handles   *)
  back,      (* messages to the agent, in order                            *)
  stored,    (* the server's history_items of the session                  *)
  staged,    (* upload -> its rows in history_item_staging                 *)
  received,  (* upload -> its rows in history_item_upload_batches          *)
  uploaded,  (* upload -> its row in history_item_uploads: batch_count,    *)
             (* 0: none, and final_seen                                    *)
  confirmed, (* the server's sync_cursors row                              *)
  chunks,    (* the server's history_chunks: hashes                        *)
  newest,    (* history: the newest version ever stored whole              *)
  drops, failures

process == <<up, ack>>
local   == <<cursor, chunk>>
link    == <<conn, wire, buffered, back>>
staging == <<staged, received, uploaded>>
server  == <<stored, staging, confirmed, chunks, newest>>
counted == <<drops, failures>>
vars    == <<planned, file, process, local, link, server, counted>>

PC == {"idle", "scan", "check", "wait", "chunk", "done", "failed"}
Idle == [pc |-> "idle", seen |-> 0, read |-> 0, batch |-> 0]
NoChunk == [sha |-> 0, acked |-> FALSE]
NoUpload == [count |-> 0, final |-> FALSE]
Answers == {"none", "acked", "failed"}
ToServer == [type : {"items", "chunk", "cursor"}, upload : Uploads, version : Versions, batch : Nat]
ToAgent == [type : {"items", "chunk"}, upload : Uploads, version : Versions, batch : Nat, result : Answers]

TypeOK ==
  /\ planned \in Scenarios
  /\ file \in Versions
  /\ up \in [Uploads -> [pc : PC, seen : 0 .. file, read : 0 .. file, batch : Nat]]
  /\ \A u \in Uploads : up[u].pc = "wait" => up[u].batch < BatchCount[up[u].read]
  /\ ack \in [Uploads -> Answers]
  /\ cursor \in 0 .. file
  /\ chunk \in [sha : 0 .. file, acked : BOOLEAN]
  /\ conn \in BOOLEAN
  /\ wire \in Seq(ToServer) /\ buffered \in Seq(ToServer) /\ back \in Seq(ToAgent)
  /\ stored \subseteq Versions \X Nat
  /\ staged \in [Uploads -> SUBSET (Versions \X Nat)]
  /\ received \in [Uploads -> SUBSET Nat]
  /\ uploaded \in [Uploads -> [count : Nat, final : BOOLEAN]]
  /\ confirmed \in 0 .. file /\ chunks \subseteq Versions /\ newest \in 0 .. file
  /\ drops \in Nat /\ failures \in Nat

Init ==
  /\ planned \in Scenarios
  /\ file = 1
  /\ up = [u \in Uploads |-> Idle] /\ ack = [u \in Uploads |-> "none"]
  /\ cursor = 0 /\ chunk = NoChunk
  /\ conn = FALSE /\ wire = <<>> /\ buffered = <<>> /\ back = <<>>
  /\ stored = {} /\ confirmed = 0 /\ chunks = {} /\ newest = 0
  /\ staged = [u \in Uploads |-> {}] /\ received = [u \in Uploads |-> {}]
  /\ uploaded = [u \in Uploads |-> NoUpload]
  /\ drops = 0 /\ failures = 0

Ended(u) == up[u].pc \in {"done", "failed"}
Running(u) == up[u].pc # "idle" /\ ~Ended(u)

-----------------------------------------------------------------------------
(* The environment of the uploads.                                         *)

(* The Codex CLI writes to the rollout file.                               *)
Grow ==
  /\ file < MaxVersion
  /\ file' = file + 1
  /\ UNCHANGED <<planned, process, local, link, server, counted>>

(* Client.serve starts uploadIndex with every connection.                  *)
Connect(u) ==
  /\ u \in planned /\ KindOf[u] = "connect" /\ up[u].pc = "idle" /\ ~conn
  /\ conn' = TRUE
  /\ up' = [up EXCEPT ![u].pc = "scan"]
  /\ UNCHANGED <<planned, file, ack, local, wire, buffered, back, server, counted>>

(* The connection is lost with what is in flight; the server's reader may  *)
(* still hold a part of what was sent.  The context of the uploads of this *)
(* connection is cancelled; those after a run have their own.              *)
Drop(n) ==
  /\ conn /\ drops < MaxDrops /\ buffered = <<>>
  /\ drops' = drops + 1
  /\ conn' = FALSE /\ wire' = <<>> /\ back' = <<>>
  /\ buffered' = SubSeq(wire, 1, n)
  /\ up' = [u \in Uploads |-> IF Running(u) /\ KindOf[u] \in {"connect", "command"}
                              THEN [up[u] EXCEPT !.pc = "failed"] ELSE up[u]]
  /\ UNCHANGED <<planned, file, ack, local, server, failures>>

(* A final run event is saved and sent: refreshIndexAfterRun.              *)
RunEnds(u) ==
  /\ u \in planned /\ KindOf[u] = "sync" /\ up[u].pc = "idle"
  /\ up' = [up EXCEPT ![u].pc = "scan"]
  /\ UNCHANGED <<planned, file, ack, local, link, server, counted>>

(* The read loop receives refresh_index and runs uploadIndex itself.       *)
ReadLoopFree == ~ \E u \in Uploads : KindOf[u] = "command" /\ Running(u)

Refresh(u) ==
  /\ u \in planned /\ KindOf[u] = "command" /\ up[u].pc = "idle"
  /\ conn /\ ReadLoopFree
  /\ up' = [up EXCEPT ![u].pc = "scan"]
  /\ UNCHANGED <<planned, file, ack, local, link, server, counted>>

-----------------------------------------------------------------------------
(* One upload.                                                             *)

At(u, pc) == up[u].pc = pc
Go(u, pc) == up' = [up EXCEPT ![u].pc = pc]

(* uploadHistoryItems returns.  uploadIndex goes on with the chunks        *)
(* whatever the outcome; syncRunHistory returns to refreshIndexAfterRun,   *)
(* which calls uploadIndex.                                                *)
AfterItems(f, u, pc) ==
  CASE KindOf[u] = "sync" -> [f EXCEPT ![u].pc = pc, ![Then[u]].pc = "scan"]
    [] KindOf[u] # "sync" /\ UploadChunks -> [f EXCEPT ![u].pc = "chunk"]
    [] OTHER -> [f EXCEPT ![u].pc = pc]

Scan(u) ==
  /\ At(u, "scan")
  /\ up' = [up EXCEPT ![u].pc = "check", ![u].seen = file]
  /\ UNCHANGED <<planned, file, ack, local, link, server, counted>>

(* The target or the scan of the run's session fails, or the refresh of    *)
(* the index: syncRunHistory returns, uploadIndex returns.                 *)
ScanFails(u) ==
  /\ At(u, "scan")
  /\ up' = IF KindOf[u] = "sync"
           THEN [up EXCEPT ![u].pc = "failed", ![Then[u]].pc = "scan"]
           ELSE [up EXCEPT ![u].pc = "failed"]
  /\ UNCHANGED <<planned, file, ack, local, link, server, counted>>

Message(u, type, version, batch) ==
  [type |-> type, upload |-> u, version |-> version, batch |-> batch]

(* sendHistoryItems registers a new channel and sends the batch.           *)
SendItems(u, version, batch) ==
  /\ ack' = [ack EXCEPT ![u] = "none"]
  /\ IF conn
     THEN /\ wire' = Append(wire, Message(u, "items", version, batch))
          /\ up' = [up EXCEPT ![u].pc = "wait", ![u].read = version, ![u].batch = batch]
     ELSE /\ up' = AfterItems(up, u, "failed")
          /\ UNCHANGED wire

Synced(u) == cursor = up[u].seen
SaveSyncCursor(u) == cursor' = up[u].seen

(* The cursor was computed by the scan, the items are read from the file   *)
(* as it is now.                                                           *)
CheckCursor(u) ==
  /\ At(u, "check")
  /\ IF Synced(u)
     THEN up' = AfterItems(up, u, "done") /\ UNCHANGED <<ack, wire>>
     ELSE SendItems(u, file, 0)
  /\ UNCHANGED <<planned, file, local, conn, buffered, back, server, counted>>

(* Mutant: an answer is an answer, whatever its status.                    *)
RejectedIsDone(u) ==
  /\ At(u, "wait") /\ ack[u] = "failed"
  /\ up' = AfterItems(up, u, "done")
  /\ UNCHANGED <<planned, file, ack, local, link, server, counted>>

Rejected(u) ==
  /\ At(u, "wait") /\ ack[u] = "failed"
  /\ up' = AfterItems(up, u, "failed")
  /\ UNCHANGED <<planned, file, ack, local, link, server, counted>>

(* Mutant: the batches are counted from one.                               *)
LastBatchFromOne(u) == up[u].batch = BatchCount[up[u].read]

LastBatch(u) == up[u].batch + 1 = BatchCount[up[u].read]

NextBatch(u) ==
  /\ At(u, "wait") /\ ack[u] = "acked" /\ ~LastBatch(u)
  /\ SendItems(u, up[u].read, up[u].batch + 1)
  /\ UNCHANGED <<planned, file, local, conn, buffered, back, server, counted>>

(* The last batch is acknowledged: SaveSyncCursor, sync.cursor is sent.    *)
SaveCursor(u) ==
  /\ At(u, "wait") /\ ack[u] = "acked" /\ LastBatch(u)
  /\ SaveSyncCursor(u)
  /\ up' = AfterItems(up, u, IF conn THEN "done" ELSE "failed")
  /\ wire' = IF conn THEN Append(wire, Message(u, "cursor", up[u].seen, 0)) ELSE wire
  /\ UNCHANGED <<planned, file, ack, chunk, conn, buffered, back, server, counted>>

(* After 30 seconds, or the minute of refreshIndexAfterRun.                *)
TimedOut(u) ==
  /\ At(u, "wait")
  /\ up' = AfterItems(up, u, "failed")
  /\ UNCHANGED <<planned, file, ack, local, link, server, counted>>

(* SaveHistoryChunk forgets the ack of another content.                    *)
SaveHistoryChunk(version) ==
  chunk' = IF chunk.sha = version THEN chunk ELSE [sha |-> version, acked |-> FALSE]

(* A chunk already acknowledged is not sent.                               *)
UploadChunk(u) ==
  /\ At(u, "chunk")
  /\ SaveHistoryChunk(file)
  /\ wire' = IF conn /\ ~chunk'.acked THEN Append(wire, Message(u, "chunk", file, 0)) ELSE wire
  /\ Go(u, "done")
  /\ UNCHANGED <<planned, file, ack, cursor, conn, buffered, back, server, counted>>

Step(u) == \/ Scan(u) \/ CheckCursor(u) \/ Rejected(u) \/ NextBatch(u)
           \/ SaveCursor(u) \/ UploadChunk(u)

-----------------------------------------------------------------------------
(* The agent's read loop: an ack goes to the channel registered for this   *)
(* session, upload and batch, if there is still one.                       *)

ResolveHistoryAck(a) ==
  ack' = IF a.type = "items" /\ At(a.upload, "wait")
            /\ up[a.upload].batch = a.batch /\ ack[a.upload] = "none"
         THEN [ack EXCEPT ![a.upload] = a.result] ELSE ack

(* Mutant: the ack of a chunk is matched by its index only.                *)
MarkAnyChunkAcked(a) ==
  chunk' = IF a.type = "chunk" /\ a.result = "acked"
           THEN [chunk EXCEPT !.acked = TRUE] ELSE chunk

(* The ack of a chunk counts for the content it names.                     *)
MarkHistoryChunkAcked(a) ==
  chunk' = IF a.type = "chunk" /\ a.result = "acked" /\ chunk.sha = a.version
           THEN [chunk EXCEPT !.acked = TRUE] ELSE chunk

ReceiveAck ==
  /\ conn /\ back # <<>> /\ ReadLoopFree
  /\ back' = Tail(back)
  /\ ResolveHistoryAck(Head(back))
  /\ MarkHistoryChunkAcked(Head(back))
  /\ UNCHANGED <<planned, file, up, cursor, conn, wire, buffered, server, counted>>

-----------------------------------------------------------------------------
(* The server.                                                             *)

Whole(items) == {v \in Versions : items = Items(v)}
Latest(items) == IF Whole(items) = {} THEN newest
                 ELSE LET v == CHOOSE v \in Whole(items) : TRUE
                      IN IF v > newest THEN v ELSE newest

(* Mutant: every batch is applied as it comes.                             *)
NeverStage(m) == FALSE

ShouldStage(m) == BatchCount[m.version] > 1
Final(m) == m.batch + 1 = BatchCount[m.version]
Reset(m) == m.batch = 0

SaveDirect(m) ==
  /\ ~ShouldStage(m)
  /\ stored' = (IF Reset(m) THEN {} ELSE stored) \cup {<<m.version, m.batch>>}
  /\ newest' = Latest(stored')
  /\ UNCHANGED staging

(* upsertHistoryUpload, replaceHistoryUploadBatch, historyUploadReady.     *)
StagedCount(m) ==
  IF uploaded[m.upload].count > BatchCount[m.version]
  THEN uploaded[m.upload].count ELSE BatchCount[m.version]
StagedRows(m) ==
  {i \in staged[m.upload] : i[2] # m.batch} \cup {<<m.version, m.batch>>}
Ready(m) ==
  /\ uploaded[m.upload].final \/ Final(m)
  /\ Cardinality(received[m.upload] \cup {m.batch}) >= StagedCount(m)

Stage(m) ==
  /\ ShouldStage(m) /\ ~Ready(m)
  /\ staged' = [staged EXCEPT ![m.upload] = StagedRows(m)]
  /\ received' = [received EXCEPT ![m.upload] = @ \cup {m.batch}]
  /\ uploaded' = [uploaded EXCEPT ![m.upload] =
                    [count |-> StagedCount(m), final |-> @.final \/ Final(m)]]
  /\ UNCHANGED <<stored, newest>>

(* The last batch: the same transaction replaces the items of the session  *)
(* and empties the staging tables.                                         *)
CommitUpload(m) ==
  /\ ShouldStage(m) /\ Ready(m) /\ "done" \in Insert
  /\ stored' = StagedRows(m)
  /\ newest' = Latest(stored')
  /\ staged' = [staged EXCEPT ![m.upload] = {}]
  /\ received' = [received EXCEPT ![m.upload] = {}]
  /\ uploaded' = [uploaded EXCEPT ![m.upload] = NoUpload]

SaveHistoryItems(m) == SaveDirect(m) \/ Stage(m) \/ CommitUpload(m)

Reply(m, result) ==
  [type |-> m.type, upload |-> m.upload, version |-> m.version, batch |-> m.batch, result |-> result]

(* What a message does, and the answer it gets, or none.                   *)
HandleItems(m, answer) ==
  /\ m.type = "items"
  /\ UNCHANGED <<confirmed, chunks>>
  /\ \/ SaveHistoryItems(m) /\ answer = <<Reply(m, "acked")>> /\ UNCHANGED failures
     \/ /\ SaveHistoryItems(m) /\ answer = <<>>
        /\ failures < MaxFailures /\ failures' = failures + 1
     \/ /\ answer = <<Reply(m, "failed")>> /\ UNCHANGED <<stored, staging, newest>>
        /\ \/ /\ ShouldStage(m) /\ Ready(m) /\ "busy" \in Insert
              /\ UNCHANGED failures
           \/ failures < MaxFailures /\ failures' = failures + 1

HandleChunk(m, answer) ==
  /\ m.type = "chunk"
  /\ chunks' = chunks \cup {m.version}
  /\ answer = <<Reply(m, "acked")>>
  /\ UNCHANGED <<stored, staging, newest, confirmed, failures>>

HandleCursor(m, answer) ==
  /\ m.type = "cursor"
  /\ confirmed' = m.version
  /\ answer = <<>>
  /\ UNCHANGED <<stored, staging, newest, chunks, failures>>

Handle(m, answer) == HandleItems(m, answer) \/ HandleChunk(m, answer) \/ HandleCursor(m, answer)
Answer(m) == {<<>>} \cup {<<Reply(m, r)>> : r \in {"acked", "failed"}}

Receive ==
  /\ conn /\ wire # <<>>
  /\ \E answer \in Answer(Head(wire)) :
       Handle(Head(wire), answer) /\ back' = back \o answer
  /\ wire' = Tail(wire)
  /\ UNCHANGED <<planned, file, process, local, conn, buffered, drops>>

(* The reader of the lost connection; its answers are lost.                *)
ReceiveBuffered ==
  /\ buffered # <<>>
  /\ \E answer \in Answer(Head(buffered)) : Handle(Head(buffered), answer)
  /\ buffered' = Tail(buffered)
  /\ UNCHANGED <<planned, file, process, local, conn, wire, back, drops>>

-----------------------------------------------------------------------------
Next ==
  \/ Grow \/ ReceiveAck \/ Receive \/ ReceiveBuffered
  \/ \E n \in 0 .. Len(wire) : Drop(n)
  \/ \E u \in Uploads : \/ Connect(u) \/ RunEnds(u) \/ Refresh(u)
                        \/ Step(u) \/ ScanFails(u) \/ TimedOut(u)

Spec == Init /\ [][Next]_vars

-----------------------------------------------------------------------------
(* What the server shows of the session.                                   *)
Shown == CASE stored = {} -> 0
           [] Whole(stored) # {} -> CHOOSE v \in Whole(stored) : TRUE
           [] OTHER -> MaxVersion + 1

Abstract == INSTANCE SessionHistory WITH
              shown <- Shown, synced <- cursor, confirmed <- confirmed

(* A reader of the server always sees one whole version of the session's   *)
(* history, and a cursor is remembered, by the agent or by the server,     *)
(* only when a version at least as new was stored: whatever uploads        *)
(* overlap, fail, time out or are cut (history_upload.go, uploadHistory-   *)
(* Items).                                                                 *)
ShowsWholeVersions == Abstract!Spec

(* A chunk marked acknowledged is stored at the server with this content,  *)
(* although an ack may arrive after the content changed                    *)
(* (SaveHistoryChunk, MarkHistoryChunkAcked of the agent's store).         *)
AckedChunkStored == chunk.acked => chunk.sha \in chunks

(* history.sync.done and a skipped upload mean what they say: an upload    *)
(* that ended well leaves a version at least as new as the scanned one     *)
(* stored once (syncRunHistory, uploadHistoryItems).                       *)
DoneIsStored ==
  \A u \in Uploads : At(u, "done") /\ KindOf[u] = "sync" => up[u].seen <= newest

(* Not satisfied: a cursor equal to the file does not mean that the server *)
(* shows this version.  An older upload may be stored after it and be cut  *)
(* before it saves its own cursor.                                         *)
CursorMeansShown == cursor = file /\ ~(\E u \in Uploads : Running(u)) => Shown = file

(* Not satisfied: refresh_index is acknowledged with "refresh completed"   *)
(* when its upload has timed out.                                          *)
RefreshStores ==
  \A u \in Uploads : Ended(u) /\ KindOf[u] = "command" /\ conn => up[u].seen <= newest
=============================================================================
