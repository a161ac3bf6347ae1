------------------------------ MODULE RunQueue ------------------------------
(***************************************************************************)
(* The control plane of src/api/run_queue.py: RunRegistry, RunQueue and    *)
(* RunCancellation, with the two message/run endpoints that feed them.     *)
(*                                                                         *)
(* Two threads share this state.                                           *)
(*   - The event-loop thread runs every HTTP handler.  The handlers are    *)
(*     "async def" functions without an await, so one handler runs to its  *)
(*     end before the next starts, but the worker runs between any two of  *)
(*     its steps.  hpc / hop / hrun / hmeta are that thread's locals.      *)
(*   - The worker thread runs RunQueue._run_loop.  wpc / wrun / wres are   *)
(*     its locals.                                                         *)
(* One action is one access to shared state: a field of a RunRecord, the   *)
(* token set (its own lock), a registry save (the registry lock), the      *)
(* active run id, the queue, messages.jsonl, session.json.                 *)
(*                                                                         *)
(* MissionsRuntime.run is external to this module: Begin and Body keep     *)
(* only what the queue sees of it, a session status written at each end    *)
(* and a result, an exception, or a stop at a cancellation checkpoint.     *)
(***************************************************************************)
EXTENDS Naturals, Sequences

CONSTANTS Runs,       \* run ids (uuid4 hex, never reused)
          Sessions,   \* session ids
          SessionOf,  \* the session a run is posted to
          NoRun,      \* None
          Outcomes,   \* the results of runtime.run that end a run's record
          MaxBoots    \* bound: how many times the server process is started

ASSUME NoRunAssumption == NoRun \notin Runs
ASSUME SessionOfAssumption == SessionOf \in [Runs -> Sessions]
ASSUME OutcomesAssumption ==
    Outcomes \subseteq {"completed", "partial", "failed", "awaiting_decision"}
ASSUME BootsAssumption == MaxBoots \in Nat \ {0}

Terminal == Outcomes \cup {"error", "cancelled"}
Live     == {"queued", "running"}
Status   == Live \cup Terminal

SessionStatus == Outcomes \cup {"created", "running", "paused"}

\* What messages.jsonl says of a run.  All but "user" is the assistant's.
Lines == {"user", "before_start", "not_active", "by_user", "error", "summary"}

VARIABLES
    server,  \* life of the process: "up", "stopping", "down", "booting"
    boots,   \* how many times it was started
    rec,     \* registry._runs[r].status, "absent" when r is not in memory
    disk,    \* the status in runs/<r>.json, "absent", or "torn"
    tokens,  \* RunCancellation._cancelled
    queue,   \* RunQueue._queue, without the sentinel
    active,  \* RunQueue._active_run_id
    chat,    \* per run, what messages.jsonl says with its run_id
    meta,    \* the status in session.json
    wpc, wrun, wres,        \* worker thread
    hpc, hop, hrun, hmeta   \* event-loop thread

worker  == <<wpc, wrun, wres>>
handler == <<hpc, hop, hrun, hmeta>>
process == <<server, boots>>
registry == <<rec, disk>>
vars == <<server, boots, rec, disk, tokens, queue, active, chat, meta,
          wpc, wrun, wres, hpc, hop, hrun, hmeta>>

WorkerPC == {"loop", "get", "check", "skip", "skip_save", "skip_clear",
             "mark", "mark_save", "set_active", "begin", "body",
             "settle", "settle_set", "cancel_line", "error_line", "summary",
             "final_save", "clear_active", "clear_token", "exited"}
HandlerPC == {"idle", "save_meta", "create", "put", "user_line",
              "request", "read_queued", "read_running", "read_active",
              "cancel_mark", "cancel_save", "cancel_pause", "cancel_line"}

Range(s) == {s[i] : i \in DOMAIN s}
Distinct(s) == \A i, j \in DOMAIN s : s[i] = s[j] => i = j
Say(r, line) == chat' = [chat EXCEPT ![r] = @ \cup {line}]

\* registry.update(rec): under the registry lock, write the record as it is
\* at this moment (to_dict is evaluated inside the lock).
Save(r) == disk' = [disk EXCEPT ![r] = rec[r]]

Init ==
    /\ server = "up"
    /\ boots = 1
    /\ rec = [r \in Runs |-> "absent"]
    /\ disk = [r \in Runs |-> "absent"]
    /\ tokens = {}
    /\ queue = <<>>
    /\ active = NoRun
    /\ chat = [r \in Runs |-> {}]
    /\ meta = [s \in Sessions |-> "created"]
    /\ wpc = "loop" /\ wrun = NoRun /\ wres = "none"
    /\ hpc = "idle" /\ hop = "none" /\ hrun = NoRun /\ hmeta = "created"

-----------------------------------------------------------------------------
(* Event-loop thread: POST /messages and POST /runs.                       *)

Unused(r) == rec[r] = "absent" /\ disk[r] = "absent"
Accepting == server = "up" /\ hpc = "idle"

\* The handler returns: its locals are gone.
Return == hpc' = "idle" /\ hop' = "none" /\ hrun' = NoRun /\ hmeta' = "created"
Step(pc) == hpc' = pc /\ UNCHANGED <<hop, hrun, hmeta>>

\* create_message loads the session (require_session) ...
PostMessage(r) ==
    /\ Accepting
    /\ Unused(r)
    /\ hpc' = "save_meta" /\ hop' = "message" /\ hrun' = r
    /\ hmeta' = meta[SessionOf[r]]
    /\ UNCHANGED <<process, registry, tokens, queue, active, chat, meta, worker>>

\* ... and saves it back whole, with the new chat mode and the status it had
\* when it was loaded; without trigger_run that is all it does to a run.
SaveMeta ==
    /\ hpc = "save_meta"
    /\ meta' = [meta EXCEPT ![SessionOf[hrun]] = hmeta]
    /\ \/ Step("create")
       \/ Return
    /\ UNCHANGED <<process, registry, tokens, queue, active, chat, worker>>

PostRun(r) ==
    /\ Accepting
    /\ Unused(r)
    /\ hpc' = "create" /\ hop' = "run" /\ hrun' = r /\ hmeta' = "created"
    /\ UNCHANGED <<process, registry, tokens, queue, active, chat, meta, worker>>

\* registry.create: the record goes into memory and onto disk under one lock.
Create ==
    /\ hpc = "create"
    /\ rec' = [rec EXCEPT ![hrun] = "queued"]
    /\ disk' = [disk EXCEPT ![hrun] = "queued"]
    /\ Step("put")
    /\ UNCHANGED <<process, tokens, queue, active, chat, meta, worker>>

\* self._queue.put(...), after which POST /runs returns.
Put ==
    /\ hpc = "put"
    /\ queue' = Append(queue, hrun)
    /\ IF hop = "message" THEN Step("user_line") ELSE Return
    /\ UNCHANGED <<process, registry, tokens, active, chat, meta, worker>>

\* create_message appends the user's own line last, with the new run id.
UserLine ==
    /\ hpc = "user_line"
    /\ Say(hrun, "user")
    /\ Return
    /\ UNCHANGED <<process, registry, tokens, queue, active, meta, worker>>

-----------------------------------------------------------------------------
(* Event-loop thread: POST /runs/{rid}/cancel, i.e. RunQueue.cancel.       *)

\* registry.get found the record in memory and its status is not terminal;
\* a terminal one raises CancelNotAllowedError and changes nothing.
Cancel(r) ==
    /\ Accepting
    /\ rec[r] \in Live
    /\ hpc' = "request" /\ hop' = "cancel" /\ hrun' = r /\ hmeta' = "created"
    /\ UNCHANGED <<process, registry, tokens, queue, active, chat, meta, worker>>

CancelRequest ==
    /\ hpc = "request"
    /\ tokens' = tokens \cup {hrun}
    /\ Step("read_queued")
    /\ UNCHANGED <<process, registry, queue, active, chat, meta, worker>>

\* if rec.status == "queued"
CancelReadQueued ==
    /\ hpc = "read_queued"
    /\ IF rec[hrun] = "queued"
       THEN hpc' = "cancel_mark" /\ hop' = "cancel_queued" /\ UNCHANGED <<hrun, hmeta>>
       ELSE Step("read_running")
    /\ UNCHANGED <<process, registry, tokens, queue, active, chat, meta, worker>>

\* elif rec.status == "running" ...
CancelReadRunning ==
    /\ hpc = "read_running"
    /\ IF rec[hrun] = "running" THEN Step("read_active") ELSE Return
    /\ UNCHANGED <<process, registry, tokens, queue, active, chat, meta, worker>>

\* ... and self._active_run_id != run_id, a second read of shared state
CancelReadActive ==
    /\ hpc = "read_active"
    /\ IF active # hrun
       THEN hpc' = "cancel_mark" /\ hop' = "cancel_zombie" /\ UNCHANGED <<hrun, hmeta>>
       ELSE Return
    /\ UNCHANGED <<process, registry, tokens, queue, active, chat, meta, worker>>

\* Mutant: the record is marked and never saved.
CancelMarkUnsaved ==
    /\ hpc = "cancel_mark"
    /\ rec' = [rec EXCEPT ![hrun] = "cancelled"]
    /\ Step("cancel_line")
    /\ UNCHANGED <<process, disk, tokens, queue, active, chat, meta, worker>>

CancelMark ==
    /\ hpc = "cancel_mark"
    /\ rec' = [rec EXCEPT ![hrun] = "cancelled"]
    /\ Step("cancel_save")
    /\ UNCHANGED <<process, disk, tokens, queue, active, chat, meta, worker>>

CancelSave ==
    /\ hpc = "cancel_save"
    /\ Save(hrun)
    /\ Step(IF hop = "cancel_zombie" THEN "cancel_pause" ELSE "cancel_line")
    /\ UNCHANGED <<process, rec, tokens, queue, active, chat, meta, worker>>

\* Only a run taken for a zombie pauses its session.
CancelPause ==
    /\ hpc = "cancel_pause"
    /\ meta' = [meta EXCEPT ![SessionOf[hrun]] = "paused"]
    /\ Step("cancel_line")
    /\ UNCHANGED <<process, registry, tokens, queue, active, chat, worker>>

CancelLine ==
    /\ hpc = "cancel_line"
    /\ Say(hrun, IF hop = "cancel_zombie" THEN "not_active" ELSE "before_start")
    /\ Return
    /\ UNCHANGED <<process, registry, tokens, queue, active, meta, worker>>

-----------------------------------------------------------------------------
(* Event-loop thread: reading back what earlier processes stored.          *)

\* _by_session[s]: always the runs of s that are in memory, since every
\* method that adds to one of the two dicts adds to both.
Index(s) == {r \in Runs : SessionOf[r] = s /\ rec[r] # "absent"}

OnDisk(s) == {r \in Runs : SessionOf[r] = s /\ disk[r] \in Status}

Load(rs) == rec' = [r \in Runs |-> IF r \in rs THEN disk[r] ELSE rec[r]]

\* GET /runs/{rid} of a run that is not in memory loads that one record.
GetRun(r) ==
    /\ Accepting
    /\ rec[r] = "absent" /\ disk[r] \in Status
    /\ Load({r})
    /\ UNCHANGED <<process, disk, tokens, queue, active, chat, meta, worker, handler>>

\* GET /runs: _load_existing skips a file that does not parse.
ListRuns(s) ==
    /\ Accepting
    /\ Index(s) = {} /\ OnDisk(s) # {}
    /\ Load(OnDisk(s))
    /\ UNCHANGED <<process, disk, tokens, queue, active, chat, meta, worker, handler>>

HandlerStep ==
    \/ SaveMeta \/ Create \/ Put \/ UserLine
    \/ CancelRequest \/ CancelReadQueued \/ CancelReadRunning \/ CancelReadActive
    \/ CancelMark \/ CancelSave \/ CancelPause \/ CancelLine

Client ==
    \/ \E r \in Runs : PostMessage(r) \/ PostRun(r) \/ Cancel(r) \/ GetRun(r)
    \/ \E s \in Sessions : ListRuns(s)

-----------------------------------------------------------------------------
(* Worker thread: RunQueue._run_loop and RunQueue._execute.                *)

Running == server \in {"up", "stopping"}
At(pc) == Running /\ wpc = pc
Go(pc) == wpc' = pc /\ UNCHANGED <<wrun, wres>>

\* while not self._shutdown
LoopTest ==
    /\ At("loop")
    /\ Go(IF server = "stopping" THEN "exited" ELSE "get")
    /\ UNCHANGED <<process, registry, tokens, queue, active, chat, meta, handler>>

\* Mutant: the flag is tested again after the get, and the run is dropped.
TakeAndTest ==
    /\ At("get")
    /\ queue # <<>> /\ queue' = Tail(queue)
    /\ IF server = "stopping"
       THEN Go("exited")
       ELSE wpc' = "check" /\ wrun' = Head(queue) /\ wres' = "none"
    /\ UNCHANGED <<process, registry, tokens, active, chat, meta, handler>>

\* Mutant: the queue is a stack (queue.LifoQueue).
TakeNewest ==
    /\ At("get")
    /\ queue # <<>>
    /\ queue' = SubSeq(queue, 1, Len(queue) - 1)
    /\ wpc' = "check" /\ wrun' = queue[Len(queue)] /\ wres' = "none"
    /\ UNCHANGED <<process, registry, tokens, active, chat, meta, handler>>

\* self._queue.get(): the oldest run, or the sentinel, which shutdown put
\* behind every run and nothing follows.
Take ==
    /\ At("get")
    /\ \/ /\ queue # <<>>
          /\ wpc' = "check" /\ wrun' = Head(queue) /\ wres' = "none"
          /\ queue' = Tail(queue)
       \/ /\ queue = <<>> /\ server = "stopping"
          /\ Go("exited")
          /\ UNCHANGED queue
    /\ UNCHANGED <<process, registry, tokens, active, chat, meta, handler>>

\* if self._cancellation.is_cancelled(rec.run_id), before anything ran
CheckToken ==
    /\ At("check")
    /\ Go(IF wrun \in tokens THEN "skip" ELSE "mark")
    /\ UNCHANGED <<process, registry, tokens, queue, active, chat, meta, handler>>

Skip ==
    /\ At("skip")
    /\ rec' = [rec EXCEPT ![wrun] = "cancelled"]
    /\ Go("skip_save")
    /\ UNCHANGED <<process, disk, tokens, queue, active, chat, meta, handler>>

\* rec.status = "running"
Mark ==
    /\ At("mark")
    /\ rec' = [rec EXCEPT ![wrun] = "running"]
    /\ Go("mark_save")
    /\ UNCHANGED <<process, disk, tokens, queue, active, chat, meta, handler>>

\* The three registry.update calls of _execute.
WorkerSave ==
    /\ \/ At("skip_save") /\ Go("skip_clear")
       \/ At("mark_save") /\ Go("set_active")
       \/ At("final_save") /\ Go("clear_active")
    /\ Save(wrun)
    /\ UNCHANGED <<process, rec, tokens, queue, active, chat, meta, handler>>

SetActive ==
    /\ At("set_active")
    /\ active' = wrun
    /\ Go("begin")
    /\ UNCHANGED <<process, registry, tokens, queue, chat, meta, handler>>

\* load_session, the workspace lock (uncontended: there is one worker) and
\* the start of runtime.run, which writes "running" into session.json.
Begin ==
    /\ At("begin")
    /\ meta' = [meta EXCEPT ![SessionOf[wrun]] = "running"]
    /\ Go("body")
    /\ UNCHANGED <<process, registry, tokens, queue, active, chat, handler>>

\* The status runtime.run may leave in session.json with result o: an Ask
\* run completes and pauses; a run whose planning failed returns without a
\* last update_status.
MetaAfter(o, old) ==
    CASE o = "completed" -> {"completed", "paused"}
      [] o = "failed"    -> {"failed", old}
      [] o = "cancelled" -> {"paused"}
      [] OTHER           -> {o}

\* runtime.run returns; it may miss a token set after its last checkpoint,
\* and reports "cancelled" only if a checkpoint saw the token.
Body ==
    /\ At("body")
    /\ \E o \in Outcomes \cup {"cancelled"} :
         /\ o = "cancelled" => wrun \in tokens
         /\ \E m \in MetaAfter(o, meta[SessionOf[wrun]]) :
              meta' = [meta EXCEPT ![SessionOf[wrun]] = m]
         /\ wpc' = "settle" /\ wres' = o /\ UNCHANGED wrun
    /\ UNCHANGED <<process, registry, tokens, queue, active, chat, handler>>

\* Mutant: no "except Exception": the worker thread dies.
RaiseKillsWorker ==
    /\ At("begin") \/ At("body")
    /\ wpc' = "exited" /\ wrun' = NoRun /\ wres' = "none"
    /\ UNCHANGED <<process, registry, tokens, queue, active, chat, meta, handler>>

\* Mutant: an exception skips the assistant's line.
RaiseSilently ==
    /\ At("begin") \/ At("body")
    /\ rec' = [rec EXCEPT ![wrun] = "error"]
    /\ Go("final_save")
    /\ UNCHANGED <<process, disk, tokens, queue, active, chat, meta, handler>>

\* Any exception out of the try block: rec.status = "error".
Raise ==
    /\ At("begin") \/ At("body")
    /\ rec' = [rec EXCEPT ![wrun] = "error"]
    /\ Go("error_line")
    /\ UNCHANGED <<process, disk, tokens, queue, active, chat, meta, handler>>

\* Mutant: only the result's status is tested, not the token.
SettleByResult ==
    /\ At("settle")
    /\ Go("settle_set")
    /\ UNCHANGED <<process, registry, tokens, queue, active, chat, meta, handler>>

\* if result.status == "cancelled" or self._cancellation.is_cancelled(...)
Settle ==
    /\ At("settle")
    /\ wpc' = "settle_set"
    /\ wres' = IF wrun \in tokens THEN "cancelled" ELSE wres
    /\ UNCHANGED <<process, registry, tokens, queue, active, chat, meta, wrun, handler>>

SettleSet ==
    /\ At("settle_set")
    /\ rec' = [rec EXCEPT ![wrun] = wres]
    /\ Go(IF wres = "cancelled" THEN "cancel_line" ELSE "summary")
    /\ UNCHANGED <<process, disk, tokens, queue, active, chat, meta, handler>>

\* The assistant's line about the run: one for a cancelled run, one for an
\* error, and otherwise the recap, which "finally" writes unless the status
\* it reads there has become "cancelled".
WorkerLine ==
    /\ \/ At("cancel_line") /\ Say(wrun, "by_user")
       \/ At("error_line") /\ Say(wrun, "error")
       \/ /\ At("summary")
          /\ IF rec[wrun] = "cancelled" THEN UNCHANGED chat ELSE Say(wrun, "summary")
    /\ Go("final_save")
    /\ UNCHANGED <<process, registry, tokens, queue, active, meta, handler>>

ClearActive ==
    /\ At("clear_active")
    /\ active' = NoRun
    /\ Go("clear_token")
    /\ UNCHANGED <<process, registry, tokens, queue, chat, meta, handler>>

\* self._cancellation.clear(rec.run_id), last on both paths of _execute
ClearToken ==
    /\ At("skip_clear") \/ At("clear_token")
    /\ tokens' = tokens \ {wrun}
    /\ wpc' = "loop" /\ wrun' = NoRun /\ wres' = "none"
    /\ UNCHANGED <<process, registry, queue, active, chat, meta, handler>>

Worker ==
    \/ LoopTest \/ Take \/ CheckToken \/ Skip \/ Mark \/ WorkerSave \/ SetActive
    \/ Begin \/ Body \/ Raise \/ Settle \/ SettleSet \/ WorkerLine
    \/ ClearActive \/ ClearToken

-----------------------------------------------------------------------------
(* The server process.                                                     *)

\* The end of the FastAPI lifespan: no handler is running and none starts
\* again; the worker is told to stop but is not waited for.
Shutdown ==
    /\ Accepting
    /\ boots < MaxBoots
    /\ server' = "stopping"
    /\ UNCHANGED <<boots, registry, tokens, queue, active, chat, meta, worker, handler>>

\* Runs whose file is being written: Path.write_text truncates first.
BeingWritten ==
    {r \in Runs : \/ hpc \in {"create", "cancel_save"} /\ hrun = r
                  \/ wpc \in {"skip_save", "mark_save", "final_save"} /\ wrun = r}

\* The process ends, at any moment or after Shutdown: all memory is lost
\* (the worker is a daemon thread) and a write in progress is cut short.
Exit ==
    /\ Running
    /\ server = "stopping" \/ boots < MaxBoots
    /\ server' = "down"
    /\ \E torn \in SUBSET BeingWritten :
         disk' = [r \in Runs |-> IF r \in torn THEN "torn" ELSE disk[r]]
    /\ rec' = [r \in Runs |-> "absent"]
    /\ tokens' = {} /\ queue' = <<>> /\ active' = NoRun
    /\ wpc' = "loop" /\ wrun' = NoRun /\ wres' = "none"
    /\ Return
    /\ UNCHANGED <<boots, chat, meta>>

Start ==
    /\ server = "down"
    /\ server' = "booting"
    /\ boots' = boots + 1
    /\ UNCHANGED <<registry, tokens, queue, active, chat, meta, worker, handler>>

\* reconcile_stale_runs, one record at a time ...
ReconcileRun(r) ==
    /\ server = "booting"
    /\ disk[r] \in Live
    /\ rec' = [rec EXCEPT ![r] = "cancelled"]
    /\ disk' = [disk EXCEPT ![r] = "cancelled"]
    /\ UNCHANGED <<process, tokens, queue, active, chat, meta, worker, handler>>

\* Mutant: only "running" counts as stale.
StaleRunning(s) == \E r \in Runs : SessionOf[r] = s /\ disk[r] = "running"

Stale(s) == \E r \in Runs : SessionOf[r] = s /\ disk[r] \in Live

\* Mutant: the session gets the status of its runs.
ReconcileSessionAsRun(s) ==
    /\ server = "booting"
    /\ ~Stale(s)
    /\ meta[s] = "running"
    /\ meta' = [meta EXCEPT ![s] = "cancelled"]
    /\ UNCHANGED <<process, registry, tokens, queue, active, chat, worker, handler>>

\* ... and after the runs of a session, the session itself.
ReconcileSession(s) ==
    /\ server = "booting"
    /\ ~Stale(s)
    /\ meta[s] = "running"
    /\ meta' = [meta EXCEPT ![s] = "paused"]
    /\ UNCHANGED <<process, registry, tokens, queue, active, chat, worker, handler>>

\* The constructor then starts the worker thread and the server listens.
Listen ==
    /\ server = "booting"
    /\ \A s \in Sessions : ~Stale(s) /\ meta[s] # "running"
    /\ server' = "up"
    /\ UNCHANGED <<boots, registry, tokens, queue, active, chat, meta, worker, handler>>

\* A crash while the constructor reconciles.
ExitBooting ==
    /\ server = "booting"
    /\ boots < MaxBoots
    /\ server' = "down"
    /\ \E torn \in SUBSET {r \in Runs : disk[r] \in Live} :
         disk' = [r \in Runs |-> IF r \in torn THEN "torn" ELSE disk[r]]
    /\ rec' = [r \in Runs |-> "absent"]
    /\ UNCHANGED <<boots, tokens, queue, active, chat, meta, worker, handler>>

Boot ==
    \/ Start \/ Listen
    \/ \E r \in Runs : ReconcileRun(r)
    \/ \E s \in Sessions : ReconcileSession(s)

Process == Shutdown \/ Exit \/ ExitBooting \/ Boot

Next == Client \/ HandlerStep \/ Worker \/ Process

Spec == Init /\ [][Next]_vars

(***************************************************************************)
(* Both threads keep running while the process lives: the interpreter      *)
(* schedules them, runtime.run returns (its loops have budgets and its LLM *)
(* calls time out), a process that was told to stop ends, and somebody     *)
(* starts it again.  No client request is promised.                        *)
(***************************************************************************)
Fairness ==
    /\ WF_vars(Worker)
    /\ WF_vars(HandlerStep)
    /\ WF_vars(Boot)
    /\ WF_vars(server = "stopping" /\ Exit)

FairSpec == Spec /\ Fairness

-----------------------------------------------------------------------------
(* Properties.                                                             *)

TypeOK ==
    /\ server \in {"up", "stopping", "down", "booting"}
    /\ boots \in 1..MaxBoots
    /\ rec \in [Runs -> Status \cup {"absent"}]
    /\ disk \in [Runs -> Status \cup {"absent", "torn"}]
    /\ tokens \subseteq Runs
    /\ queue \in Seq(Runs)
    /\ active \in Runs \cup {NoRun}
    /\ chat \in [Runs -> SUBSET Lines]
    /\ meta \in [Sessions -> SessionStatus]
    /\ wpc \in WorkerPC
    /\ wrun \in Runs \cup {NoRun}
    /\ wres \in Outcomes \cup {"cancelled", "none"}
    /\ hpc \in HandlerPC
    /\ hop \in {"none", "message", "run", "cancel", "cancel_queued", "cancel_zombie"}
    /\ hrun \in Runs \cup {NoRun}
    /\ hmeta \in SessionStatus

Deciding  == {"check", "skip", "mark"}
Executing == WorkerPC \ (Deciding \cup {"loop", "get", "skip_save", "skip_clear", "exited"})

\* A run a client sees as queued is still on its way to the worker: being
\* put, in the queue, or in the worker's hand before its first write.
NoLostRun ==
    \A r \in Runs : rec[r] = "queued" =>
        \/ hpc = "put" /\ hrun = r
        \/ r \in Range(queue)
        \/ wpc \in Deciding /\ wrun = r

\* A run a client sees as running is the one the worker is executing,
\* whatever was cancelled, reloaded or restarted before.
RunningIsExecuting ==
    \A r \in Runs : rec[r] = "running" => wpc \in Executing /\ wrun = r

\* A run cancelled while it waited keeps its token until the worker has
\* seen it: the token, not the status, is what stops the worker.
CancelledStaysBlocked ==
    \A r \in Runs :
        rec[r] = "cancelled" /\ (r \in Range(queue) \/ (wpc = "check" /\ wrun = r))
            => r \in tokens

\* Memory and disk disagree about a run only while a thread that changed
\* the record has still to save it: two racing writers never leave a stale
\* file behind.
PersistedOrPending ==
    \A r \in Runs : rec[r] \notin {"absent", disk[r]} =>
        \/ hpc = "cancel_save" /\ hrun = r
        \/ /\ wrun = r
           /\ wpc \in {"skip_save", "mark_save", "cancel_line", "error_line",
                       "summary", "final_save"}

\* Once the server listens, a file that says queued or running belongs to a
\* run this process knows: reconciliation left none from an earlier one.
NoOrphanOnDisk ==
    Running => \A r \in Runs : disk[r] \in Live => rec[r] # "absent"

\* "Run cancelled before it started." is never said of a run that gets a
\* result, even when the worker had already passed its first check.
CancelReceiptHolds ==
    \A r \in Runs : "before_start" \in chat[r] =>
        rec[r] \notin Outcomes /\ disk[r] \notin Outcomes /\ "summary" \notin chat[r]

Safety ==
    /\ NoLostRun /\ RunningIsExecuting /\ CancelledStaysBlocked
    /\ PersistedOrPending /\ NoOrphanOnDisk /\ CancelReceiptHolds

-----------------------------------------------------------------------------
(* The strengthening of Safety that every step preserves.                  *)

Idle     == {"loop", "get", "exited"}
Over     == {"skip_save", "skip_clear", "cancel_line", "error_line", "summary",
             "final_save", "clear_active", "clear_token"}
Accepted == {"save_meta", "create", "put"}
Revoking == {"read_queued", "read_running", "read_active", "cancel_mark"}
Settling == {"request", "cancel_save", "cancel_pause", "cancel_line"} \cup Revoking

\* What the locals of the two threads, and the life of the process, say of
\* each other.
ControlInv ==
    /\ IF hpc = "idle" THEN hrun = NoRun /\ hop = "none" ELSE hrun \in Runs
    /\ IF wpc \in Idle THEN wrun = NoRun ELSE wrun \in Runs
    /\ hpc \in {"cancel_mark", "cancel_save", "cancel_pause", "cancel_line"} =>
         hop \in {"cancel_queued", "cancel_zombie"}
    /\ wpc = "skip" => wrun \in tokens
    /\ wpc \in {"settle", "settle_set"} => wres # "none"
    /\ server # "up" => hpc = "idle"
    /\ server \in {"stopping", "down"} => boots < MaxBoots
    /\ server \in {"down", "booting"} => queue = <<>> /\ tokens = {} /\ wpc = "loop"

\* A run is in one place at a time: on its way in, in the queue, or in the
\* worker's hand.
QueueInv ==
    /\ Distinct(queue)
    /\ \A r \in Range(queue) : rec[r] \in {"queued", "cancelled"} /\ wrun # r
    /\ hpc \in Accepted =>
         /\ hrun \notin Range(queue) \cup tokens /\ wrun # hrun /\ chat[hrun] = {}
         /\ IF hpc = "put" THEN rec[hrun] = "queued" ELSE Unused(hrun)

\* What the record says, by where the worker is with it.
RecordInv ==
    /\ wpc \notin Idle => rec[wrun] # "absent"
    /\ wpc \in Deciding => rec[wrun] \in {"queued", "cancelled"}
    /\ wpc \notin Idle \cup Deciding => rec[wrun] # "queued"
    /\ wpc \in Over => rec[wrun] \in Terminal
    /\ hpc \in Settling => rec[hrun] # "absent"
    /\ \A r \in Runs :
         rec[r] # "absent" \/ chat[r] # {} \/ r \in tokens => disk[r] # "absent"
    /\ hpc = "user_line" => disk[hrun] # "absent"
    /\ server = "down" => \A r \in Runs : rec[r] = "absent"
    /\ server = "booting" =>
         \A r \in Runs : rec[r] \in {"absent", "cancelled"} /\ rec[r] \in {"absent", disk[r]}

\* A client has been, or is about to be, told that r never started.
Promised(r) == "before_start" \in chat[r] \/ (hrun = r /\ hop = "cancel_queued")

PromiseInv ==
    /\ hpc \in Revoking => (hrun \in Range(queue) \cup {wrun} => hrun \in tokens)
    /\ \A r \in Runs : "summary" \in chat[r] => rec[r] # "queued"
    /\ \A r \in Runs : Promised(r) =>
         /\ rec[r] \notin Outcomes /\ disk[r] \notin Outcomes
         /\ "summary" \notin chat[r]
         /\ disk[r] # "absent"
         /\ r \in Range(queue) \cup {wrun} => r \in tokens
         /\ wrun = r => wpc # "summary" /\ (wpc = "settle_set" => wres = "cancelled")

IInv == TypeOK /\ Safety /\ ControlInv /\ QueueInv /\ RecordInv /\ PromiseInv

-----------------------------------------------------------------------------
\* Whatever is queued on disk is settled on disk one day, by the worker or
\* by the reconciliation of a later process, unless its file was cut short.
EventuallySettled ==
    \A r \in Runs : disk[r] = "queued" ~> disk[r] \in Terminal \cup {"torn"}

\* A run whose execution began gets an assistant line, from the worker or
\* from whoever cancelled it, unless the process ends first.
EveryExecutedRunIsAnswered ==
    \A r \in Runs :
        wpc = "body" /\ wrun = r
            ~> server # "up" \/ chat[r] \cap (Lines \ {"user"}) # {}

\* The queue, the token set and the statuses implement a serial executor.
Pending == IF wpc \in {"check", "skip"} THEN <<wrun>> \o queue ELSE queue
Current == IF wpc \in Executing \cup {"mark"} THEN wrun ELSE NoRun
Gone == {r \in Runs : /\ disk[r] # "absent"
                      /\ r \notin Range(Pending) \cup {Current}
                      /\ ~(hpc = "put" /\ hrun = r)}

Executor == INSTANCE SerialExecutor WITH
    Jobs <- Runs, None <- NoRun,
    waiting <- Pending,
    asked <- Range(Pending) \cap tokens,
    told <- {r \in Range(Pending) : rec[r] = "cancelled"},
    current <- Current,
    retired <- Gone

ImplementsSerialExecutor == Executor!Spec

=============================================================================
