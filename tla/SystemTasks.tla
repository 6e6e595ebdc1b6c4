---------------------------- MODULE SystemTasks ----------------------------
(***************************************************************************)
(* One of the background tasks: its row in system_tasks, its job in the    *)
(* scheduler of the process, and its runs, which the scheduler or an admin *)
(* starts.  Tasks share nothing but the process, whose end takes all of    *)
(* its runs and jobs with it.                                              *)
(*                                                                         *)
(* A run marks the row RUNNING, does its work, and records the result,     *)
(* each in a transaction of its own.  Left out: the interval, which goes   *)
(* from the row to the job as enabled does, and run_count and the log,     *)
(* which are written with the result.                                      *)
(***************************************************************************)
EXTENDS Integers

CONSTANTS
    Run,            \* runs that can be in flight
    Handler,        \* requests of admins that change the task
    MaxWarnings,    \* where the number of warnings stops
    MaxFaults       \* bound on ends of the process and failed commits

ASSUME TasksAssumption == MaxWarnings \in Nat \ {0, 1} /\ MaxFaults \in Nat

\* Two more tasks are like tmdb_sync without the settings page.
Key == {"tmdb_sync", "tmdb_cache_persist", "subscription_expiry_warning"}
LOCKED_ENABLED_TASK_KEYS == {"tmdb_cache_persist"}
Status == {"IDLE", "RUNNING", "SUCCESS", "FAILED"}

VARIABLES
    key,            \* which task this is
    enabled, last_status,   \* columns of its row
    job,            \* whether the scheduler has a job for it
    warnings,       \* notifications about one subscription that ends soon
    up,             \* whether the process runs
    run, handler,   \* what each run and each admin's request has read
    faults,         \* history: faults so far
    died,           \* history: a run ended without recording its result
    overlapped,     \* history: runs of the task overlapped
    mixed           \* history: the settings page overlapped with a change of the task

vars == <<key, enabled, last_status, job, warnings, up, run, handler,
          faults, died, overlapped, mixed>>

columns == <<key, enabled>>
history == <<faults, died, overlapped, mixed>>

Phase   == {"none", "begin", "look", "work", "reload", "record"}
Running == [pc : Phase, by : {"none", "scheduler", "admin"}, same : BOOLEAN, seen : BOOLEAN,
            result : {"none", "SUCCESS", "FAILED"}]
Asked   == [op : {"none", "update", "refresh", "settings"}, enabled : BOOLEAN, same : BOOLEAN]

NoRun     == [pc |-> "none", by |-> "none", same |-> FALSE, seen |-> FALSE, result |-> "none"]
NoRequest == [op |-> "none", enabled |-> FALSE, same |-> FALSE]

Alive   == {r \in Run : run[r] # NoRun}
Changes == {h \in Handler : handler[h] # NoRequest}

\* The unit of work sends a column only if it differs from what the session
\* has loaded; same says that it does not.
Written(same, new, row) == IF same THEN row ELSE new

-----------------------------------------------------------------------------
(* Runs *)

Step(r, pc) == /\ up
               /\ run[r].pc = pc
Unchanged   == UNCHANGED <<job, up, handler, faults, overlapped, mixed>> /\ UNCHANGED columns

Launch(r, by) ==
    /\ up /\ run[r] = NoRun
    /\ run' = [run EXCEPT ![r] = [NoRun EXCEPT !.pc = "begin", !.by = by,
                                          !.same = last_status = "RUNNING"]]
    /\ overlapped' = (overlapped \/ Alive # {})
    /\ UNCHANGED <<last_status, job, warnings, up, handler, faults, died, mixed>>
    /\ UNCHANGED columns

\* The scheduler has at most one instance of a job, also when the job was
\* replaced; it knows nothing of the runs that admins start.
Fire(r) ==
    /\ job
    /\ \A s \in Alive : run[s].by # "scheduler"
    /\ Launch(r, "scheduler")

RunNow(r) == Launch(r, "admin")

Mark(r) ==
    /\ Step(r, "begin")
    /\ last_status' = Written(run[r].same, "RUNNING", last_status)
    /\ run' = [run EXCEPT ![r].pc = "look", ![r].same = FALSE]
    /\ UNCHANGED <<warnings, died>> /\ Unchanged

\* _run_subscription_expiry_warning looks whether it has warned already;
\* the other handlers have nothing to look for.
Look(r) ==
    /\ Step(r, "look")
    /\ run' = [run EXCEPT ![r].pc = "work",
                  ![r].seen = key = "subscription_expiry_warning" /\ warnings > 0]
    /\ UNCHANGED <<last_status, warnings, died>> /\ Unchanged

\* Faulty: the user is warned in every run.
WarnAgain(r) == key = "subscription_expiry_warning"

Warns(r) == key = "subscription_expiry_warning" /\ ~run[r].seen

\* Handlers commit their work at their end.
Work(r) ==
    /\ Step(r, "work")
    /\ warnings' = IF Warns(r) /\ warnings < MaxWarnings THEN warnings + 1 ELSE warnings
    /\ run' = [run EXCEPT ![r].pc = "reload", ![r].seen = FALSE, ![r].result = "SUCCESS"]
    /\ UNCHANGED <<last_status, died>> /\ Unchanged

\* Faulty: an exception of the handler leaves run_task.
FailSilently(r) ==
    /\ \E pc \in {"look", "work"} : Step(r, pc)
    /\ run' = [run EXCEPT ![r] = NoRun]
    /\ UNCHANGED <<last_status, warnings, died>> /\ Unchanged

Fail(r) ==
    /\ \E pc \in {"look", "work"} : Step(r, pc)
    /\ run' = [run EXCEPT ![r].pc = "reload", ![r].seen = FALSE, ![r].result = "FAILED"]
    /\ UNCHANGED <<last_status, warnings, died>> /\ Unchanged

\* The row is read again ...
Reload(r) ==
    /\ Step(r, "reload")
    /\ run' = [run EXCEPT ![r].pc = "record", ![r].same = last_status = run[r].result]
    /\ UNCHANGED <<last_status, warnings, died>> /\ Unchanged

\* ... and written with the result.
Record(r) ==
    /\ Step(r, "record")
    /\ last_status' = Written(run[r].same, run[r].result, last_status)
    /\ died' = (died /\ last_status' = "RUNNING")
    /\ run' = [run EXCEPT ![r] = NoRun]
    /\ UNCHANGED warnings /\ Unchanged

-----------------------------------------------------------------------------
(* Faults *)

Fault == faults < MaxFaults /\ faults' = faults + 1

\* A commit of run_task fails, for instance because the message is longer
\* than its column.
Break(r) ==
    /\ \E pc \in {"begin", "record"} : Step(r, pc)
    /\ Fault
    /\ run' = [run EXCEPT ![r] = NoRun]
    /\ died' = TRUE
    /\ UNCHANGED <<last_status, warnings, job, up, handler, overlapped, mixed>>
    /\ UNCHANGED columns

\* The process ends; shutdown_scheduler does not wait for runs.
Stop ==
    /\ up /\ Fault
    /\ up' = FALSE
    /\ run' = [r \in Run |-> NoRun]
    /\ handler' = [h \in Handler |-> NoRequest]
    /\ job' = FALSE
    /\ died' = (died \/ Alive # {})
    /\ UNCHANGED <<last_status, warnings, overlapped, mixed>>
    /\ UNCHANGED columns

\* ensure_default_tasks and start_scheduler, which gives up after three
\* attempts: the process is then started anew.
Start ==
    /\ ~up /\ up' = TRUE
    /\ enabled' = (enabled \/ key \in LOCKED_ENABLED_TASK_KEYS)
    /\ job' = enabled'
    /\ mixed' = FALSE
    /\ UNCHANGED <<key, last_status, warnings, run, handler,
                   faults, died, overlapped>>

-----------------------------------------------------------------------------
(* Changes by admins *)

Request(h, op, on) ==
    /\ up /\ handler[h] = NoRequest
    /\ handler' = [handler EXCEPT ![h] = [op |-> op, enabled |-> on, same |-> on = enabled]]
    /\ mixed' = (mixed \/ \E g \in Changes : "settings" \in {op, handler[g].op})
    /\ UNCHANGED <<last_status, job, warnings, up, run, faults, died, overlapped>>
    /\ UNCHANGED columns

UpdateTask(h, on) == Request(h, "update", on \/ key \in LOCKED_ENABLED_TASK_KEYS)

\* update_settings with another tmdb_warmup_enabled
UpdateSettings(h, on) == key = "tmdb_sync" /\ Request(h, "settings", on)

SetRow(v) ==
    /\ enabled' = Written(v.same, v.enabled, enabled)
    /\ UNCHANGED <<key, last_status, warnings, up, run>>
    /\ UNCHANGED history

Commit(h) ==
    /\ handler[h].op = "update"
    /\ SetRow(handler[h])
    /\ handler' = [handler EXCEPT ![h].op = "refresh", ![h].same = FALSE]
    /\ UNCHANGED job

\* refresh_schedule removes the job and adds one if the task is enabled.
Schedule(h, on) ==
    /\ job' = on
    /\ handler' = [handler EXCEPT ![h] = NoRequest]

\* Faulty: the task is scheduled as the request asked.
RescheduleAsAsked(h) ==
    /\ handler[h].op = "refresh"
    /\ Schedule(h, handler[h].enabled)
    /\ UNCHANGED <<last_status, warnings, up, run>>
    /\ UNCHANGED columns /\ UNCHANGED history

\* update_task reads the row again before it schedules the task; nothing is
\* awaited in between.
Reschedule(h) ==
    /\ handler[h].op = "refresh"
    /\ Schedule(h, enabled)
    /\ UNCHANGED <<last_status, warnings, up, run>>
    /\ UNCHANGED columns /\ UNCHANGED history

\* update_settings schedules what it holds as soon as it has committed.
CommitSettings(h) ==
    /\ handler[h].op = "settings"
    /\ SetRow(handler[h])
    /\ Schedule(h, handler[h].enabled)

-----------------------------------------------------------------------------
(* The row may come from an older version, with any setting. *)
Init ==
    /\ key \in Key
    /\ enabled \in BOOLEAN
    /\ last_status = "IDLE"
    /\ job = FALSE /\ warnings = 0 /\ up = FALSE
    /\ run = [r \in Run |-> NoRun]
    /\ handler = [h \in Handler |-> NoRequest]
    /\ faults = 0 /\ died = FALSE /\ overlapped = FALSE /\ mixed = FALSE

Proceed(r) == Mark(r) \/ Look(r) \/ Work(r) \/ Fail(r) \/ Reload(r) \/ Record(r)

Change(h) ==
    \/ \E on \in BOOLEAN : UpdateTask(h, on) \/ UpdateSettings(h, on)
    \/ Commit(h) \/ Reschedule(h) \/ CommitSettings(h)

Next ==
    \/ \E r \in Run : Fire(r) \/ RunNow(r) \/ Proceed(r) \/ Break(r)
    \/ \E h \in Handler : Change(h)
    \/ Stop \/ Start

Spec == Init /\ [][Next]_vars

\* The trigger fires, runs and requests go on (every remote call of a handler
\* has a timeout), and the container starts the process again.
Fairness ==
    /\ WF_vars(Start)
    /\ SF_vars(\E r \in Run : Fire(r))
    /\ \A r \in Run : WF_vars(Proceed(r))
    /\ \A h \in Handler : WF_vars(Commit(h) \/ Reschedule(h) \/ CommitSettings(h))

FairSpec == Spec /\ Fairness

-----------------------------------------------------------------------------
(* Properties *)

\* Columns and views are in range, and a run has a result when it is recorded.
TypeOK ==
    /\ key \in Key
    /\ last_status \in Status
    /\ warnings \in 0 .. MaxWarnings /\ faults \in 0 .. MaxFaults
    /\ enabled \in BOOLEAN /\ job \in BOOLEAN /\ up \in BOOLEAN
    /\ died \in BOOLEAN /\ overlapped \in BOOLEAN /\ mixed \in BOOLEAN
    /\ run \in [Run -> Running] /\ handler \in [Handler -> Asked]
    /\ \A r \in Alive :
           /\ up /\ run[r].pc # "none"
           /\ run[r].result = "none" <=> run[r].pc \notin {"reload", "record"}
    /\ \A h \in Changes : up /\ handler[h].op # "none"

\* When no change is in flight, the task is scheduled as its row says, however
\* changes by update_task overlapped (admin_tasks.py); the settings page is
\* excepted when it overlaps with another change.
ScheduleFollowsRow ==
    up /\ Changes = {} /\ ~mixed => job = enabled

\* A row is RUNNING only if a run is in flight or one ended without recording
\* its result, however runs overlap (run_task).
RunningIsAlive == last_status = "RUNNING" => Alive # {} \/ died

\* Unless runs of the task overlap, a user is warned once of the end of a
\* subscription, whenever runs fail and the process ends.
WarnedOnce == ~overlapped => warnings <= 1

\* A run that is about to record its result will also write it: the row is not
\* as it was read.  So a row is RUNNING only if such a run is in flight.
RunningIsOwed ==
    last_status = "RUNNING" => died \/ \E r \in Alive : run[r].pc = "record" => ~run[r].same

\* Without overlaps one run is in flight, and it warns only if nobody was warned.
WarningIsNew ==
    ~overlapped =>
        /\ \A r, s \in Alive : r = s
        /\ \A r \in Alive : run[r].pc = "work" /\ Warns(r) => warnings = 0

\* Whoever commits a change schedules the task after it; the settings page,
\* when nothing else changes the task, still has what it has read.
ChangesAreScheduled ==
    up /\ ~mixed =>
        /\ job = enabled \/ \E h \in Changes : handler[h].op = "refresh"
        /\ \A h \in Changes : handler[h].op = "settings" =>
               Changes = {h} /\ (handler[h].same => handler[h].enabled = enabled)

\* The inductive invariant.
TasksInvariant ==
    /\ TypeOK /\ RunningIsAlive /\ RunningIsOwed
    /\ WarnedOnce /\ WarningIsNew
    /\ ScheduleFollowsRow /\ ChangesAreScheduled

\* A task that stays enabled does not stay RUNNING: what a dead run left
\* behind ends with the next run that records its result (with the exception
\* of ScheduleFollowsRow).
RunningEnds == <>[](enabled /\ ~mixed) => []<>(last_status # "RUNNING")

=============================================================================
