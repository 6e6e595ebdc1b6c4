------------------------- MODULE SystemTasksProofs -------------------------
(***************************************************************************)
(* The task, its job and its row for any number of runs and of changes by  *)
(* admins in flight: a RUNNING row is being worked on or was left behind   *)
(* by a fault, the scheduler follows the row, and users are warned once.   *)
(***************************************************************************)
EXTENDS SystemTasks, TLAPS

LEMMA NothingInFlight ==
    /\ NoRun \in Running /\ NoRun.pc = "none" /\ NoRun.result = "none"
    /\ NoRequest \in Asked /\ NoRequest.op = "none"
BY DEF NoRun, Running, Phase, NoRequest, Asked

LEMMA InitTasks == Init => TasksInvariant
<1> SUFFICES ASSUME Init PROVE TasksInvariant
    OBVIOUS
<1>1. Alive = {} /\ Changes = {}
    BY DEF Init, Alive, Changes
<1>2. warnings \in 0 .. MaxWarnings /\ faults \in 0 .. MaxFaults
    BY TasksAssumption DEF Init
<1>3. TypeOK
    <2>1. key \in Key /\ last_status \in Status
        BY DEF Init, Status
    <2>2. /\ enabled \in BOOLEAN /\ job \in BOOLEAN /\ up \in BOOLEAN
          /\ died \in BOOLEAN /\ overlapped \in BOOLEAN /\ mixed \in BOOLEAN
        BY DEF Init
    <2>3. run \in [Run -> Running] /\ handler \in [Handler -> Asked]
        BY NothingInFlight DEF Init
    <2> QED BY <1>1, <1>2, <2>1, <2>2, <2>3 DEF TypeOK
<1> QED BY <1>1, <1>3 DEF Init, TasksInvariant, RunningIsAlive, RunningIsOwed, WarnedOnce,
           WarningIsNew, ScheduleFollowsRow, ChangesAreScheduled

-----------------------------------------------------------------------------
(* Runs.  The schedule is none of their business.                          *)

\* What the row and the runs must satisfy, and what the schedule must.
RunsAreRight == RunningIsAlive /\ RunningIsOwed /\ WarnedOnce /\ WarningIsNew
ScheduleIsRight == ScheduleFollowsRow /\ ChangesAreScheduled

LEMMA ScheduleUntouched ==
    ASSUME TasksInvariant, UNCHANGED <<enabled, job, up, handler, mixed>>
    PROVE  ScheduleIsRight'
BY DEF TasksInvariant, ScheduleIsRight, ScheduleFollowsRow, ChangesAreScheduled, Changes

LEMMA RunsUntouched ==
    ASSUME TasksInvariant, UNCHANGED <<key, last_status, warnings, run, died, overlapped>>
    PROVE  RunsAreRight'
BY DEF TasksInvariant, RunsAreRight, RunningIsAlive, RunningIsOwed, WarnedOnce, WarningIsNew,
       Alive, Warns

LEMMA AliveFacts ==
    ASSUME TypeOK
    PROVE  /\ Alive = {r \in Run : run[r].pc # "none"}
           /\ \A r \in Alive : r \in Run /\ run[r] \in Running
           /\ (\E r \in Run : run[r].pc # "none") => up
BY NothingInFlight DEF TypeOK, Alive

\* One run goes from one phase to another.
LEMMA RunAdvances ==
    ASSUME TasksInvariant, NEW r \in Alive, NEW new \in Running, new.pc # "none",
           new.result = "none" <=> new.pc \notin {"reload", "record"},
           run' = [run EXCEPT ![r] = new], Unchanged,
           last_status' \in Status, warnings' \in 0 .. MaxWarnings, died' = died,
           \/ last_status' = last_status
           \/ last_status' = "RUNNING" /\ new.pc # "record",
           new.pc = "record" /\ new.same => last_status # "RUNNING",
           warnings' = warnings \/ (~overlapped => warnings' <= 1 /\ warnings' = warnings + 1),
           ~overlapped /\ new.pc = "work" /\ key = "subscription_expiry_warning" /\ ~new.seen
               => warnings' = 0
    PROVE  TasksInvariant'
<1>1. /\ run \in [Run -> Running] /\ r \in Run /\ run[r].pc # "none"
      /\ TypeOK /\ Alive = {s \in Run : run[s].pc # "none"}
    BY AliveFacts DEF TasksInvariant, TypeOK
<1>2. /\ run'[r] = new /\ run' \in [Run -> Running]
      /\ \A s \in Run \ {r} : run'[s] = run[s]
    BY <1>1
<1>3. Alive' = Alive
    BY <1>1, <1>2, NothingInFlight DEF Alive
<1>4. UNCHANGED <<key, enabled, job, up, handler, faults, overlapped, mixed>>
    BY DEF Unchanged, columns
<1>5. TypeOK'
    BY <1>1, <1>2, <1>3, <1>4 DEF TypeOK, Changes
<1>6. RunningIsAlive'
    BY <1>3 DEF RunningIsAlive
<1>7. RunningIsOwed'
    BY <1>2, <1>3 DEF TasksInvariant, RunningIsOwed
<1>8. WarnedOnce' /\ WarningIsNew'
    BY <1>2, <1>3, <1>4 DEF TasksInvariant, WarnedOnce, WarningIsNew, Warns
<1>9. ScheduleIsRight'
    BY <1>4, ScheduleUntouched
<1> QED BY <1>5, <1>6, <1>7, <1>8, <1>9 DEF TasksInvariant, ScheduleIsRight

LEMMA LaunchKeeps ==
    ASSUME TasksInvariant, NEW r \in Run, NEW by \in {"scheduler", "admin"}, Launch(r, by)
    PROVE  TasksInvariant'
<1> DEFINE new == [NoRun EXCEPT !.pc = "begin", !.by = by, !.same = last_status = "RUNNING"]
<1>1. /\ new \in Running /\ new.pc = "begin" /\ new.result = "none"
    BY DEF NoRun, Running, Phase
<1>2. /\ up /\ run[r] = NoRun /\ run' = [run EXCEPT ![r] = new]
      /\ overlapped' = (overlapped \/ Alive # {})
      /\ UNCHANGED <<last_status, job, warnings, up, handler, faults, died, mixed, key, enabled>>
    BY DEF Launch, columns
<1> HIDE DEF new
<1>3. TypeOK /\ run \in [Run -> Running] /\ Alive = {s \in Run : run[s].pc # "none"}
    BY AliveFacts DEF TasksInvariant, TypeOK
<1>4. /\ run'[r] = new /\ run' \in [Run -> Running]
      /\ \A s \in Run \ {r} : run'[s] = run[s]
    BY <1>1, <1>2, <1>3
<1>5. Alive' = Alive \cup {r} /\ r \notin Alive
    BY <1>1, <1>2, <1>3, <1>4, NothingInFlight DEF Alive
<1>6. TypeOK'
    BY <1>1, <1>2, <1>3, <1>4, <1>5 DEF TypeOK, Changes
<1>7. RunningIsAlive' /\ RunningIsOwed'
    BY <1>1, <1>2, <1>4, <1>5 DEF RunningIsAlive, RunningIsOwed
<1>8. WarnedOnce' /\ WarningIsNew'
    BY <1>1, <1>2, <1>4, <1>5 DEF TasksInvariant, WarnedOnce, WarningIsNew, Warns
<1>9. ScheduleIsRight'
    BY <1>2, ScheduleUntouched
<1> QED BY <1>6, <1>7, <1>8, <1>9 DEF TasksInvariant, ScheduleIsRight

LEMMA ProceedKeeps ==
    ASSUME TasksInvariant, NEW r \in Run, Mark(r) \/ Look(r) \/ Work(r) \/ Fail(r) \/ Reload(r)
    PROVE  TasksInvariant'
<1>1. TypeOK /\ run \in [Run -> Running] /\ warnings \in 0 .. MaxWarnings
    BY DEF TasksInvariant, TypeOK
<1>2. r \in Alive /\ run[r] \in Running /\ run[r].pc # "none"
    BY <1>1, NothingInFlight DEF Alive, Mark, Look, Work, Fail, Reload, Step
<1>3. run[r].result = "none" <=> run[r].pc \notin {"reload", "record"}
    BY <1>1, <1>2 DEF TypeOK
<1>4. CASE Mark(r)
    <2> DEFINE new == [run[r] EXCEPT !.pc = "look", !.same = FALSE]
    <2>1. /\ run[r].pc = "begin" /\ run' = [run EXCEPT ![r] = new]
          /\ last_status' = Written(run[r].same, "RUNNING", last_status)
          /\ UNCHANGED <<warnings, died>> /\ Unchanged
        BY <1>1, <1>4 DEF Mark, Step
    <2>2. new \in Running /\ new.pc = "look" /\ new.result = "none"
        BY <1>2, <1>3, <2>1 DEF Running, Phase
    <2> HIDE DEF new
    <2>3. last_status' \in Status /\ last_status' \in {last_status, "RUNNING"}
        BY <1>1, <2>1 DEF Written, TypeOK, Status
    <2> QED BY <1>1, <1>2, <2>1, <2>2, <2>3, RunAdvances
<1>5. CASE Look(r)
    <2> DEFINE new == [run[r] EXCEPT !.pc = "work",
                           !.seen = key = "subscription_expiry_warning" /\ warnings > 0]
    <2>1. /\ run[r].pc = "look" /\ run' = [run EXCEPT ![r] = new]
          /\ UNCHANGED <<last_status, warnings, died>> /\ Unchanged
        BY <1>1, <1>5 DEF Look, Step
    <2>2. /\ new \in Running /\ new.pc = "work" /\ new.result = "none"
          /\ key = "subscription_expiry_warning" /\ warnings > 0 => new.seen
        BY <1>2, <1>3, <2>1 DEF Running, Phase
    <2> HIDE DEF new
    <2>3. key = "subscription_expiry_warning" /\ ~new.seen => warnings = 0
        BY <1>1, <2>2, TasksAssumption
    <2>4. last_status \in Status
        BY <1>1 DEF TypeOK
    <2> QED BY <1>1, <1>2, <2>1, <2>2, <2>3, <2>4, RunAdvances
<1>6. CASE Work(r)
    <2> DEFINE new == [run[r] EXCEPT !.pc = "reload", !.seen = FALSE, !.result = "SUCCESS"]
    <2>1. /\ run[r].pc = "work" /\ run' = [run EXCEPT ![r] = new]
          /\ warnings' = IF Warns(r) /\ warnings < MaxWarnings THEN warnings + 1 ELSE warnings
          /\ UNCHANGED <<last_status, died>> /\ Unchanged
        BY <1>1, <1>6 DEF Work, Step
    <2>2. new \in Running /\ new.pc = "reload" /\ new.result = "SUCCESS"
        BY <1>2 DEF Running, Phase
    <2> HIDE DEF new
    <2>3. warnings' \in 0 .. MaxWarnings
        BY <1>1, <2>1, TasksAssumption
    <2>4. ~overlapped /\ Warns(r) => warnings = 0
        BY <1>2, <2>1 DEF TasksInvariant, WarningIsNew
    <2>5. warnings' = warnings \/ (~overlapped => warnings' <= 1 /\ warnings' = warnings + 1)
        BY <2>1, <2>4
    <2>6. last_status \in Status
        BY <1>1 DEF TypeOK
    <2> QED BY <1>2, <2>1, <2>2, <2>3, <2>5, <2>6, RunAdvances
<1>7. CASE Fail(r)
    <2> DEFINE new == [run[r] EXCEPT !.pc = "reload", !.seen = FALSE, !.result = "FAILED"]
    <2>1. /\ run' = [run EXCEPT ![r] = new]
          /\ UNCHANGED <<last_status, warnings, died>> /\ Unchanged
        BY <1>1, <1>7 DEF Fail
    <2>2. new \in Running /\ new.pc = "reload" /\ new.result = "FAILED"
        BY <1>2 DEF Running, Phase
    <2> HIDE DEF new
    <2>3. last_status \in Status
        BY <1>1 DEF TypeOK
    <2> QED BY <1>1, <1>2, <2>1, <2>2, <2>3, RunAdvances
<1>8. CASE Reload(r)
    <2> DEFINE new == [run[r] EXCEPT !.pc = "record", !.same = last_status = run[r].result]
    <2>1. /\ run[r].pc = "reload" /\ run' = [run EXCEPT ![r] = new]
          /\ UNCHANGED <<last_status, warnings, died>> /\ Unchanged
        BY <1>1, <1>8 DEF Reload, Step
    <2>2. /\ new \in Running /\ new.pc = "record" /\ new.result = run[r].result
          /\ new.same = (last_status = run[r].result)
        BY <1>2 DEF Running, Phase
    <2> HIDE DEF new
    <2>3. last_status \in Status /\ run[r].result \in {"SUCCESS", "FAILED"}
        BY <1>1, <1>2, <1>3, <2>1 DEF TypeOK, Running
    <2> QED BY <1>1, <1>2, <2>1, <2>2, <2>3, RunAdvances
<1> QED BY <1>4, <1>5, <1>6, <1>7, <1>8

\* A run ends, and either records its result or leaves the row behind.
LEMMA RunEnds ==
    ASSUME TasksInvariant, NEW r \in Alive, run' = [run EXCEPT ![r] = NoRun],
           UNCHANGED <<key, enabled, job, up, warnings, handler, overlapped, mixed>>,
           last_status' \in Status, faults' \in 0 .. MaxFaults, died' \in BOOLEAN,
           \/ died'
           \/ last_status' # "RUNNING"
           \/ /\ last_status' = last_status /\ died' = died
              /\ run[r].pc = "record" /\ run[r].same
    PROVE  TasksInvariant'
<1>1. TypeOK /\ run \in [Run -> Running] /\ r \in Run /\ Alive = {s \in Run : run[s].pc # "none"}
    BY AliveFacts DEF TasksInvariant, TypeOK
<1>2. /\ run'[r] = NoRun /\ run' \in [Run -> Running]
      /\ \A s \in Run \ {r} : run'[s] = run[s]
    BY <1>1, NothingInFlight
<1>3. Alive' = Alive \ {r}
    BY <1>1, <1>2 DEF Alive
<1>4. TypeOK'
    BY <1>1, <1>2, <1>3 DEF TypeOK, Changes
<1>5. RunningIsOwed'
    BY <1>2, <1>3 DEF TasksInvariant, RunningIsOwed
<1>6. RunningIsAlive'
    BY <1>5 DEF RunningIsOwed, RunningIsAlive
<1>7. WarnedOnce' /\ WarningIsNew'
    BY <1>2, <1>3 DEF TasksInvariant, WarnedOnce, WarningIsNew, Warns
<1>8. ScheduleIsRight'
    BY ScheduleUntouched
<1> QED BY <1>4, <1>5, <1>6, <1>7, <1>8 DEF TasksInvariant, ScheduleIsRight

LEMMA RecordKeeps ==
    ASSUME TasksInvariant, NEW r \in Run, Record(r)
    PROVE  TasksInvariant'
<1>1. TypeOK
    BY DEF TasksInvariant
<1>2. /\ run[r].pc = "record" /\ run' = [run EXCEPT ![r] = NoRun]
      /\ last_status' = Written(run[r].same, run[r].result, last_status)
      /\ died' = (died /\ last_status' = "RUNNING")
      /\ UNCHANGED <<key, enabled, job, up, warnings, handler, faults, overlapped, mixed>>
    BY DEF Record, Step, Unchanged, columns
<1>3. r \in Alive
    BY <1>2, NothingInFlight DEF Alive
<1>4. run[r] \in Running /\ run[r].result \in {"SUCCESS", "FAILED"}
    BY <1>1, <1>2, <1>3 DEF TypeOK, Running
<1>5. last_status' \in Status /\ faults' \in 0 .. MaxFaults /\ died' \in BOOLEAN
    BY <1>1, <1>2, <1>4 DEF TypeOK, Written, Status
<1>6. \/ last_status' # "RUNNING"
      \/ last_status' = last_status /\ died' = died /\ run[r].same
    BY <1>1, <1>2, <1>4 DEF TypeOK, Written
<1> QED BY <1>2, <1>3, <1>5, <1>6, RunEnds

LEMMA BreakKeeps ==
    ASSUME TasksInvariant, NEW r \in Run, Break(r)
    PROVE  TasksInvariant'
<1>1. /\ r \in Alive /\ run' = [run EXCEPT ![r] = NoRun] /\ died' = TRUE
      /\ UNCHANGED <<key, enabled, last_status, job, up, warnings, handler, overlapped, mixed>>
    BY NothingInFlight DEF Break, Step, Alive, columns
<1>2. faults' \in 0 .. MaxFaults /\ last_status' \in Status
    BY <1>1, TasksAssumption DEF Break, Fault, TasksInvariant, TypeOK
<1> QED BY <1>1, <1>2, RunEnds

-----------------------------------------------------------------------------
(* The process.                                                            *)

LEMMA StopKeeps ==
    ASSUME TasksInvariant, Stop
    PROVE  TasksInvariant'
<1>1. /\ up' = FALSE /\ run' = [r \in Run |-> NoRun] /\ handler' = [h \in Handler |-> NoRequest]
      /\ job' = FALSE /\ died' = (died \/ Alive # {})
      /\ UNCHANGED <<key, enabled, last_status, warnings, overlapped, mixed>>
    BY DEF Stop, columns
<1>2. faults' \in 0 .. MaxFaults
    BY TasksAssumption DEF Stop, Fault, TasksInvariant, TypeOK
<1>3. Alive' = {} /\ Changes' = {}
    BY <1>1 DEF Alive, Changes
<1>4. TypeOK'
    <2>1. run' \in [Run -> Running] /\ handler' \in [Handler -> Asked]
        BY <1>1, NothingInFlight
    <2>2. died' \in BOOLEAN
        BY <1>1
    <2> QED BY <1>1, <1>2, <1>3, <2>1, <2>2 DEF TasksInvariant, TypeOK
<1>5. RunningIsAlive' /\ RunningIsOwed'
    BY <1>1 DEF TasksInvariant, RunningIsAlive, RunningIsOwed
<1>6. WarnedOnce' /\ WarningIsNew'
    BY <1>1, <1>3 DEF TasksInvariant, WarnedOnce, WarningIsNew
<1>7. ScheduleFollowsRow' /\ ChangesAreScheduled'
    BY <1>1 DEF ScheduleFollowsRow, ChangesAreScheduled
<1> QED BY <1>4, <1>5, <1>6, <1>7 DEF TasksInvariant

LEMMA StartKeeps ==
    ASSUME TasksInvariant, Start
    PROVE  TasksInvariant'
<1>1. /\ ~up /\ up' = TRUE /\ enabled' = (enabled \/ key \in LOCKED_ENABLED_TASK_KEYS)
      /\ job' = enabled' /\ mixed' = FALSE
      /\ UNCHANGED <<key, last_status, warnings, run, handler, faults, died, overlapped>>
    BY DEF Start
<1>2. Changes' = {} /\ Alive' = {}
    BY <1>1 DEF TasksInvariant, TypeOK, Changes, Alive
<1>3. TypeOK'
    <2>1. enabled' \in BOOLEAN
        BY <1>1
    <2> QED BY <1>1, <1>2, <2>1 DEF TasksInvariant, TypeOK
<1>4. RunsAreRight'
    BY <1>1, RunsUntouched
<1>5. ScheduleFollowsRow' /\ ChangesAreScheduled'
    BY <1>1, <1>2 DEF ScheduleFollowsRow, ChangesAreScheduled
<1> QED BY <1>3, <1>4, <1>5 DEF TasksInvariant, RunsAreRight

-----------------------------------------------------------------------------
(* Changes by admins.  Runs are none of their business.                    *)

LEMMA RequestKeeps ==
    ASSUME TasksInvariant, NEW h \in Handler, NEW op \in {"update", "settings"},
           NEW on \in BOOLEAN, Request(h, op, on)
    PROVE  TasksInvariant'
<1> DEFINE new == [op |-> op, enabled |-> on, same |-> on = enabled]
<1>1. /\ up /\ handler[h] = NoRequest /\ handler' = [handler EXCEPT ![h] = new]
      /\ mixed' = (mixed \/ \E g \in Changes : "settings" \in {op, handler[g].op})
      /\ UNCHANGED <<key, enabled, last_status, job, warnings, up, run, faults, died, overlapped>>
    BY DEF Request, columns
<1>2. /\ new \in Asked /\ new.op = op /\ new.enabled = on
      /\ new.same => new.enabled = enabled
    BY DEF Asked
<1> HIDE DEF new
<1>3. TypeOK /\ handler \in [Handler -> Asked]
    BY DEF TasksInvariant, TypeOK
<1>4. /\ handler'[h] = new /\ handler' \in [Handler -> Asked]
      /\ \A g \in Handler \ {h} : handler'[g] = handler[g]
    BY <1>1, <1>2, <1>3
<1>5. Changes' = Changes \cup {h} /\ h \notin Changes
    BY <1>1, <1>2, <1>4, NothingInFlight DEF Changes
<1>6. TypeOK'
    <2>1. mixed' \in BOOLEAN
        BY <1>1
    <2> QED BY <1>1, <1>2, <1>3, <1>4, <1>5, <2>1 DEF TypeOK, Alive
<1>7. RunsAreRight'
    BY <1>1, RunsUntouched
<1>8. ScheduleFollowsRow'
    BY <1>5 DEF ScheduleFollowsRow
<1>9. ChangesAreScheduled'
    <2> SUFFICES ASSUME ~mixed'
                 PROVE  /\ job = enabled \/ \E g \in Changes' : handler'[g].op = "refresh"
                        /\ \A g \in Changes' : handler'[g].op = "settings" =>
                               Changes' = {g} /\ (handler'[g].same => handler'[g].enabled = enabled)
        BY <1>1 DEF ChangesAreScheduled
    <2>1. ~mixed /\ \A g \in Changes : op # "settings" /\ handler[g].op # "settings"
        BY <1>1
    <2>2. job = enabled \/ \E g \in Changes : handler[g].op = "refresh"
        BY <1>1, <2>1 DEF TasksInvariant, ChangesAreScheduled
    <2>3. \A g \in Changes : handler'[g] = handler[g]
        BY <1>4, <1>5 DEF Changes
    <2>4. job = enabled \/ \E g \in Changes' : handler'[g].op = "refresh"
        BY <1>5, <2>2, <2>3
    <2>5. op = "settings" => Changes' = {h}
        BY <1>5, <2>1
    <2> QED BY <1>2, <1>4, <1>5, <2>1, <2>3, <2>4, <2>5
<1> QED BY <1>6, <1>7, <1>8, <1>9 DEF TasksInvariant, RunsAreRight

LEMMA HandlerFacts ==
    ASSUME TasksInvariant, NEW h \in Handler, handler[h].op # "none"
    PROVE  /\ handler[h] \in Asked /\ h \in Changes /\ up
           /\ handler \in [Handler -> Asked]
           /\ enabled' = Written(handler[h].same, handler[h].enabled, enabled)
                  => enabled' \in BOOLEAN
BY NothingInFlight DEF TasksInvariant, TypeOK, Changes, Asked, Written

LEMMA CommitKeeps ==
    ASSUME TasksInvariant, NEW h \in Handler, Commit(h)
    PROVE  TasksInvariant'
<1> DEFINE new == [handler[h] EXCEPT !.op = "refresh", !.same = FALSE]
<1>1. /\ handler[h].op = "update" /\ handler' = [handler EXCEPT ![h] = new]
      /\ enabled' = Written(handler[h].same, handler[h].enabled, enabled)
      /\ UNCHANGED <<key, last_status, job, warnings, up, run, faults, died, overlapped, mixed>>
    BY HandlerFacts DEF Commit, SetRow, history
<1>2. handler[h] \in Asked /\ h \in Changes /\ up /\ handler \in [Handler -> Asked]
    BY <1>1, HandlerFacts
<1>3. new \in Asked /\ new.op = "refresh"
    BY <1>2 DEF Asked
<1> HIDE DEF new
<1>4. /\ handler'[h] = new /\ handler' \in [Handler -> Asked]
      /\ \A g \in Handler \ {h} : handler'[g] = handler[g]
    BY <1>1, <1>2, <1>3
<1>5. Changes' = Changes
    BY <1>2, <1>3, <1>4, NothingInFlight DEF Changes
<1>6. TypeOK'
    <2>1. enabled' \in BOOLEAN
        BY <1>1, HandlerFacts
    <2> QED BY <1>1, <1>3, <1>4, <1>5, <2>1 DEF TasksInvariant, TypeOK, Alive
<1>7. RunsAreRight'
    BY <1>1, RunsUntouched
<1>8. ScheduleFollowsRow'
    BY <1>2, <1>5 DEF ScheduleFollowsRow
<1>9. ChangesAreScheduled'
    <2> SUFFICES ASSUME ~mixed
                 PROVE  /\ \E g \in Changes : handler'[g].op = "refresh"
                        /\ \A g \in Changes : handler'[g].op # "settings"
        BY <1>1, <1>5 DEF ChangesAreScheduled
    <2>1. \A g \in Changes : handler[g].op # "settings"
        BY <1>1, <1>2 DEF TasksInvariant, ChangesAreScheduled
    <2> QED BY <1>2, <1>3, <1>4, <2>1 DEF Changes
<1> QED BY <1>6, <1>7, <1>8, <1>9 DEF TasksInvariant, RunsAreRight

\* A change ends by scheduling the task as the row then is.
LEMMA ScheduledKeeps ==
    ASSUME TasksInvariant, NEW h \in Changes, enabled' \in BOOLEAN,
           Schedule(h, enabled'),
           UNCHANGED <<key, last_status, warnings, up, run, faults, died, overlapped, mixed>>
    PROVE  TasksInvariant'
<1>1. TypeOK /\ handler \in [Handler -> Asked] /\ h \in Handler
    BY DEF TasksInvariant, TypeOK, Changes
<1>2. job' = enabled' /\ handler' = [handler EXCEPT ![h] = NoRequest]
    BY DEF Schedule
<1>3. /\ handler'[h] = NoRequest /\ handler' \in [Handler -> Asked]
      /\ \A g \in Handler \ {h} : handler'[g] = handler[g]
    BY <1>1, <1>2, NothingInFlight
<1>4. Changes' = Changes \ {h}
    BY <1>3 DEF Changes
<1>5. TypeOK'
    BY <1>1, <1>2, <1>3, <1>4 DEF TypeOK, Alive, Changes
<1>6. RunsAreRight'
    BY RunsUntouched
<1>7. ScheduleFollowsRow'
    BY <1>2 DEF ScheduleFollowsRow
<1>8. ChangesAreScheduled'
    <2> SUFFICES ASSUME up, ~mixed
                 PROVE  \A g \in Changes' : handler'[g].op = "settings" =>
                            Changes' = {g} /\ (handler'[g].same => handler'[g].enabled = enabled')
        BY <1>2 DEF ChangesAreScheduled
    <2>1. \A g \in Changes' : handler'[g] = handler[g] /\ g \in Changes /\ g # h
        BY <1>3, <1>4 DEF Changes
    <2>2. \A g \in Changes' : handler[g].op # "settings"
        BY <2>1 DEF TasksInvariant, ChangesAreScheduled
    <2> QED BY <2>1, <2>2
<1> QED BY <1>5, <1>6, <1>7, <1>8 DEF TasksInvariant, RunsAreRight

LEMMA RescheduleKeeps ==
    ASSUME TasksInvariant, NEW h \in Handler, Reschedule(h)
    PROVE  TasksInvariant'
<1>1. /\ handler[h].op = "refresh" /\ Schedule(h, enabled')
      /\ UNCHANGED <<key, enabled, last_status, warnings, up, run, faults, died, overlapped, mixed>>
    BY DEF Reschedule, columns, history
<1>2. h \in Changes /\ enabled' \in BOOLEAN
    BY <1>1, HandlerFacts DEF TasksInvariant, TypeOK
<1> QED BY <1>1, <1>2, ScheduledKeeps

\* The settings page schedules what it asked for, which is what the row is
\* then, unless another change came between.
LEMMA CommitSettingsKeeps ==
    ASSUME TasksInvariant, NEW h \in Handler, CommitSettings(h)
    PROVE  TasksInvariant'
<1>1. /\ handler[h].op = "settings" /\ job' = handler[h].enabled
      /\ handler' = [handler EXCEPT ![h] = NoRequest]
      /\ enabled' = Written(handler[h].same, handler[h].enabled, enabled)
      /\ UNCHANGED <<key, last_status, warnings, up, run, faults, died, overlapped, mixed>>
    BY DEF CommitSettings, Schedule, SetRow, history
<1>2. /\ handler[h] \in Asked /\ h \in Changes /\ up /\ handler \in [Handler -> Asked]
      /\ enabled' \in BOOLEAN
    BY <1>1, HandlerFacts
<1>3. ~mixed => enabled' = handler[h].enabled
    BY <1>1, <1>2 DEF TasksInvariant, ChangesAreScheduled, Written
<1>4. CASE mixed
    <2>1. /\ handler'[h] = NoRequest /\ handler' \in [Handler -> Asked]
          /\ \A g \in Handler \ {h} : handler'[g] = handler[g]
        BY <1>1, <1>2, NothingInFlight
    <2>2. Changes' = Changes \ {h}
        BY <2>1 DEF Changes
    <2>3. job' \in BOOLEAN
        BY <1>1, <1>2 DEF Asked
    <2>4. TypeOK'
        BY <1>1, <1>2, <2>1, <2>2, <2>3 DEF TasksInvariant, TypeOK, Alive, Changes
    <2>5. RunsAreRight'
        BY <1>1, RunsUntouched
    <2>6. ScheduleFollowsRow' /\ ChangesAreScheduled'
        BY <1>1, <1>4 DEF ScheduleFollowsRow, ChangesAreScheduled
    <2> QED BY <2>4, <2>5, <2>6 DEF TasksInvariant, RunsAreRight
<1>5. CASE ~mixed
    BY <1>1, <1>2, <1>3, <1>5, ScheduledKeeps DEF Schedule
<1> QED BY <1>4, <1>5

-----------------------------------------------------------------------------
(* The theorems.                                                           *)

LEMMA NextKeeps ==
    ASSUME TasksInvariant, [Next]_vars PROVE TasksInvariant'
<1>1. ASSUME NEW r \in Run, Fire(r) \/ RunNow(r) \/ Proceed(r) \/ Break(r)
      PROVE  TasksInvariant'
    <2>1. CASE Fire(r) \/ RunNow(r)
        BY <2>1, LaunchKeeps DEF Fire, RunNow
    <2>2. CASE Proceed(r)
        BY <2>2, ProceedKeeps, RecordKeeps DEF Proceed
    <2> QED BY <1>1, <2>1, <2>2, BreakKeeps
<1>2. ASSUME NEW h \in Handler, Change(h) PROVE TasksInvariant'
    <2>1. ASSUME NEW on \in BOOLEAN, UpdateTask(h, on) \/ UpdateSettings(h, on)
          PROVE  TasksInvariant'
        <3>1. CASE UpdateTask(h, on)
            <4>1. (on \/ key \in LOCKED_ENABLED_TASK_KEYS) \in BOOLEAN
                OBVIOUS
            <4> QED BY <3>1, <4>1, RequestKeeps DEF UpdateTask
        <3>2. CASE UpdateSettings(h, on)
            BY <3>2, RequestKeeps DEF UpdateSettings
        <3> QED BY <2>1, <3>1, <3>2
    <2> QED BY <1>2, <2>1, CommitKeeps, RescheduleKeeps, CommitSettingsKeeps DEF Change
<1>3. CASE UNCHANGED vars
    <2>1. UNCHANGED <<key, enabled, last_status, job, warnings, up, run, handler,
                      faults, died, overlapped, mixed>>
        BY <1>3 DEF vars
    <2>2. RunsAreRight' /\ ScheduleIsRight'
        BY <2>1, RunsUntouched, ScheduleUntouched
    <2>3. TypeOK'
        BY <2>1 DEF TasksInvariant, TypeOK, Alive, Changes
    <2> QED BY <2>2, <2>3 DEF TasksInvariant, RunsAreRight, ScheduleIsRight
<1> QED BY <1>1, <1>2, <1>3, StopKeeps, StartKeeps DEF Next

\* However runs and changes overlap, fail or end with the process, a row that
\* is RUNNING is being worked on or was left behind by a fault (run_task).
THEOREM TasksStayConsistent == Spec => []TasksInvariant
<1> QED BY InitTasks, NextKeeps, PTL DEF Spec

\* When no change is in flight, the task is scheduled as its row says, unless
\* the settings page overlapped with another change (update_task,
\* update_settings, start_scheduler).
THEOREM ScheduleAlwaysFollowsRow == Spec => []ScheduleFollowsRow
<1>1. TasksInvariant => ScheduleFollowsRow
    BY DEF TasksInvariant
<1> QED BY <1>1, TasksStayConsistent, PTL

\* As long as runs do not overlap, a user is warned once, whatever fails
\* (_run_subscription_expiry_warning).
THEOREM UsersAreWarnedOnce == Spec => []WarnedOnce
<1>1. TasksInvariant => WarnedOnce
    BY DEF TasksInvariant
<1> QED BY <1>1, TasksStayConsistent, PTL

=============================================================================
