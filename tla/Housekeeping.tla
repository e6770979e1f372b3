---------------------------- MODULE Housekeeping ----------------------------
(***************************************************************************)
(* housekeeping-service: HousekeepingService.createTask, assign, start,    *)
(* complete and verify, run by handlers that share one database, with      *)
(* computePriority, selectAssignee and the transition table.               *)
(*                                                                         *)
(* Every await ends a step; a transaction is one step. A handler serves    *)
(* one request after the other; a request that is refused at its read      *)
(* changes nothing and is no step. Everybody in Staff is on shift in the   *)
(* one hotel. Times, durations and notes are left out.                     *)
(***************************************************************************)
EXTENDS Integers, FiniteSets, Sequences

CONSTANTS
    Tasks,
    Cleans,          \* bodies of createTask: [type, hours, vip]
    Staff,           \* numbers, in the order of the staff ids
    Capacity,        \* Capacity[s]: how many tasks a shift allows s
    ChecklistItems,
    Required,        \* the items that have to pass
    Reports,         \* bodies of complete: [ticked, unticked], items named as done and as not
    Keepers,         \* handlers that run at once
    MaxTaskRequests, \* bound on requests that get past their read
    NoTask, NoOne, Never,
    QueuedTasks      \* tasks whose handlers run one after the other

VARIABLES
    task,       \* task[t]: the row of housekeeping_tasks, or NoTask
    ticked,     \* ticked[t]: the checklist items of t that are completed
    taskOutbox, \* taskOutbox[t]: the events written about t, oldest first
    keeper,     \* keeper[h]: the request handler h is at, and what it has read
    taskRequests

vars == <<task, ticked, taskOutbox, keeper, taskRequests>>

Free == [pc |-> "FREE"]

Init ==
    /\ task = [t \in Tasks |-> NoTask]
    /\ ticked = [t \in Tasks |-> {}]
    /\ taskOutbox = [t \in Tasks |-> <<>>]
    /\ keeper = [h \in Keepers |-> Free]
    /\ taskRequests = 0

-----------------------------------------------------------------------------
(* prioritisation.ts *)

TASK_TRANSITIONS ==
    [PENDING     |-> {"ASSIGNED"},
     ASSIGNED    |-> {"IN_PROGRESS", "PENDING"},
     IN_PROGRESS |-> {"COMPLETED"},
     COMPLETED   |-> {"VERIFIED", "ASSIGNED"},
     VERIFIED    |-> {}]

canTransitionTask(from, to) == to \in TASK_TRANSITIONS[from]

(* hours is the time to the next arrival, or Never.                        *)
computePriority(clean) ==
    LET within(h) == clean.hours # Never /\ clean.hours <= h IN
    CASE within(2) -> "CRITICAL"
      [] ~ within(2) /\ within(6) -> "HIGH"
      [] ~ within(6) /\ clean.vip -> "HIGH"
      [] ~ within(6) /\ ~ clean.vip ->
            IF within(24) \/ clean.type \notin {"INSPECTION", "DEEP_CLEAN"} THEN "MEDIUM" ELSE "LOW"

(* The work a person is at, as assign counts it. *)
load(s) ==
    Cardinality({t \in Tasks : /\ task[t] # NoTask
                               /\ task[t].assignee = s
                               /\ task[t].status \in {"ASSIGNED", "IN_PROGRESS"}})

available(loads) == {s \in DOMAIN loads : loads[s] < Capacity[s]}

(* Least loaded in proportion to the capacity, then by staff id. *)
before(loads, a, b) ==
    \/ loads[a] * Capacity[b] < loads[b] * Capacity[a]
    \/ loads[a] * Capacity[b] = loads[b] * Capacity[a] /\ a <= b

selectAssignee(loads) ==
    CHOOSE s \in available(loads) : \A o \in available(loads) : before(loads, s, o)

-----------------------------------------------------------------------------
exists(t) == task[t] # NoTask

at(t) == \E h \in Keepers : keeper[h] # Free /\ keeper[h].task = t

mayTouch(t) == t \in QueuedTasks => ~ at(t)

begin(h, request) ==
    /\ keeper[h] = Free
    /\ mayTouch(request.task)
    /\ taskRequests < MaxTaskRequests
    /\ taskRequests' = taskRequests + 1
    /\ keeper' = [keeper EXCEPT ![h] = request]

end(h) == keeper' = [keeper EXCEPT ![h] = Free] /\ UNCHANGED taskRequests

mayBecome(t, status) == exists(t) /\ canTransitionTask(task[t].status, status)

CreateTask(t) ==
    /\ ~ exists(t)
    /\ \E clean \in Cleans :
          task' = [task EXCEPT ![t] =
              [type |-> clean.type, status |-> "PENDING", assignee |-> NoOne,
               priority |-> computePriority(clean), done |-> FALSE]]
    /\ taskOutbox' = [taskOutbox EXCEPT ![t] = <<[type |-> "HOUSEKEEPING_TASK_CREATED"]>>]
    /\ UNCHANGED <<ticked, keeper, taskRequests>>

-----------------------------------------------------------------------------
(* assign: to whom the request names, or to whom selectAssignee picks from *)
(* loads that are counted one query at a time.                             *)

readForAssign(h, t, s) ==
    /\ mayBecome(t, "ASSIGNED")
    /\ begin(h, [pc |-> "ASSIGN", task |-> t, staff |-> s])
    /\ UNCHANGED <<task, ticked, taskOutbox>>

ReadForAssign(h) ==
    \E t \in Tasks :
        \/ \E s \in Staff : readForAssign(h, t, s)
        \/ /\ mayBecome(t, "ASSIGNED")
           /\ begin(h, [pc |-> "COUNT", task |-> t, loads |-> <<>>])
           /\ UNCHANGED <<task, ticked, taskOutbox>>

CountLoad(h) ==
    /\ keeper[h].pc = "COUNT"
    /\ \E s \in Staff \ DOMAIN keeper[h].loads :
          LET loads == [p \in DOMAIN keeper[h].loads \cup {s} |->
                           IF p = s THEN load(s) ELSE keeper[h].loads[p]]
          IN keeper' = [keeper EXCEPT ![h] =
                IF DOMAIN loads # Staff THEN [@ EXCEPT !.loads = loads]
                ELSE IF available(loads) = {} THEN Free
                ELSE [pc |-> "ASSIGN", task |-> @.task, staff |-> selectAssignee(loads)]]
    /\ UNCHANGED <<task, ticked, taskOutbox, taskRequests>>

Assign(h) ==
    /\ keeper[h].pc = "ASSIGN"
    /\ task' = [task EXCEPT ![keeper[h].task].status = "ASSIGNED",
                            ![keeper[h].task].assignee = keeper[h].staff]
    /\ end(h)
    /\ UNCHANGED <<ticked, taskOutbox>>

(* Only whom the task is assigned to may start it. *)
readForStart(h, t, s) ==
    /\ mayBecome(t, "IN_PROGRESS")
    /\ task[t].assignee = s
    /\ begin(h, [pc |-> "START", task |-> t])
    /\ UNCHANGED <<task, ticked, taskOutbox>>

ReadForStart(h) == \E t \in Tasks, s \in Staff : readForStart(h, t, s)

Start(h) ==
    /\ keeper[h].pc = "START"
    /\ task' = [task EXCEPT ![keeper[h].task].status = "IN_PROGRESS"]
    /\ end(h)
    /\ UNCHANGED <<ticked, taskOutbox>>

-----------------------------------------------------------------------------
outstanding(t, report) == Required \ (ticked[t] \cup report.ticked)

readForComplete(h, t, report) ==
    /\ mayBecome(t, "COMPLETED")
    /\ outstanding(t, report) = {}
    /\ begin(h, [pc |-> "COMPLETE", task |-> t, report |-> report])
    /\ UNCHANGED <<task, ticked, taskOutbox>>

ReadForComplete(h) == \E t \in Tasks, report \in Reports : readForComplete(h, t, report)

(* An item that the report names both ways counts as done above, and is    *)
(* left undone: what is not done is written last.                          *)
ticksAfter(t, report) == (ticked[t] \cup report.ticked) \ report.unticked

completionEvent(t) ==
    [type |-> "HOUSEKEEPING_TASK_COMPLETED",
     inspectionRequired |-> task[t].type = "CHECKOUT_CLEAN"]

Complete(h) ==
    /\ keeper[h].pc = "COMPLETE"
    /\ LET t == keeper[h].task
           report == keeper[h].report
       IN /\ ticked' = [ticked EXCEPT ![t] = ticksAfter(t, report)]
          /\ task' = [task EXCEPT ![t].status = "COMPLETED", ![t].done = TRUE]
          /\ taskOutbox' = [taskOutbox EXCEPT ![t] = Append(@, completionEvent(t))]
    /\ end(h)

ReadForVerify(h) ==
    /\ \E t \in Tasks, outcome \in {"VERIFIED", "ASSIGNED"} :
          /\ mayBecome(t, outcome)
          /\ begin(h, [pc |-> "VERIFY", task |-> t, outcome |-> outcome])
    /\ UNCHANGED <<task, ticked, taskOutbox>>

(* Mutant: the checklist is left as it was ticked.                         *)
reworkChecklist_kept(t) == ticked[t]

reworkChecklist(t) == {}

(* A failed inspection reopens the task, at CRITICAL, with a clear         *)
(* checklist. The table lets it happen to a PENDING task as well, which is *)
(* then assigned to nobody.                                                *)
Verify(h) ==
    /\ keeper[h].pc = "VERIFY"
    /\ LET t == keeper[h].task IN
       IF keeper[h].outcome = "VERIFIED"
       THEN task' = [task EXCEPT ![t].status = "VERIFIED"] /\ UNCHANGED ticked
       ELSE /\ ticked' = [ticked EXCEPT ![t] = reworkChecklist(t)]
            /\ task' = [task EXCEPT ![t].status = "ASSIGNED", ![t].done = FALSE,
                                    ![t].priority = "CRITICAL"]
    /\ end(h)
    /\ UNCHANGED taskOutbox

(* The process dies, or the database refuses the write. *)
Crash(h) ==
    /\ keeper[h] # Free
    /\ end(h)
    /\ UNCHANGED <<task, ticked, taskOutbox>>

assign(h) == ReadForAssign(h) \/ CountLoad(h) \/ Assign(h)
start(h) == ReadForStart(h) \/ Start(h)
complete(h) == ReadForComplete(h) \/ Complete(h)
verify(h) == ReadForVerify(h) \/ Verify(h)

Next ==
    \/ \E t \in Tasks : CreateTask(t)
    \/ \E h \in Keepers : assign(h) \/ start(h) \/ complete(h) \/ verify(h) \/ Crash(h)

Spec == Init /\ [][Next]_vars

-----------------------------------------------------------------------------
(* Properties. *)

TaskType == {"CHECKOUT_CLEAN", "STAYOVER_CLEAN", "DEEP_CLEAN", "INSPECTION", "TURNDOWN"}

TaskRow == [type : TaskType,
            status : DOMAIN TASK_TRANSITIONS, assignee : Staff \cup {NoOne},
            priority : {"CRITICAL", "HIGH", "MEDIUM", "LOW"}, done : BOOLEAN]

(* Every variable stays in the set its columns allow, and work that is     *)
(* under way has somebody doing it.                                        *)
TypeOK ==
    /\ task \in [Tasks -> TaskRow \cup {NoTask}]
    /\ ticked \in [Tasks -> SUBSET ChecklistItems]
    /\ \A t \in Tasks : exists(t) /\ task[t].status = "IN_PROGRESS" => task[t].assignee # NoOne
    /\ \A h \in Keepers : keeper[h] # Free => exists(keeper[h].task)
    /\ taskRequests \in 0 .. MaxTaskRequests

(* verify: "clear the checklist so it is genuinely redone rather than      *)
(* re-ticked". A task whose handlers do not overlap, and that is new or    *)
(* has failed its inspection, has nothing ticked until it is finished; it  *)
(* is finished by one report that itself names as done all that is         *)
(* required, and keeps no tick of an earlier one. That a required item     *)
(* ends up ticked is claimed only if the report does not name it as not    *)
(* done as well, which completeTaskSchema does not rule out.               *)
QueuedCleanIsRedone ==
    [][\A t \in QueuedTasks : exists(t) /\ ~ task[t].done =>
          /\ ticked[t] = {} /\ task[t].status \notin {"COMPLETED", "VERIFIED"}
          /\ task'[t].done => \E h \in Keepers :
                /\ keeper[h] # Free /\ keeper[h].task = t /\ keeper[h].pc = "COMPLETE"
                /\ Required \subseteq keeper[h].report.ticked
                /\ ticked'[t] = keeper[h].report.ticked \ keeper[h].report.unticked]_vars

(* complete: "Every required checklist item must pass first". A task that  *)
(* stands as finished has every required item ticked.                      *)
FinishedIsChecked ==
    \A t \in Tasks :
        exists(t) /\ task[t].status \in {"COMPLETED", "VERIFIED"} => Required \subseteq ticked[t]
=============================================================================
