------------------------ MODULE AutomationScheduler --------------------------
(***************************************************************************)
(* Automations: the scheduler of the main process                          *)
(* (src/main/automations/service.ts), its rows in the store                *)
(* (src/main/persistence.ts) and the renderer that starts the agents       *)
(* (useAutomationDispatchEvents.ts, AutomationsPage.tsx).                  *)
(*                                                                         *)
(* Every write of the store is flushed before the next one, and the awaits *)
(* of a tick are microtasks: nothing but the end of the process comes      *)
(* between the writes of one tick. The variable "tick" says which of them  *)
(* have been made; every other action but AppEnds waits for the tick.      *)
(*                                                                         *)
(* Time is counted in units of which Period make the period of a schedule; *)
(* a schedule is a phase of that period, and "zone" shifts local time.     *)
(***************************************************************************)
EXTENDS Integers, FiniteSets, Functions

CONSTANTS Automation,  \* the automations a user may create
          Period,      \* the units from one occurrence to the next
          Grace,       \* missedRunGraceMinutes
          Zone,        \* the time zones the machine may be in
          MaxTime,     \* bound: the clock
          MaxRuns,     \* bound: runs ever created
          MaxEdits     \* bound: changes a user makes to automations or the zone

ASSUME SchedulerAssumption == /\ Period \in Nat \ {0}
                              /\ {Grace, MaxTime, MaxRuns, MaxEdits} \subseteq Nat
                              /\ Zone \subseteq 0..Period - 1 /\ 0 \in Zone
                              /\ IsFiniteSet(Automation)

VARIABLES now, zone,
          autos,       \* store: the automations
          runs,        \* store: their runs, by id
          made,        \* run ids used
          up,          \* the main process runs
          renderer,    \* "none" (no window), "loading" or "listening"
          ready,       \* rendererReady
          tick,        \* the tick under way
          disp,        \* the renderer's handler of each run
          pending,     \* what it heard before its "dispatched" was answered
          agent,       \* what the renderer is still to hear of the agent of each run
          page,        \* the runs the open page shows as dispatched
          collecting,  \* completions whose usage is being collected
          edits,
          base,        \* history: when and where the next run was computed
          torn,        \* history: runs whose tick was cut short
          started      \* history: agents started for each run

store == <<autos, runs, made>>
window == <<disp, pending, page>>
history == <<base, torn>>
vars == <<now, zone, autos, runs, made, up, renderer, ready, tick, disp, pending,
          agent, page, collecting, edits, base, torn, started>>

RunId == 1..MaxRuns
FinalStatus == {"completed", "dispatch_failed", "skipped"}
Status == FinalStatus \cup {"pending", "dispatching", "dispatched"}

AutoRec == [enabled : BOOLEAN, phase : 0..Period - 1, start : Nat, nextRunAt : Nat]
Manual == -1
RunRec == [auto : Automation, scheduledFor : Nat \cup {Manual}, status : Status,
           usage : BOOLEAN]

Idle == [pc |-> "idle"]

\* Bound: whatever becomes due finds an unused run.
HasRoom == made + Cardinality(Automation) <= MaxRuns

-----------------------------------------------------------------------------
(* Schedules.                                                               *)

Matches(phase, t) == (t + zone) % Period = phase

MaxOf(a, b) == IF a < b THEN b ELSE a

NextAfter(phase, start, after) ==
  LET from == MaxOf(start - 1, after)
  IN  CHOOSE t \in from + 1 .. from + Period : Matches(phase, t)

\* Mutant: an occurrence is not seen at its own time.
LatestBefore(auto) ==
  {t \in MaxOf(auto.start, now - Period + 1) .. now - 1 : Matches(auto.phase, t)}

\* The latest occurrence that is not in the future: at most one.
Latest(auto) == {t \in MaxOf(auto.start, now - Period + 1) .. now : Matches(auto.phase, t)}

Due(a) == a \in DOMAIN autos /\ autos[a].enabled /\ autos[a].nextRunAt <= now

-----------------------------------------------------------------------------
(* The store.                                                               *)

\* A manual run is stamped with its millisecond, and so meets no other.
NewRun(a, at) == [auto |-> a, scheduledFor |-> at, status |-> "pending", usage |-> FALSE]

\* The runs with one more, under the next id.
WithRun(row) ==
  [r \in DOMAIN runs \cup {made + 1} |-> IF r = made + 1 THEN row ELSE runs[r]]

Existing(a, at) ==
  {r \in DOMAIN runs : runs[r].auto = a /\ runs[r].scheduledFor = at}

\* Mutant: createAutomationRun does not look for the run of the occurrence.
CreateRunAlways(a, at) ==
  /\ made < MaxRuns
  /\ made' = made + 1
  /\ runs' = WithRun(NewRun(a, at))

CreateRun(a, at) ==
  IF Existing(a, at) # {}
  THEN UNCHANGED <<runs, made>>
  ELSE /\ made < MaxRuns
       /\ made' = made + 1
       /\ runs' = WithRun(NewRun(a, at))

RunFor(a, at) == IF Existing(a, at) # {} THEN CHOOSE r \in Existing(a, at) : TRUE ELSE made + 1

Scheduled(a) == base' = [base EXCEPT ![a] = [at |-> now, zone |-> zone]]

\* The automations with one more.
WithAutomation(a, row) == [b \in DOMAIN autos \cup {a} |-> IF b = a THEN row ELSE autos[b]]

CreateAutomation(a) ==
  /\ tick = Idle /\ renderer = "listening"
  /\ base[a].at = -1
  /\ \E enabled \in BOOLEAN, phase \in 0..Period - 1, start \in {now, now + 1} :
       autos' = WithAutomation(a, [enabled |-> enabled, phase |-> phase, start |-> start,
                                   nextRunAt |-> NextAfter(phase, start, now)])
  /\ Scheduled(a)
  /\ UNCHANGED <<now, zone, runs, made, up, renderer, ready, tick, window, agent,
                 collecting, edits, torn, started>>

\* updateAutomation with a schedule.
Reschedule(a) ==
  /\ tick = Idle /\ renderer = "listening"
  /\ a \in DOMAIN autos
  /\ edits < MaxEdits /\ edits' = edits + 1
  /\ \E phase \in 0..Period - 1 :
       /\ phase # autos[a].phase
       /\ autos' = [autos EXCEPT ![a].phase = phase,
                                 ![a].nextRunAt = NextAfter(phase, autos[a].start, now)]
  /\ Scheduled(a)
  /\ UNCHANGED <<now, zone, runs, made, up, renderer, ready, tick, window, agent,
                 collecting, torn, started>>

\* updateAutomation without one keeps nextRunAt.
Toggle(a) ==
  /\ tick = Idle /\ renderer = "listening"
  /\ a \in DOMAIN autos
  /\ edits < MaxEdits /\ edits' = edits + 1
  /\ autos' = [autos EXCEPT ![a].enabled = ~@]
  /\ UNCHANGED <<now, zone, runs, made, up, renderer, ready, tick, window, agent,
                 collecting, history, started>>

\* Mutant: the runs of a deleted automation stay.
DeletesOnlyTheAutomation(a) ==
  /\ tick = Idle /\ renderer = "listening"
  /\ a \in DOMAIN autos
  /\ edits < MaxEdits /\ edits' = edits + 1
  /\ autos' = Restrict(autos, DOMAIN autos \ {a})
  /\ UNCHANGED <<now, zone, runs, made, up, renderer, ready, tick, window, agent,
                 collecting, history, started>>

DeleteAutomation(a) ==
  /\ tick = Idle /\ renderer = "listening"
  /\ a \in DOMAIN autos
  /\ edits < MaxEdits /\ edits' = edits + 1
  /\ autos' = Restrict(autos, DOMAIN autos \ {a})
  /\ runs' = Restrict(runs, {r \in DOMAIN runs : runs[r].auto # a})
  /\ UNCHANGED <<now, zone, made, up, renderer, ready, tick, window, agent,
                 collecting, history, started>>

-----------------------------------------------------------------------------
(* requestDispatch. A request that no renderer listens to is lost.          *)

Request(rs, r) ==
  /\ runs' = [rs EXCEPT ![r].status = IF ready THEN "dispatching" ELSE "skipped"]
  /\ disp' = IF ready /\ renderer = "listening" THEN [disp EXCEPT ![r] = "asked"] ELSE disp

RunNow(a) ==
  /\ tick = Idle /\ renderer = "listening"
  /\ a \in DOMAIN autos
  /\ made + 1 + Cardinality(Automation) <= MaxRuns
  /\ made' = made + 1
  /\ Request(WithRun(NewRun(a, Manual)), made + 1)
  /\ UNCHANGED <<now, zone, autos, up, renderer, ready, tick, pending, agent, page,
                 collecting, edits, history, started>>

-----------------------------------------------------------------------------
(* evaluateDueRuns: for each automation that is due, createAutomationRun,   *)
(* one status and advanceAutomationNextRun, each of them flushed.           *)

Remaining(todo, n) == IF todo = {} THEN Idle ELSE [pc |-> "loop", todo |-> todo, now |-> n]

TickBegins ==
  /\ up /\ tick = Idle
  /\ {a \in Automation : Due(a)} # {}
  /\ tick' = Remaining({a \in Automation : Due(a)}, now)
  /\ UNCHANGED <<now, zone, store, up, renderer, ready, window, agent, collecting, edits,
                 history, started>>

\* Mutant: the next run is computed from before the occurrence that was handled.
AdvancesFromOccurrence(a, at) ==
  /\ autos' = [autos EXCEPT ![a].nextRunAt = NextAfter(autos[a].phase, autos[a].start, at - 1)]
  /\ base' = [base EXCEPT ![a].zone = zone]

Advances(a, at) ==
  /\ autos' = [autos EXCEPT ![a].nextRunAt = NextAfter(autos[a].phase, autos[a].start, at)]
  /\ base' = [base EXCEPT ![a].zone = zone]

Creates(a) ==
  /\ tick.pc = "loop" /\ a \in tick.todo
  /\ \E at \in Latest(autos[a]) :
       /\ CreateRun(a, at)
       /\ tick' = [pc |-> "created", todo |-> tick.todo \ {a}, now |-> tick.now, auto |-> a,
                   run |-> RunFor(a, at), at |-> at]
  /\ UNCHANGED <<now, zone, autos, up, renderer, ready, window, agent, collecting, edits,
                 history, started>>

NoOccurrence(a) ==
  /\ tick.pc = "loop" /\ a \in tick.todo
  /\ Latest(autos[a]) = {}
  /\ Advances(a, tick.now)
  /\ tick' = Remaining(tick.todo \ {a}, tick.now)
  /\ UNCHANGED <<now, zone, runs, made, up, renderer, ready, window, agent, collecting,
                 edits, torn, started>>

IsMissed == tick.now - tick.at > Grace

Skips ==
  /\ tick.pc = "created" /\ IsMissed
  /\ runs' = [runs EXCEPT ![tick.run].status = "skipped"]
  /\ tick' = [tick EXCEPT !.pc = "settled"]
  /\ UNCHANGED <<now, zone, autos, made, up, renderer, ready, window, agent, collecting,
                 edits, history, started>>

Dispatches ==
  /\ tick.pc = "created" /\ ~IsMissed
  /\ Request(runs, tick.run)
  /\ tick' = [tick EXCEPT !.pc = "settled"]
  /\ UNCHANGED <<now, zone, autos, made, up, renderer, ready, pending, agent, page,
                 collecting, edits, history, started>>

\* Mutant: a missed occurrence leaves the automation where it was.
SettlesUnlessMissed ==
  /\ tick.pc = "settled"
  /\ IF IsMissed THEN UNCHANGED <<autos, base>> ELSE Advances(tick.auto, tick.now)
  /\ tick' = Remaining(tick.todo, tick.now)
  /\ UNCHANGED <<now, zone, runs, made, up, renderer, ready, window, agent, collecting,
                 edits, torn, started>>

Settles ==
  /\ tick.pc = "settled"
  /\ Advances(tick.auto, tick.now)
  /\ tick' = Remaining(tick.todo, tick.now)
  /\ UNCHANGED <<now, zone, runs, made, up, renderer, ready, window, agent, collecting,
                 edits, torn, started>>

TickStep ==
  Skips \/ Dispatches \/ Settles \/ \E a \in Automation : Creates(a) \/ NoOccurrence(a)

-----------------------------------------------------------------------------
(* markDispatchResult, called by the handler of a run or by the page. The   *)
(* usage of a completed run is collected from files, meanwhile everything   *)
(* goes on; that of any other final run is "unavailable" at once. Which of  *)
(* the two it is, is left out: "usage" says whether there is one. A run     *)
(* that has been deleted is an error of the caller's.                       *)

Mark(r, status, by) ==
  IF r \in DOMAIN runs
  THEN LET collects == status = "completed" /\ ~runs[r].usage
       IN  /\ runs' = [runs EXCEPT ![r].status = status,
                                  ![r].usage = @ \/ (status \in FinalStatus /\ ~collects)]
           /\ collecting' = IF collects THEN collecting \cup {[run |-> r, by |-> by]}
                            ELSE collecting
  ELSE UNCHANGED <<runs, collecting>>

Collected(c) ==
  /\ tick = Idle /\ c \in collecting
  /\ collecting' = collecting \ {c}
  /\ runs' = IF c.run \in DOMAIN runs
             THEN [runs EXCEPT ![c.run].status = "completed", ![c.run].usage = TRUE]
             ELSE runs
  /\ UNCHANGED <<now, zone, autos, made, up, renderer, ready, tick, window, agent, edits,
                 history, started>>

-----------------------------------------------------------------------------
(* The renderer's handler of a run: "asked" before its try statement,        *)
(* "launching" inside it.                                                   *)

\* The target is gone, needs a password or fails its precheck.
Refuses(r) ==
  /\ tick = Idle /\ disp[r] \in {"asked", "launching"}
  /\ Mark(r, "skipped", "handler")
  /\ disp' = [disp EXCEPT ![r] = "none"]
  /\ UNCHANGED <<now, zone, autos, made, up, renderer, ready, tick, pending, agent, page,
                 edits, history, started>>

\* The state of the SSH target or the precheck cannot be had: nothing catches it,
\* and nothing is written.
Throws(r) ==
  /\ tick = Idle /\ disp[r] = "asked"
  /\ disp' = [disp EXCEPT ![r] = "none"]
  /\ UNCHANGED <<now, zone, store, up, renderer, ready, tick, pending, agent, page,
                 collecting, edits, history, started>>

Passes(r) ==
  /\ tick = Idle /\ disp[r] = "asked"
  /\ disp' = [disp EXCEPT ![r] = "launching"]
  /\ UNCHANGED <<now, zone, store, up, renderer, ready, tick, pending, agent, page,
                 collecting, edits, history, started>>

\* Mutant: a launch that throws reports nothing.
LaunchFailsSilently(r) ==
  /\ tick = Idle /\ disp[r] = "launching"
  /\ disp' = [disp EXCEPT ![r] = "none"]
  /\ UNCHANGED <<now, zone, store, up, renderer, ready, tick, pending, agent, page,
                 collecting, edits, history, started>>

\* Possibly after an agent that is reused has taken the prompt, which the handler
\* then no longer listens to.
LaunchFails(r) ==
  /\ tick = Idle /\ disp[r] = "launching"
  /\ Mark(r, "dispatch_failed", "handler")
  /\ disp' = [disp EXCEPT ![r] = "none"]
  /\ \E submitted \in 0..1 : started' = [started EXCEPT ![r] = @ + submitted]
  /\ UNCHANGED <<now, zone, autos, made, up, renderer, ready, tick, pending, agent, page,
                 edits, history>>

Launches(r) ==
  /\ tick = Idle /\ disp[r] = "launching"
  /\ disp' = [disp EXCEPT ![r] = "launched"]
  /\ pending' = [pending EXCEPT ![r] = "none"]
  /\ agent' = [agent EXCEPT ![r] = "working"]
  /\ started' = [started EXCEPT ![r] = @ + 1]
  /\ UNCHANGED <<now, zone, store, up, renderer, ready, tick, page, collecting, edits,
                 history>>

\* "dispatched" is written; the handler awaits the answer. A run that has been
\* deleted makes it throw, and it ends.
MarkDispatched(r) ==
  /\ tick = Idle /\ disp[r] = "launched"
  /\ Mark(r, "dispatched", "handler")
  /\ disp' = [disp EXCEPT ![r] = IF r \in DOMAIN runs THEN "replying" ELSE "none"]
  /\ UNCHANGED <<now, zone, autos, made, up, renderer, ready, tick, pending, agent, page,
                 edits, history, started>>

\* The answer: what was heard meanwhile is handled now.
Replied(r) ==
  /\ tick = Idle /\ disp[r] = "replying"
  /\ IF pending[r] = "none"
     THEN /\ disp' = [disp EXCEPT ![r] = "watching"]
          /\ UNCHANGED <<runs, collecting>>
     ELSE /\ disp' = [disp EXCEPT ![r] = "none"]
          /\ Mark(r, pending[r], "handler")
  /\ pending' = [pending EXCEPT ![r] = "none"]
  /\ UNCHANGED <<now, zone, autos, made, up, renderer, ready, tick, agent, page,
                 edits, history, started>>

\* Mutant: a final result is written before "dispatched" has been.
HearsAtOnce(r, status) ==
  IF disp[r] \in {"launched", "replying", "watching"}
  THEN /\ Mark(r, status, "handler")
       /\ UNCHANGED <<disp, pending>>
  ELSE UNCHANGED <<disp, pending, runs, collecting>>

\* The handler of r hears what came of the agent.
Hears(r, status) ==
  CASE disp[r] \in {"launched", "replying"} ->
         /\ pending' = [pending EXCEPT ![r] = status]
         /\ UNCHANGED <<disp, runs, collecting>>
    [] disp[r] = "watching" ->
         /\ disp' = [disp EXCEPT ![r] = "none"]
         /\ Mark(r, status, "handler")
         /\ UNCHANGED pending
    [] OTHER -> UNCHANGED <<disp, pending, runs, collecting>>

\* The handler listens, or the page may come to.
IsHeard(r) ==
  /\ renderer = "listening"
  /\ agent[r] = "working"
  /\ disp[r] # "none" \/ (r \in DOMAIN runs /\ runs[r].status = "dispatched")

\* A "done" that is older than the dispatch is nothing to the page.
AgentDone(r) ==
  /\ tick = Idle /\ IsHeard(r)
  /\ agent' = [agent EXCEPT ![r] = IF disp[r] = "launched" THEN "none" ELSE "done"]
  /\ Hears(r, "completed")
  /\ UNCHANGED <<now, zone, autos, made, up, renderer, ready, tick, page, edits, history,
                 started>>

AgentExits(r) ==
  /\ tick = Idle /\ IsHeard(r)
  /\ agent' = [agent EXCEPT ![r] = "none"]
  /\ \E status \in {"completed", "dispatch_failed"} : Hears(r, status)
  /\ UNCHANGED <<now, zone, autos, made, up, renderer, ready, tick, page, edits, history,
                 started>>

\* The page completes, by what it last read, the runs whose agent is done.
PageReads ==
  /\ tick = Idle /\ renderer = "listening"
  /\ page' = {r \in DOMAIN runs : runs[r].status = "dispatched"}
  /\ page' # page
  /\ UNCHANGED <<now, zone, store, up, renderer, ready, tick, disp, pending, agent,
                 collecting, edits, history, started>>

PageCompletes(r) ==
  /\ tick = Idle /\ renderer = "listening"
  /\ r \in page /\ agent[r] = "done"
  /\ Mark(r, "completed", "page")
  /\ page' = page \ {r}
  /\ UNCHANGED <<now, zone, autos, made, up, renderer, ready, tick, disp, pending, agent,
                 edits, history, started>>

-----------------------------------------------------------------------------
(* The window and the process.                                              *)

\* Of the agents it started, only those of dispatched runs are heard of again.
RendererGone ==
  /\ agent' = [r \in RunId |-> IF r \in DOMAIN runs /\ runs[r].status = "dispatched"
                               THEN agent[r] ELSE "none"]
  /\ disp' = [r \in RunId |-> "none"]
  /\ pending' = [r \in RunId |-> "none"]
  /\ page' = {}

\* useAutomationDispatchEvents mounts, and calls rendererReady.
Mounts ==
  /\ tick = Idle /\ renderer = "loading"
  /\ renderer' = "listening"
  /\ ready' = TRUE
  /\ UNCHANGED <<now, zone, store, up, tick, window, agent, collecting, edits, history,
                 started>>

\* A reload or a crash of the renderer resets nothing in the main process.
Reloads ==
  /\ tick = Idle /\ renderer = "listening"
  /\ renderer' = "loading"
  /\ RendererGone
  /\ UNCHANGED <<now, zone, store, up, ready, tick, collecting, edits, history, started>>

WindowCloses ==
  /\ tick = Idle /\ renderer # "none"
  /\ renderer' = "none"
  /\ ready' = FALSE
  /\ RendererGone
  /\ UNCHANGED <<now, zone, store, up, tick, collecting, edits, history, started>>

WindowOpens ==
  /\ up /\ tick = Idle /\ renderer = "none"
  /\ renderer' = "loading"
  /\ ready' = FALSE
  /\ UNCHANGED <<now, zone, store, up, tick, window, agent, collecting, edits, history,
                 started>>

\* Between two writes of a tick too.
AppEnds ==
  /\ up
  /\ up' = FALSE
  /\ renderer' = "none" /\ ready' = FALSE
  /\ tick' = Idle
  /\ torn' = IF tick.pc \in {"created", "settled"} THEN torn \cup {tick.run} ELSE torn
  /\ collecting' = {}
  /\ RendererGone
  /\ UNCHANGED <<now, zone, store, edits, base, started>>

\* Possibly in another zone, which counts as an edit.
AppStarts ==
  /\ ~up
  /\ up' = TRUE
  /\ renderer' = "loading"
  /\ \/ UNCHANGED <<zone, edits>>
     \/ /\ HasRoom /\ edits < MaxEdits /\ edits' = edits + 1
        /\ zone' \in Zone \ {zone}
  /\ UNCHANGED <<now, store, ready, tick, window, agent, collecting, history, started>>

\* It starts with the first automation.
Clock ==
  /\ tick = Idle /\ now < MaxTime /\ HasRoom
  /\ \E a \in Automation : base[a].at # -1
  /\ now' = now + 1
  /\ UNCHANGED <<zone, store, up, renderer, ready, tick, window, agent, collecting, edits,
                 history, started>>

-----------------------------------------------------------------------------
Init ==
  /\ now = 0 /\ zone = 0
  /\ autos = <<>> /\ runs = <<>> /\ made = 0
  /\ up = TRUE /\ renderer = "loading" /\ ready = FALSE
  /\ tick = Idle
  /\ disp = [r \in RunId |-> "none"] /\ pending = [r \in RunId |-> "none"]
  /\ agent = [r \in RunId |-> "none"]
  /\ page = {} /\ collecting = {}
  /\ edits = 0
  /\ base = [a \in Automation |-> [at |-> -1, zone |-> 0]]
  /\ torn = {} /\ started = [r \in RunId |-> 0]

Handles(r) == \/ Refuses(r) \/ Throws(r) \/ Passes(r) \/ LaunchFails(r) \/ Launches(r)
              \/ MarkDispatched(r) \/ Replied(r)

Next ==
  \/ \E a \in Automation : \/ CreateAutomation(a) \/ Reschedule(a) \/ Toggle(a)
                           \/ DeleteAutomation(a) \/ RunNow(a)
  \/ TickBegins \/ TickStep
  \/ \E r \in RunId : \/ Handles(r) \/ AgentDone(r) \/ AgentExits(r) \/ PageCompletes(r)
  \/ \E c \in collecting : Collected(c)
  \/ PageReads \/ Mounts \/ Reloads \/ WindowCloses \/ WindowOpens
  \/ AppEnds \/ AppStarts \/ Clock

\* The interval of the scheduler and the promises of the handlers, of which there
\* are finitely many to a run, so that no run can hold up another for ever.
Fairness == /\ WF_vars(TickBegins \/ TickStep)
            /\ WF_vars(\E r \in RunId : Handles(r))

FairSpec == Init /\ [][Next]_vars /\ Fairness

-----------------------------------------------------------------------------
(* Properties.                                                              *)

\* Types: the variables hold what the code declares.
TypeOK ==
  /\ now \in 0..MaxTime /\ zone \in 0..Period - 1
  /\ DOMAIN autos \subseteq Automation
  /\ \A a \in DOMAIN autos : autos[a] \in AutoRec
  /\ made \in 0..MaxRuns /\ DOMAIN runs \subseteq 1..made
  /\ \A r \in DOMAIN runs : runs[r] \in RunRec /\ runs[r].auto \in DOMAIN autos
  /\ up \in BOOLEAN /\ ready \in BOOLEAN
  /\ renderer \in {"none", "loading", "listening"}
  /\ ~up => renderer = "none"
  /\ renderer = "none" => ~ready
  /\ disp \in [RunId -> {"none", "asked", "launching", "launched", "replying", "watching"}]
  /\ pending \in [RunId -> {"none", "completed", "dispatch_failed"}]
  /\ agent \in [RunId -> {"none", "working", "done"}]
  /\ page \subseteq 1..made
  /\ collecting \subseteq [run : 1..made, by : {"handler", "page"}]
  /\ edits \in 0..MaxEdits /\ torn \subseteq 1..made

\* One occurrence of a schedule has at most one run, also when the process
\* ended between creating the run and advancing the automation.
OneRunPerOccurrence ==
  \A r, s \in DOMAIN runs :
    /\ runs[r].auto = runs[s].auto
    /\ runs[r].scheduledFor = runs[s].scheduledFor
    /\ runs[r].scheduledFor # Manual
    => r = s

\* The latest occurrence since the schedule was made either has its run or is
\* still to be evaluated, whatever ended between two writes of a tick.
NoOccurrenceLost ==
  \A a \in DOMAIN autos : \A t \in Latest(autos[a]) :
    /\ t > base[a].at
    /\ base[a].zone = zone
    => autos[a].nextRunAt <= t \/ Existing(a, t) # {}

\* An occurrence the schedule of its automation was made or edited after: after an
\* edit and a change of the zone, an occurrence that has its run can be the latest
\* once more, and is dispatched again.
Superseded(r) == runs[r].scheduledFor \in 0 .. base[runs[r].auto].at

\* No run starts two agents unless it is superseded, also when the process ended
\* between dispatching it and advancing the automation and the run is dispatched
\* again: the agent is started through the process that ended.
StartsOnce == \A r \in DOMAIN runs : ~Superseded(r) => started[r] <= 1

\* A final status gives way to no status that is not final, except for a run
\* whose tick was cut short or that is superseded, and is made again.
FinalStands ==
  [][\A r \in DOMAIN runs \cap DOMAIN runs' :
       /\ runs[r].status \in FinalStatus
       /\ runs'[r].status \notin FinalStatus
       => r \in torn \/ Superseded(r)]_vars

\* While the app runs, an automation that is due is evaluated and advanced.
DueIsHandled == \A a \in Automation : Due(a) /\ up ~> ~Due(a) \/ ~up

\* A run whose handler has come to its launch does not stay "dispatching" as long
\* as the renderer lives. One whose handler throws before that may.
LaunchSettles ==
  \A r \in RunId : disp[r] \notin {"none", "asked"} ~> \/ r \notin DOMAIN runs
                                                      \/ runs[r].status # "dispatching"
                                                      \/ renderer # "listening"

=============================================================================
