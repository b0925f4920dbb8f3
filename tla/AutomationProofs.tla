--------------------------- MODULE AutomationProofs ---------------------------
(***************************************************************************)
(* Theorems about AutomationScheduler, for any automations, period, grace, *)
(* zones and bounds: an occurrence has one run, none is lost, no run is    *)
(* started twice, and a final status stands. In this order: one run per    *)
(* occurrence; the arithmetic of occurrences; types, with what the tick    *)
(* under way and the schedules refer to; what a step does to the rows; and, *)
(* each with its own invariant, the occurrences that are not lost, the     *)
(* runs that start once and the final statuses.                            *)
(***************************************************************************)
EXTENDS AutomationScheduler, FiniteSetTheorems, TLAPS

\* A run as far as the argument needs it.
Run == [auto : Automation, scheduledFor : Int, status : Status, usage : BOOLEAN]

Heard == {"none", "completed", "dispatch_failed"}

Inv ==
  /\ made \in Nat
  /\ runs \in [DOMAIN runs -> Run] /\ DOMAIN runs \subseteq 1 .. made
  /\ pending \in [RunId -> Heard]
  /\ OneRunPerOccurrence

\* Runs are deleted or change, but none becomes a run of something else.
Keeps(R) ==
  /\ R \in [DOMAIN R -> Run] /\ DOMAIN R \subseteq DOMAIN runs
  /\ \A r \in DOMAIN R : /\ R[r].auto = runs[r].auto
                         /\ R[r].scheduledFor = runs[r].scheduledFor

\* A run is created under the next id, by hand or for an occurrence without one.
Adds(R) ==
  /\ R \in [DOMAIN R -> Run] /\ DOMAIN R = DOMAIN runs \cup {made + 1}
  /\ \A r \in DOMAIN runs : /\ R[r].auto = runs[r].auto
                            /\ R[r].scheduledFor = runs[r].scheduledFor
  /\ R[made + 1].scheduledFor # Manual =>
       Existing(R[made + 1].auto, R[made + 1].scheduledFor) = {}

LEMMA KeepsInv ==
  ASSUME Inv, Keeps(runs'), made' = made, pending' \in [RunId -> Heard]
  PROVE  Inv'
<1>1. OneRunPerOccurrence'
  BY DEF Inv, Keeps, OneRunPerOccurrence
<1>2. DOMAIN runs' \subseteq 1 .. made'
  BY DEF Inv, Keeps
<1> QED
  BY <1>1, <1>2 DEF Inv, Keeps

LEMMA AddsInv ==
  ASSUME Inv, Adds(runs'), made' = made + 1, pending' \in [RunId -> Heard]
  PROVE  Inv'
<1>1. made \in Nat /\ DOMAIN runs \subseteq 1 .. made
  BY DEF Inv
<1>2. made + 1 \notin DOMAIN runs
  BY <1>1
<1>3. ASSUME NEW r \in DOMAIN runs, runs'[r].auto = runs'[made + 1].auto,
             runs'[r].scheduledFor = runs'[made + 1].scheduledFor
      PROVE  runs'[r].scheduledFor = Manual
  BY <1>3 DEF Adds, Existing
<1>4. OneRunPerOccurrence'
  <2> SUFFICES ASSUME NEW r \in DOMAIN runs', NEW s \in DOMAIN runs',
                      runs'[r].auto = runs'[s].auto,
                      runs'[r].scheduledFor = runs'[s].scheduledFor,
                      runs'[r].scheduledFor # Manual
               PROVE  r = s
    BY DEF OneRunPerOccurrence, Manual
  <2>1. CASE r \in DOMAIN runs /\ s \in DOMAIN runs
    BY <2>1 DEF Adds, Inv, OneRunPerOccurrence
  <2>2. CASE r = made + 1 /\ s \in DOMAIN runs
    BY <1>3, <2>2
  <2>3. CASE r \in DOMAIN runs /\ s = made + 1
    BY <1>3, <2>3
  <2>4. CASE r = made + 1 /\ s = made + 1
    BY <2>4
  <2> QED
    BY <2>1, <2>2, <2>3, <2>4 DEF Adds
<1>5. DOMAIN runs' \subseteq 1 .. made' /\ made' \in Nat
  BY <1>1 DEF Adds
<1> QED
  BY <1>4, <1>5 DEF Inv, Adds

-----------------------------------------------------------------------------
(* The writes.                                                              *)

LEMMA Unchanged == Inv => Keeps(runs)
BY DEF Inv, Keeps

\* A row is changed, if it is there, in what does not make it another run's.
LEMMA RowKeeps ==
  ASSUME Inv, NEW r, NEW row,
         r \in DOMAIN runs => /\ row \in Run
                              /\ row.auto = runs[r].auto
                              /\ row.scheduledFor = runs[r].scheduledFor
  PROVE  Keeps([runs EXCEPT ![r] = row])
<1> DEFINE R == [runs EXCEPT ![r] = row]
<1>1. runs \in [DOMAIN runs -> Run] /\ DOMAIN R = DOMAIN runs
  BY DEF Inv
<1>2. ASSUME NEW s \in DOMAIN runs
      PROVE  R[s] \in Run /\ R[s].auto = runs[s].auto /\ R[s].scheduledFor = runs[s].scheduledFor
  <2>1. CASE s = r
    BY <1>1, <2>1
  <2>2. CASE s # r
    BY <1>1, <2>2
  <2> QED
    BY <2>1, <2>2
<1>3. R \in [DOMAIN R -> Run]
  BY <1>1, <1>2
<1> HIDE DEF R
<1>4. Keeps(R)
  BY <1>1, <1>2, <1>3 DEF Keeps
<1> QED
  BY <1>4 DEF R

LEMMA StatusKeeps ==
  ASSUME Inv, NEW r, NEW status \in Status
  PROVE  Keeps([runs EXCEPT ![r].status = status])
<1> DEFINE row == [runs[r] EXCEPT !.status = status]
<1>1. r \in DOMAIN runs => /\ row \in Run
                           /\ row.auto = runs[r].auto
                           /\ row.scheduledFor = runs[r].scheduledFor
  <2> SUFFICES ASSUME r \in DOMAIN runs
               PROVE  /\ row \in Run
                      /\ row.auto = runs[r].auto
                      /\ row.scheduledFor = runs[r].scheduledFor
    OBVIOUS
  <2>1. runs[r] \in Run
    BY DEF Inv
  <2> QED
    BY <2>1 DEF Run
<1> HIDE DEF row
<1>2. Keeps([runs EXCEPT ![r] = row])
  BY <1>1, RowKeeps
<1> QED
  BY <1>2 DEF row

LEMMA MarkKeeps ==
  ASSUME Inv, NEW r, NEW status \in Status, NEW by, Mark(r, status, by)
  PROVE  Keeps(runs')
<1>1. CASE r \in DOMAIN runs
  <2> DEFINE u == runs[r].usage \/ (status \in FinalStatus /\ ~(status = "completed" /\ ~runs[r].usage))
             row == [runs[r] EXCEPT !.status = status, !.usage = u]
  <2>1. runs' = [runs EXCEPT ![r] = row]
    BY <1>1 DEF Mark
  <2>2. u \in BOOLEAN
    OBVIOUS
  <2> HIDE DEF u
  <2>3. runs[r] \in Run
    BY <1>1 DEF Inv
  <2>4. row \in Run /\ row.auto = runs[r].auto /\ row.scheduledFor = runs[r].scheduledFor
    BY <2>2, <2>3 DEF Run
  <2> HIDE DEF row
  <2> QED
    BY <2>1, <2>4, RowKeeps
<1>2. CASE r \notin DOMAIN runs
  BY <1>2, Unchanged DEF Mark
<1> QED
  BY <1>1, <1>2

LEMMA CreateAdds ==
  ASSUME Inv, NEW a \in Automation, NEW at \in Int, at # Manual => Existing(a, at) = {}
  PROVE  Adds(WithRun(NewRun(a, at)))
<1> DEFINE row == NewRun(a, at)
           R == WithRun(row)
<1>1. made \in Nat /\ DOMAIN runs \subseteq 1 .. made /\ runs \in [DOMAIN runs -> Run]
  BY DEF Inv
<1>2. made + 1 \notin DOMAIN runs
  BY <1>1
<1>3. row \in Run /\ row.auto = a /\ row.scheduledFor = at
  BY DEF NewRun, Run, Status
<1> HIDE DEF row
<1>4. /\ DOMAIN R = DOMAIN runs \cup {made + 1} /\ R[made + 1] = row
      /\ \A r \in DOMAIN runs : R[r] = runs[r]
      /\ R = [r \in DOMAIN R |-> R[r]]
  BY <1>2 DEF WithRun
<1> HIDE DEF R
<1>5. R \in [DOMAIN R -> Run]
  BY <1>1, <1>3, <1>4
<1>6. Adds(R)
  BY <1>3, <1>4, <1>5 DEF Adds
<1> QED
  BY <1>6 DEF R, row

LEMMA AddedStatus ==
  ASSUME Inv, NEW R, Adds(R), NEW status \in Status
  PROVE  Adds([R EXCEPT ![made + 1].status = status])
<1> DEFINE row == [R[made + 1] EXCEPT !.status = status]
           Q == [R EXCEPT ![made + 1] = row]
<1>1. /\ made \in Nat /\ DOMAIN runs \subseteq 1 .. made
      /\ R \in [DOMAIN R -> Run] /\ DOMAIN R = DOMAIN runs \cup {made + 1}
  BY DEF Inv, Adds
<1>2. R[made + 1] \in Run /\ made + 1 \notin DOMAIN runs
  BY <1>1
<1>3. /\ row \in Run /\ row.auto = R[made + 1].auto
      /\ row.scheduledFor = R[made + 1].scheduledFor
  BY <1>2 DEF Run
<1> HIDE DEF row
<1>4. /\ DOMAIN Q = DOMAIN R /\ Q[made + 1] = row /\ Q \in [DOMAIN R -> Run]
      /\ \A r \in DOMAIN runs : Q[r] = R[r]
  BY <1>1, <1>2, <1>3
<1> HIDE DEF Q
<1>5. Adds(Q)
  BY <1>1, <1>3, <1>4 DEF Adds
<1> QED
  BY <1>5 DEF Q, row

-----------------------------------------------------------------------------
(* The steps.                                                               *)

LEMMA QuietStep ==
  ASSUME Inv, runs' = runs, made' = made, pending' \in [RunId -> Heard]
  PROVE  Inv'
BY Unchanged, KeepsInv

LEMMA PendingType ==
  ASSUME Inv
  PROVE  /\ pending \in [RunId -> Heard]
         /\ pending' = pending => pending' \in [RunId -> Heard]
BY DEF Inv

LEMMA StatusType == /\ {"skipped", "dispatching", "dispatched"} \subseteq Status
                    /\ {"completed", "dispatch_failed"} \subseteq Status
BY DEF Status, FinalStatus

LEMMA UserStep ==
  ASSUME Inv, NEW a \in Automation,
         CreateAutomation(a) \/ Reschedule(a) \/ Toggle(a) \/ DeleteAutomation(a) \/ RunNow(a)
  PROVE  Inv'
<1>1. CASE CreateAutomation(a) \/ Reschedule(a) \/ Toggle(a)
  BY <1>1, QuietStep, PendingType DEF CreateAutomation, Reschedule, Toggle, window
<1>2. CASE DeleteAutomation(a)
  <2> DEFINE S == {r \in DOMAIN runs : runs[r].auto # a}
             R == Restrict(runs, S)
  <2>1. runs' = R /\ made' = made /\ pending' = pending
    BY <1>2 DEF DeleteAutomation, window
  <2>2. DOMAIN R = S /\ (\A r \in S : R[r] = runs[r]) /\ R = [r \in S |-> R[r]]
    BY DEF Restrict
  <2>3. S \subseteq DOMAIN runs /\ runs \in [DOMAIN runs -> Run]
    BY DEF Inv
  <2> HIDE DEF R, S
  <2>4. Keeps(R)
    BY <2>2, <2>3 DEF Keeps
  <2> QED
    BY <2>1, <2>4, KeepsInv, PendingType
<1>3. CASE RunNow(a)
  <2>1. Manual \in Int
    BY DEF Manual
  <2>2. Adds(WithRun(NewRun(a, Manual)))
    BY <2>1, CreateAdds
  <2>3. PICK status \in Status :
          runs' = [WithRun(NewRun(a, Manual)) EXCEPT ![made + 1].status = status]
    BY <1>3, StatusType DEF RunNow, Request
  <2>4. Adds(runs')
    BY <2>2, <2>3, AddedStatus
  <2> QED
    BY <1>3, <2>4, AddsInv, PendingType DEF RunNow
<1> QED
  BY <1>1, <1>2, <1>3

LEMMA TickStepInv ==
  ASSUME Inv, TickBegins \/ TickStep
  PROVE  Inv'
<1>1. CASE TickBegins
  BY <1>1, QuietStep, PendingType DEF TickBegins, store, window
<1>2. CASE Skips
  <2>1. Keeps(runs') /\ made' = made /\ pending' = pending
    BY <1>2, StatusKeeps, StatusType DEF Skips, window
  <2> QED
    BY <2>1, KeepsInv, PendingType
<1>3. CASE Dispatches
  <2>1. PICK status \in Status : runs' = [runs EXCEPT ![tick.run].status = status]
    BY <1>3, StatusType DEF Dispatches, Request
  <2>2. Keeps(runs') /\ made' = made /\ pending' = pending
    BY <1>3, <2>1, StatusKeeps DEF Dispatches
  <2> QED
    BY <2>2, KeepsInv, PendingType
<1>4. CASE Settles
  BY <1>4, QuietStep, PendingType DEF Settles, window
<1>5. ASSUME NEW a \in Automation, Creates(a)
      PROVE  Inv'
  <2>1. PICK at \in Latest(autos[a]) : CreateRun(a, at)
    BY <1>5 DEF Creates
  <2>2. at \in Int
    BY <2>1 DEF Latest
  <2>3. pending' \in [RunId -> Heard]
    BY <1>5, PendingType DEF Creates, window
  <2>4. CASE Existing(a, at) # {}
    BY <2>1, <2>3, <2>4, QuietStep DEF CreateRun
  <2>5. CASE Existing(a, at) = {}
    <3>1. runs' = WithRun(NewRun(a, at)) /\ made' = made + 1
      BY <2>1, <2>5 DEF CreateRun
    <3>2. Adds(runs')
      BY <2>2, <2>5, <3>1, CreateAdds
    <3> QED
      BY <2>3, <3>1, <3>2, AddsInv
  <2> QED
    BY <2>4, <2>5
<1>6. ASSUME NEW a \in Automation, NoOccurrence(a)
      PROVE  Inv'
  BY <1>6, QuietStep, PendingType DEF NoOccurrence, window
<1> QED
  BY <1>1, <1>2, <1>3, <1>4, <1>5, <1>6 DEF TickStep

LEMMA HandlerStep ==
  ASSUME Inv, NEW r \in RunId, Handles(r)
  PROVE  Inv'
<1>1. CASE Refuses(r)
  <2>1. Keeps(runs') /\ made' = made /\ pending' = pending
    BY <1>1, MarkKeeps, StatusType DEF Refuses
  <2> QED
    BY <2>1, KeepsInv, PendingType
<1>2. CASE LaunchFails(r)
  <2>1. Keeps(runs') /\ made' = made /\ pending' = pending
    BY <1>2, MarkKeeps, StatusType DEF LaunchFails
  <2> QED
    BY <2>1, KeepsInv, PendingType
<1>6. CASE Throws(r) \/ Passes(r)
  BY <1>6, QuietStep, PendingType DEF Throws, Passes, store
<1>3. CASE Launches(r)
  <2>1. runs' = runs /\ made' = made /\ pending' = [pending EXCEPT ![r] = "none"]
    BY <1>3 DEF Launches, store
  <2>2. pending' \in [RunId -> Heard]
    BY <2>1, PendingType DEF Heard
  <2> QED
    BY <2>1, <2>2, QuietStep
<1>4. CASE MarkDispatched(r)
  <2>1. Keeps(runs') /\ made' = made /\ pending' = pending
    BY <1>4, MarkKeeps, StatusType DEF MarkDispatched
  <2> QED
    BY <2>1, KeepsInv, PendingType
<1>5. CASE Replied(r)
  <2>1. made' = made /\ pending' = [pending EXCEPT ![r] = "none"]
    BY <1>5 DEF Replied
  <2>2. pending' \in [RunId -> Heard]
    BY <2>1, PendingType DEF Heard
  <2>3. CASE pending[r] = "none"
    BY <1>5, <2>1, <2>2, <2>3, QuietStep DEF Replied
  <2>4. CASE pending[r] # "none"
    <3>1. pending[r] \in Status
      BY <2>4, PendingType, StatusType DEF Heard
    <3>2. Mark(r, pending[r], "handler")
      BY <1>5, <2>4 DEF Replied
    <3>3. Keeps(runs')
      BY <3>1, <3>2, MarkKeeps
    <3> QED
      BY <2>1, <2>2, <3>3, KeepsInv
  <2> QED
    BY <2>3, <2>4
<1> QED
  BY <1>1, <1>2, <1>3, <1>4, <1>5, <1>6 DEF Handles

LEMMA HearsStep ==
  ASSUME Inv, NEW r \in RunId, NEW status \in {"completed", "dispatch_failed"},
         Hears(r, status), made' = made
  PROVE  Inv'
<1>1. CASE disp[r] \in {"launched", "replying"}
  <2>1. runs' = runs /\ pending' = [pending EXCEPT ![r] = status]
    BY <1>1 DEF Hears
  <2>2. pending' \in [RunId -> Heard]
    BY <2>1, PendingType DEF Heard
  <2> QED
    BY <2>1, <2>2, QuietStep
<1>2. CASE disp[r] = "watching"
  <2>1. Mark(r, status, "handler") /\ pending' = pending
    BY <1>2 DEF Hears
  <2>2. Keeps(runs')
    BY <2>1, MarkKeeps, StatusType
  <2> QED
    BY <2>1, <2>2, KeepsInv, PendingType
<1>3. CASE disp[r] \notin {"launched", "replying", "watching"}
  <2>1. runs' = runs /\ pending' = pending
    BY <1>3 DEF Hears
  <2> QED
    BY <2>1, QuietStep, PendingType
<1> QED
  BY <1>1, <1>2, <1>3

LEMMA AgentStep ==
  ASSUME Inv, NEW r \in RunId, AgentDone(r) \/ AgentExits(r) \/ PageCompletes(r)
  PROVE  Inv'
<1>1. CASE AgentDone(r)
  BY <1>1, HearsStep DEF AgentDone
<1>2. CASE AgentExits(r)
  BY <1>2, HearsStep DEF AgentExits
<1>3. CASE PageCompletes(r)
  <2>1. Keeps(runs') /\ made' = made /\ pending' = pending
    BY <1>3, MarkKeeps, StatusType DEF PageCompletes
  <2> QED
    BY <2>1, KeepsInv, PendingType
<1> QED
  BY <1>1, <1>2, <1>3

LEMMA CollectedStep ==
  ASSUME Inv, NEW c \in collecting, Collected(c)
  PROVE  Inv'
<1>1. made' = made /\ pending' = pending
  BY DEF Collected, window
<1>2. CASE c.run \in DOMAIN runs
  <2> DEFINE row == [runs[c.run] EXCEPT !.status = "completed", !.usage = TRUE]
  <2>1. runs' = [runs EXCEPT ![c.run] = row]
    BY <1>2 DEF Collected
  <2>2. runs[c.run] \in Run
    BY <1>2 DEF Inv
  <2>3. /\ row \in Run /\ row.auto = runs[c.run].auto
        /\ row.scheduledFor = runs[c.run].scheduledFor
    BY <2>2, StatusType DEF Run
  <2> HIDE DEF row
  <2> QED
    BY <1>1, <2>1, <2>3, RowKeeps, KeepsInv, PendingType
<1>3. CASE c.run \notin DOMAIN runs
  BY <1>1, <1>3, QuietStep, PendingType DEF Collected
<1> QED
  BY <1>2, <1>3

LEMMA AppStep ==
  ASSUME Inv,
         \/ PageReads \/ Mounts \/ Reloads \/ WindowCloses \/ WindowOpens
         \/ AppEnds \/ AppStarts \/ Clock
  PROVE  Inv'
<1>1. runs' = runs /\ made' = made
  BY DEF PageReads, Mounts, Reloads, WindowCloses, WindowOpens, AppEnds, AppStarts, Clock, store
<1>2. pending' = pending \/ pending' = [r \in RunId |-> "none"]
  BY DEF PageReads, Mounts, Reloads, WindowCloses, WindowOpens, AppEnds, AppStarts, Clock,
         RendererGone, window
<1>3. pending' \in [RunId -> Heard]
  BY <1>2, PendingType DEF Heard
<1> QED
  BY <1>1, <1>3, QuietStep

LEMMA InitInv == Init => Inv
<1> SUFFICES ASSUME Init PROVE Inv
  OBVIOUS
<1>1. runs = <<>> /\ made = 0 /\ pending = [r \in RunId |-> "none"]
  BY DEF Init
<1>2. DOMAIN runs = {} /\ runs \in [DOMAIN runs -> Run]
  BY <1>1
<1>3. pending \in [RunId -> Heard]
  BY <1>1 DEF Heard
<1> QED
  BY <1>1, <1>2, <1>3 DEF Inv, OneRunPerOccurrence

LEMMA StepInv == Inv /\ [Next]_vars => Inv'
<1> SUFFICES ASSUME Inv, [Next]_vars PROVE Inv'
  OBVIOUS
<1>1. ASSUME NEW a \in Automation,
             CreateAutomation(a) \/ Reschedule(a) \/ Toggle(a) \/ DeleteAutomation(a) \/ RunNow(a)
      PROVE  Inv'
  BY <1>1, UserStep
<1>2. CASE TickBegins \/ TickStep
  BY <1>2, TickStepInv
<1>3. ASSUME NEW r \in RunId, Handles(r)
      PROVE  Inv'
  BY <1>3, HandlerStep
<1>4. ASSUME NEW r \in RunId, AgentDone(r) \/ AgentExits(r) \/ PageCompletes(r)
      PROVE  Inv'
  BY <1>4, AgentStep
<1>5. ASSUME NEW c \in collecting, Collected(c)
      PROVE  Inv'
  BY <1>5, CollectedStep
<1>6. CASE \/ PageReads \/ Mounts \/ Reloads \/ WindowCloses \/ WindowOpens
           \/ AppEnds \/ AppStarts \/ Clock
  BY <1>6, AppStep
<1>7. CASE UNCHANGED vars
  BY <1>7, QuietStep, PendingType DEF vars
<1> QED
  BY <1>1, <1>2, <1>3, <1>4, <1>5, <1>6, <1>7 DEF Next

-----------------------------------------------------------------------------

\* createAutomationRun finds the run of an occurrence that was evaluated before:
\* however often the process ends between two writes of a tick, the zone
\* changes or the schedule is edited, no occurrence has two runs.
THEOREM SingleRun == FairSpec => []OneRunPerOccurrence
<1>1. Init => Inv
  BY InitInv
<1>2. Inv /\ [Next]_vars => Inv'
  BY StepInv
<1>3. Inv => OneRunPerOccurrence
  BY DEF Inv
<1> QED
  BY <1>1, <1>2, <1>3, PTL DEF FairSpec

-----------------------------------------------------------------------------
(* Arithmetic of occurrences: they are a period apart, and NextAfter and    *)
(* Latest find the neighbours of an instant among them.                     *)

LEMMA Division ==
  ASSUME NEW P \in Nat \ {0}, NEW x \in Int
  PROVE  \E q \in Int, r \in 0 .. P - 1 : r = x % P /\ x = P * q + r
<1>1. PICK r \in 0 .. P - 1 : r = x % P
  OBVIOUS
<1>2. PICK q \in Int : q = x \div P
  OBVIOUS
<1>3. x % P = x - P * (x \div P)
  OBVIOUS
<1>4. r = x - P * q
  BY <1>1, <1>2, <1>3
<1>5. P * q \in Int
  OBVIOUS
<1>6. x = P * q + r
  BY <1>4, <1>5
<1> QED
  BY <1>1, <1>6

LEMMA Times ==
  ASSUME NEW P \in Nat \ {0}, NEW q \in Int, NEW p \in Int, p < q
  PROVE  P * q >= P * p + P
<1>1. q - p - 1 \in Nat
  OBVIOUS
<1>2. P * (q - p - 1) >= 0
  BY <1>1
<1>3. P * q = P * (q - p - 1) + P * p + P
  OBVIOUS
<1> QED
  BY <1>2, <1>3

\* Two quotients with their rests: the smaller number has the smaller quotient.
LEMMA Quotients ==
  ASSUME NEW P \in Nat \ {0}, NEW p \in Int, NEW q \in Int,
         NEW r \in 0 .. P - 1, NEW s \in 0 .. P - 1
  PROVE  /\ P * p + r = P * q + s => r = s
         /\ P * p + r < P * q + r => P * q + r >= P * p + r + P
<1>1. CASE p < q
  BY <1>1, Times
<1>2. CASE q < p
  BY <1>2, Times
<1>3. CASE p = q
  BY <1>3
<1> QED
  BY <1>1, <1>2, <1>3

LEMMA Remainder ==
  ASSUME NEW P \in Nat \ {0}, NEW x \in Int, NEW q \in Int, NEW r \in 0 .. P - 1,
         x = P * q + r
  PROVE  x % P = r
<1>1. PICK p \in Int, s \in 0 .. P - 1 : s = x % P /\ x = P * p + s
  BY Division
<1>2. P * p + s = P * q + r
  BY <1>1
<1>3. s = r
  BY <1>2, Quotients
<1> QED
  BY <1>1, <1>3

\* Two instants of one schedule are a period apart.
LEMMA Apart ==
  ASSUME NEW P \in Nat \ {0}, NEW x \in Int, NEW y \in Int, x < y, x % P = y % P
  PROVE  y >= x + P
<1>1. PICK p \in Int, r \in 0 .. P - 1 : r = x % P /\ x = P * p + r
  BY Division
<1>2. PICK q \in Int, s \in 0 .. P - 1 : s = y % P /\ y = P * q + s
  BY Division
<1>3. r = s
  BY <1>1, <1>2
<1>4. y = P * q + r
  BY <1>2, <1>3
<1>5. P * p + r < P * q + r
  BY <1>1, <1>4
<1>6. P * q + r >= P * p + r + P
  BY <1>5, Quotients
<1> QED
  BY <1>1, <1>4, <1>6

LEMMA Reached ==
  ASSUME NEW P \in Nat \ {0}, NEW x \in Int, NEW phase \in 0 .. P - 1
  PROVE  \E d \in 0 .. P - 1 : (x + d) % P = phase
<1>1. PICK q \in Int, r \in 0 .. P - 1 : x = P * q + r
  BY Division
<1>2. ASSUME NEW d \in 0 .. P - 1, NEW p \in Int, x + d = P * p + phase
      PROVE  (x + d) % P = phase
  <2>1. PICK y \in Int : y = x + d
    OBVIOUS
  <2>2. y % P = phase
    BY <1>2, <2>1, Remainder
  <2> QED
    BY <2>1, <2>2
<1>3. CASE r <= phase
  <2>1. phase - r \in 0 .. P - 1 /\ x + (phase - r) = P * q + phase
    BY <1>1, <1>3
  <2> QED
    BY <1>2, <2>1, Zenon
<1>4. CASE r > phase
  <2>1. P * (q + 1) = P * q + P /\ q + 1 \in Int
    OBVIOUS
  <2>2. phase - r + P \in 0 .. P - 1 /\ x + (phase - r + P) = P * (q + 1) + phase
    BY <1>1, <1>4, <2>1
  <2> QED
    BY <1>2, <2>1, <2>2, Zenon
<1> QED
  BY <1>1, <1>3, <1>4
-----------------------------------------------------------------------------
(* Schedules: the next occurrence exists, and is the first one.              *)

LEMMA NextIsFirst ==
  ASSUME zone \in 0 .. Period - 1, NEW phase \in 0 .. Period - 1, NEW start \in Nat,
         NEW after \in Nat
  PROVE  /\ NextAfter(phase, start, after) \in Nat
         /\ NextAfter(phase, start, after) > after
         /\ Matches(phase, NextAfter(phase, start, after))
         /\ \A t \in Int : t >= start /\ t > after /\ Matches(phase, t)
                             => t >= NextAfter(phase, start, after)
<1> DEFINE from == MaxOf(start - 1, after)
           n == NextAfter(phase, start, after)
<1>1. Period \in Nat \ {0} /\ zone \in Int
  BY SchedulerAssumption
<1>2. /\ from \in Nat /\ from >= after
      /\ \A t \in Int : t >= start /\ t > after => t > from
  BY DEF MaxOf
<1>3. n = CHOOSE t \in from + 1 .. from + Period : Matches(phase, t)
  BY DEF NextAfter
<1> HIDE DEF from, n
<1>4. \E t \in from + 1 .. from + Period : Matches(phase, t)
  <2>1. PICK x \in Int : x = from + 1 + zone
    BY <1>1, <1>2
  <2>2. PICK d \in 0 .. Period - 1 : (x + d) % Period = phase
    BY <1>1, Reached
  <2>3. PICK t \in Int : t = from + 1 + d
    BY <1>2
  <2>4. t \in from + 1 .. from + Period /\ t + zone = x + d
    BY <1>1, <1>2, <2>1, <2>3
  <2> QED
    BY <2>2, <2>4 DEF Matches
<1>5. n \in from + 1 .. from + Period /\ Matches(phase, n)
  BY <1>3, <1>4
<1>6. n \in Nat /\ n > after
  BY <1>1, <1>2, <1>5
<1>7. ASSUME NEW t \in Int, t >= start, t > after, Matches(phase, t)
      PROVE  t >= n
  <2> SUFFICES ASSUME t < n PROVE FALSE
    BY <1>6
  <2>1. t > from
    BY <1>2, <1>7
  <2>2. PICK x \in Int, y \in Int : x = t + zone /\ y = n + zone
    BY <1>1, <1>6
  <2>3. x % Period = y % Period /\ x < y
    BY <1>1, <1>5, <1>6, <1>7, <2>2 DEF Matches
  <2>4. y >= x + Period
    BY <1>1, <2>3, Apart
  <2> QED
    BY <1>1, <1>2, <1>5, <2>1, <2>2, <2>4
<1> QED
  BY <1>5, <1>6, <1>7 DEF n

\* Two matches of one schedule are a period apart.
LEMMA MatchesApart ==
  ASSUME zone \in 0 .. Period - 1, NEW phase, NEW t \in Int, NEW u \in Int, t < u,
         Matches(phase, t), Matches(phase, u)
  PROVE  u >= t + Period
<1>1. Period \in Nat \ {0} /\ zone \in Int
  BY SchedulerAssumption
<1>2. PICK x \in Int, y \in Int : x = t + zone /\ y = u + zone
  BY <1>1
<1>3. x % Period = y % Period /\ x < y
  BY <1>1, <1>2 DEF Matches
<1>4. y >= x + Period
  BY <1>1, <1>3, Apart
<1> QED
  BY <1>1, <1>2, <1>4

LEMMA LatestIs ==
  ASSUME now \in Nat, NEW auto \in AutoRec
  PROVE  \A t \in Int : t \in Latest(auto) <=> /\ t >= auto.start /\ t > now - Period
                                                /\ t <= now /\ Matches(auto.phase, t)
BY SchedulerAssumption DEF Latest, MaxOf, AutoRec

LEMMA LatestIsOne ==
  ASSUME now \in Nat, zone \in 0 .. Period - 1, NEW auto \in AutoRec,
         NEW t \in Latest(auto), NEW u \in Latest(auto)
  PROVE  t \in Nat /\ t = u
<1>1. t \in Int /\ u \in Int
  BY DEF Latest
<1>2. /\ t >= auto.start /\ t > now - Period /\ t <= now /\ Matches(auto.phase, t)
      /\ u >= auto.start /\ u > now - Period /\ u <= now /\ Matches(auto.phase, u)
  BY <1>1, LatestIs
<1>3. Period \in Nat /\ auto.start \in Nat
  BY SchedulerAssumption DEF AutoRec
<1>4. ~(t < u) /\ ~(u < t)
  BY <1>1, <1>2, <1>3, MatchesApart
<1> QED
  BY <1>1, <1>2, <1>3, <1>4

-----------------------------------------------------------------------------
(* Types, and what the tick under way and the schedules refer to.           *)

ClockOK == now \in 0 .. MaxTime /\ zone \in 0 .. Period - 1 /\ edits \in 0 .. MaxEdits

StoreOK ==
  /\ DOMAIN autos \subseteq Automation
  /\ \A a \in DOMAIN autos : autos[a] \in AutoRec
  /\ made \in 0 .. MaxRuns /\ DOMAIN runs \subseteq 1 .. made
  /\ \A r \in DOMAIN runs : runs[r] \in RunRec /\ runs[r].auto \in DOMAIN autos

AppOK ==
  /\ up \in BOOLEAN /\ ready \in BOOLEAN
  /\ renderer \in {"none", "loading", "listening"}
  /\ ~up => renderer = "none"
  /\ renderer = "none" => ~ready

HandlersOK ==
  /\ disp \in [RunId -> {"none", "asked", "launching", "launched", "replying", "watching"}]
  /\ pending \in [RunId -> Heard]
  /\ agent \in [RunId -> {"none", "working", "done"}]
  /\ started \in [RunId -> Nat]

MarksOK ==
  /\ page \subseteq 1 .. made
  /\ collecting \subseteq [run : 1 .. made, by : {"handler", "page"}]
  /\ torn \subseteq 1 .. made

\* The tick works on automations that are due, and on a run of one of them.
OnRun(a, r, at) ==
  /\ a \in Automation /\ Due(a)
  /\ r \in DOMAIN runs /\ runs[r].auto = a /\ runs[r].scheduledFor = at
  /\ at \in Latest(autos[a])

TickOK ==
  \/ tick = Idle
  \/ /\ up
     /\ \E todo \in SUBSET {a \in Automation : Due(a)} :
          \/ tick = [pc |-> "loop", todo |-> todo, now |-> now]
          \/ \E pc \in {"created", "settled"}, a \in Automation, r \in RunId, at \in Nat :
               /\ tick = [pc |-> pc, todo |-> todo, now |-> now, auto |-> a, run |-> r, at |-> at]
               /\ a \notin todo /\ OnRun(a, r, at)

\* What was scheduled or run was so at some time, and what was not made is new.
PastOK ==
  /\ base \in [Automation -> [at : Nat \cup {-1}, zone : 0 .. Period - 1]]
  /\ \A a \in Automation : base[a].at <= now
  /\ \A a \in DOMAIN autos : base[a].at # -1
  /\ \A r \in DOMAIN runs : runs[r].scheduledFor <= now
  /\ \A r \in RunId : r > made => disp[r] = "none" /\ started[r] = 0

Typed == ClockOK /\ StoreOK /\ AppOK /\ HandlersOK /\ MarksOK

LEMMA TypedIsTypeOK == Typed => TypeOK
BY DEF Typed, ClockOK, StoreOK, AppOK, HandlersOK, MarksOK, TypeOK, Heard

LEMMA Constants ==
  /\ Period \in Nat /\ Period > 0 /\ Grace \in Nat /\ MaxTime \in Nat
  /\ MaxRuns \in Nat /\ MaxEdits \in Nat /\ Cardinality(Automation) \in Nat
  /\ Zone \subseteq 0 .. Period - 1
BY SchedulerAssumption, FS_CardinalityType

LEMMA ClockStep == Typed /\ [Next]_vars => ClockOK' /\ now' \in {now, now + 1}
<1> SUFFICES ASSUME Typed, [Next]_vars
             PROVE  ClockOK' /\ now' \in {now, now + 1}
  OBVIOUS
<1> USE Constants DEF Typed, ClockOK
<1>1. ASSUME NEW a \in Automation,
             \/ CreateAutomation(a) \/ Reschedule(a) \/ Toggle(a) \/ DeleteAutomation(a)
             \/ RunNow(a) \/ Creates(a) \/ NoOccurrence(a)
      PROVE  ClockOK' /\ now' \in {now, now + 1}
  BY <1>1 DEF CreateAutomation, Reschedule, Toggle, DeleteAutomation, RunNow, Creates, NoOccurrence
<1>2. CASE TickBegins \/ Skips \/ Dispatches \/ Settles
  BY <1>2 DEF TickBegins, Skips, Dispatches, Settles
<1>3. ASSUME NEW r \in RunId, Handles(r) \/ AgentDone(r) \/ AgentExits(r) \/ PageCompletes(r)
      PROVE  ClockOK' /\ now' \in {now, now + 1}
  BY <1>3 DEF Handles, Refuses, Throws, Passes, LaunchFails, Launches, MarkDispatched, Replied,
              AgentDone, AgentExits, PageCompletes
<1>4. ASSUME NEW c \in collecting, Collected(c)
      PROVE  ClockOK' /\ now' \in {now, now + 1}
  BY <1>4 DEF Collected
<1>5. CASE PageReads \/ Mounts \/ Reloads \/ WindowCloses \/ WindowOpens \/ AppEnds
  BY <1>5 DEF PageReads, Mounts, Reloads, WindowCloses, WindowOpens, AppEnds
<1>6. CASE AppStarts
  <2>1. now' = now /\ (zone' = zone \/ zone' \in Zone)
    BY <1>6 DEF AppStarts
  <2>2. edits' \in 0 .. MaxEdits
    BY <1>6 DEF AppStarts
  <2> QED
    BY <2>1, <2>2
<1>7. CASE Clock
  BY <1>7 DEF Clock
<1>8. CASE UNCHANGED vars
  BY <1>8 DEF vars
<1> QED
  BY <1>1, <1>2, <1>3, <1>4, <1>5, <1>6, <1>7, <1>8 DEF Next, TickStep

LEMMA AppTypes == Typed /\ [Next]_vars => AppOK'
<1> SUFFICES ASSUME Typed, [Next]_vars
             PROVE  AppOK'
  OBVIOUS
<1> USE DEF Typed, AppOK
<1>1. ASSUME NEW a \in Automation,
             \/ CreateAutomation(a) \/ Reschedule(a) \/ Toggle(a) \/ DeleteAutomation(a)
             \/ RunNow(a) \/ Creates(a) \/ NoOccurrence(a)
      PROVE  AppOK'
  BY <1>1 DEF CreateAutomation, Reschedule, Toggle, DeleteAutomation, RunNow, Creates, NoOccurrence
<1>2. CASE TickBegins \/ Skips \/ Dispatches \/ Settles
  BY <1>2 DEF TickBegins, Skips, Dispatches, Settles
<1>3. ASSUME NEW r \in RunId, Handles(r) \/ AgentDone(r) \/ AgentExits(r) \/ PageCompletes(r)
      PROVE  AppOK'
  BY <1>3 DEF Handles, Refuses, Throws, Passes, LaunchFails, Launches, MarkDispatched, Replied,
              AgentDone, AgentExits, PageCompletes
<1>4. ASSUME NEW c \in collecting, Collected(c)
      PROVE  AppOK'
  BY <1>4 DEF Collected
<1>5. CASE PageReads \/ Mounts \/ Reloads \/ WindowCloses \/ WindowOpens \/ AppEnds
  BY <1>5 DEF PageReads, Mounts, Reloads, WindowCloses, WindowOpens, AppEnds
<1>6. CASE AppStarts
  <2>1. ~up /\ up' = TRUE /\ renderer' = "loading" /\ ready' = ready
    BY <1>6 DEF AppStarts
  <2> QED
    BY <2>1
<1>7. CASE Clock
  BY <1>7 DEF Clock
<1>8. CASE UNCHANGED vars
  BY <1>8 DEF vars
<1> QED
  BY <1>1, <1>2, <1>3, <1>4, <1>5, <1>6, <1>7, <1>8 DEF Next, TickStep

LEMMA HandlerTypes == Typed /\ [Next]_vars => HandlersOK'
<1> SUFFICES ASSUME Typed, [Next]_vars
             PROVE  HandlersOK'
  OBVIOUS
<1> USE DEF Typed, HandlersOK, Heard
<1>1. ASSUME NEW a \in Automation,
             \/ CreateAutomation(a) \/ Reschedule(a) \/ Toggle(a) \/ DeleteAutomation(a)
             \/ Creates(a) \/ NoOccurrence(a)
      PROVE  HandlersOK'
  BY <1>1 DEF CreateAutomation, Reschedule, Toggle, DeleteAutomation, Creates, NoOccurrence,
              window
<1>2. ASSUME NEW a \in Automation, RunNow(a)
      PROVE  HandlersOK'
  BY <1>2 DEF RunNow, Request
<1>3. CASE TickBegins \/ Skips \/ Settles
  BY <1>3 DEF TickBegins, Skips, Settles, window
<1>4. CASE Dispatches
  BY <1>4 DEF Dispatches, Request
<1>5. ASSUME NEW r \in RunId, Handles(r)
      PROVE  HandlersOK'
  <2>1. CASE Refuses(r)
    BY <2>1 DEF Refuses
  <2>2. CASE LaunchFails(r) \/ Throws(r) \/ Passes(r)
    BY <2>2 DEF LaunchFails, Throws, Passes
  <2>3. CASE Launches(r)
    BY <2>3 DEF Launches
  <2>4. CASE MarkDispatched(r)
    BY <2>4 DEF MarkDispatched
  <2>5. CASE Replied(r)
    BY <2>5 DEF Replied
  <2> QED
    BY <1>5, <2>1, <2>2, <2>3, <2>4, <2>5 DEF Handles
<1>6. ASSUME NEW r \in RunId, NEW status \in Heard, Hears(r, status)
      PROVE  /\ disp' \in [RunId -> {"none", "asked", "launching", "launched", "replying", "watching"}]
             /\ pending' \in [RunId -> Heard]
  BY <1>6 DEF Hears
<1>7. ASSUME NEW r \in RunId, AgentDone(r)
      PROVE  HandlersOK'
  BY <1>6, <1>7 DEF AgentDone
<1>8. ASSUME NEW r \in RunId, AgentExits(r)
      PROVE  HandlersOK'
  BY <1>6, <1>8 DEF AgentExits
<1>9. ASSUME NEW r \in RunId, PageCompletes(r)
      PROVE  HandlersOK'
  BY <1>9 DEF PageCompletes
<1>10. ASSUME NEW c \in collecting, Collected(c)
       PROVE  HandlersOK'
  BY <1>10 DEF Collected, window
<1>11. CASE PageReads \/ Mounts \/ WindowOpens \/ AppStarts \/ Clock \/ UNCHANGED vars
  BY <1>11 DEF PageReads, Mounts, WindowOpens, AppStarts, Clock, vars, window
<1>12. CASE Reloads \/ WindowCloses \/ AppEnds
  BY <1>12 DEF Reloads, WindowCloses, AppEnds, RendererGone
<1> QED
  BY <1>1, <1>2, <1>3, <1>4, <1>5, <1>7, <1>8, <1>9, <1>10, <1>11, <1>12 DEF Next, TickStep

-----------------------------------------------------------------------------
(* What a step does to the store.                                           *)

Unmoved == UNCHANGED <<autos, runs, made, base>>

\* Statuses and usage change.
Rewritten ==
  /\ UNCHANGED <<autos, made, base, now, zone>>
  /\ Keeps(runs') /\ DOMAIN runs' = DOMAIN runs

Removed(a) ==
  /\ a \in DOMAIN autos /\ UNCHANGED <<made, base, now, zone>>
  /\ DOMAIN autos' = DOMAIN autos \ {a}
  /\ \A b \in DOMAIN autos' : autos'[b] = autos[b]
  /\ DOMAIN runs' = {r \in DOMAIN runs : runs[r].auto # a}
  /\ \A r \in DOMAIN runs' : runs'[r] = runs[r]

Made(a, at) ==
  /\ a \in DOMAIN autos /\ UNCHANGED <<autos, base, now, zone>>
  /\ made < MaxRuns /\ made' = made + 1
  /\ Adds(runs') /\ runs'[made + 1].auto = a /\ runs'[made + 1].scheduledFor = at
  /\ at = Manual \/ (tick.pc = "loop" /\ a \in tick.todo /\ at \in Latest(autos[a]))

\* Automation a becomes row.
Becomes(a, row) ==
  /\ UNCHANGED <<runs, made, now, zone>>
  /\ DOMAIN autos' = DOMAIN autos \cup {a} /\ autos'[a] = row
  /\ \A b \in DOMAIN autos : b # a => autos'[b] = autos[b]

Plans(a, row) ==
  /\ Becomes(a, row)
  /\ a \notin DOMAIN autos => base[a].at = -1
  /\ row \in AutoRec /\ row.nextRunAt = NextAfter(row.phase, row.start, now)
  /\ base' = [base EXCEPT ![a] = [at |-> now, zone |-> zone]]

Switches(a, row) ==
  /\ a \in DOMAIN autos /\ Becomes(a, row) /\ base' = base
  /\ row = [autos[a] EXCEPT !.enabled = ~@]

AdvancesTo(a, row) ==
  /\ a \in DOMAIN autos /\ Becomes(a, row) /\ Due(a)
  /\ row = [autos[a] EXCEPT !.nextRunAt = NextAfter(autos[a].phase, autos[a].start, now)]
  /\ base' = [base EXCEPT ![a].zone = zone]
  /\ \/ tick.pc = "loop" /\ a \in tick.todo /\ Latest(autos[a]) = {}
     \/ tick.pc = "settled" /\ a = tick.auto /\ OnRun(a, tick.run, tick.at)

StoreStep ==
  \/ Unmoved
  \/ Rewritten
  \/ \E a \in Automation : \/ Removed(a) \/ \E at \in Int : Made(a, at)
                           \/ \E row : \/ Plans(a, row) \/ Switches(a, row)
                                       \/ AdvancesTo(a, row)

LEMMA MarkRewrites ==
  ASSUME Inv, NEW r, NEW status \in Status, NEW by, Mark(r, status, by)
  PROVE  Keeps(runs') /\ DOMAIN runs' = DOMAIN runs
<1>1. DOMAIN runs' = DOMAIN runs
  BY DEF Mark
<1> QED
  BY <1>1, MarkKeeps

\* The fields of the tick.
LEMMA TickFields ==
  ASSUME TickOK, StoreOK
  PROVE  /\ tick = Idle \/ up
         /\ tick.pc \in {"idle", "loop", "created", "settled"}
         /\ tick.pc = "idle" => tick = Idle
         /\ tick.pc # "idle" => /\ tick.now = now
                                /\ \A a \in tick.todo : a \in Automation /\ Due(a)
         /\ tick.pc \in {"created", "settled"} => /\ OnRun(tick.auto, tick.run, tick.at)
                                                  /\ tick.auto \notin tick.todo
                                                  /\ tick.run \in RunId /\ tick.at \in Nat
<1>1. CASE tick = Idle
  BY <1>1 DEF Idle
<1>2. ASSUME NEW todo \in SUBSET {a \in Automation : Due(a)}, up,
             tick = [pc |-> "loop", todo |-> todo, now |-> now]
      PROVE  /\ up /\ tick.pc = "loop" /\ tick.now = now
             /\ \A a \in tick.todo : a \in Automation /\ Due(a)
  BY <1>2
<1>3. ASSUME NEW todo \in SUBSET {a \in Automation : Due(a)}, up,
             NEW pc \in {"created", "settled"}, NEW a \in Automation, NEW r \in RunId,
             NEW at \in Nat,
             tick = [pc |-> pc, todo |-> todo, now |-> now, auto |-> a, run |-> r, at |-> at],
             a \notin todo, OnRun(a, r, at)
      PROVE  /\ up /\ tick.pc \in {"created", "settled"} /\ tick.now = now
             /\ \A b \in tick.todo : b \in Automation /\ Due(b)
             /\ OnRun(tick.auto, tick.run, tick.at) /\ tick.auto \notin tick.todo
             /\ tick.run \in RunId /\ tick.at \in Nat
  <2>1. /\ tick.pc = pc /\ tick.todo = todo /\ tick.now = now
        /\ tick.auto = a /\ tick.run = r /\ tick.at = at
    BY <1>3
  <2> QED
    BY <1>3, <2>1
<1> QED
  BY <1>1, <1>2, <1>3 DEF TickOK

LEMMA UserStores ==
  ASSUME Inv, Typed, NEW a \in Automation,
         CreateAutomation(a) \/ Reschedule(a) \/ Toggle(a) \/ DeleteAutomation(a) \/ RunNow(a)
  PROVE  StoreStep
<1>0. /\ zone \in 0 .. Period - 1 /\ now \in Nat /\ made \in Nat
      /\ \A b \in DOMAIN autos : autos[b] \in AutoRec
      /\ \A b \in DOMAIN autos : b \in Automation
  BY Constants DEF Typed, ClockOK, StoreOK
<1>1. CASE CreateAutomation(a)
  <2>1. PICK enabled \in BOOLEAN, phase \in 0 .. Period - 1, start \in {now, now + 1} :
          autos' = WithAutomation(a, [enabled |-> enabled, phase |-> phase, start |-> start,
                                      nextRunAt |-> NextAfter(phase, start, now)])
    BY <1>1 DEF CreateAutomation
  <2> DEFINE n == NextAfter(phase, start, now)
             row == [enabled |-> enabled, phase |-> phase, start |-> start, nextRunAt |-> n]
  <2>s. start \in Nat
    BY <1>0
  <2>2. n \in Nat
    BY <1>0, <2>s, NextIsFirst
  <2> HIDE DEF n
  <2>3. row \in AutoRec /\ row.phase = phase /\ row.start = start /\ row.nextRunAt = n
    BY <2>s, <2>2 DEF AutoRec
  <2>4. autos' = WithAutomation(a, row)
    BY <2>1 DEF n
  <2> HIDE DEF row
  <2>5. Becomes(a, row)
    BY <1>1, <2>4 DEF Becomes, CreateAutomation, WithAutomation
  <2>6. base[a].at = -1 /\ base' = [base EXCEPT ![a] = [at |-> now, zone |-> zone]]
    BY <1>1 DEF CreateAutomation, Scheduled
  <2>7. Plans(a, row)
    BY <2>3, <2>5, <2>6 DEF Plans, n
  <2> QED
    BY <2>7 DEF StoreStep
<1>2. CASE Reschedule(a)
  <2>1. PICK phase \in 0 .. Period - 1 :
          autos' = [autos EXCEPT ![a].phase = phase,
                                 ![a].nextRunAt = NextAfter(phase, autos[a].start, now)]
    BY <1>2 DEF Reschedule
  <2>2. a \in DOMAIN autos /\ autos[a] \in AutoRec
    BY <1>0, <1>2 DEF Reschedule
  <2> DEFINE n == NextAfter(phase, autos[a].start, now)
             row == [autos[a] EXCEPT !.phase = phase, !.nextRunAt = n]
  <2>3. n \in Nat
    BY <1>0, <2>2, NextIsFirst DEF AutoRec
  <2>4. autos' = [autos EXCEPT ![a] = row]
    BY <2>1, <2>2
  <2> HIDE DEF n
  <2>5. row \in AutoRec /\ row.phase = phase /\ row.start = autos[a].start /\ row.nextRunAt = n
    BY <2>2, <2>3 DEF AutoRec
  <2> HIDE DEF row
  <2>6. Becomes(a, row)
    BY <1>2, <2>2, <2>4 DEF Becomes, Reschedule
  <2>7. base' = [base EXCEPT ![a] = [at |-> now, zone |-> zone]]
    BY <1>2 DEF Reschedule, Scheduled
  <2>8. Plans(a, row)
    BY <2>2, <2>5, <2>6, <2>7 DEF Plans, n
  <2> QED
    BY <2>8 DEF StoreStep
<1>3. CASE Toggle(a)
  <2> DEFINE row == [autos[a] EXCEPT !.enabled = ~@]
  <2>1. a \in DOMAIN autos /\ autos' = [autos EXCEPT ![a] = row] /\ base' = base
    BY <1>3 DEF Toggle, history
  <2>2. Becomes(a, row)
    BY <1>3, <2>1 DEF Becomes, Toggle
  <2>3. Switches(a, row)
    BY <2>1, <2>2 DEF Switches
  <2> QED
    BY <2>3 DEF StoreStep
<1>4. CASE DeleteAutomation(a)
  <2>1. Removed(a)
    BY <1>4 DEF DeleteAutomation, Removed, Restrict, history
  <2> QED
    BY <2>1 DEF StoreStep
<1>5. CASE RunNow(a)
  <2>1. /\ a \in DOMAIN autos /\ UNCHANGED <<autos, base, now, zone>>
        /\ made + 1 + Cardinality(Automation) <= MaxRuns /\ made' = made + 1
        /\ \E status \in Status : runs' = [WithRun(NewRun(a, Manual)) EXCEPT ![made + 1].status = status]
    BY <1>5, StatusType DEF RunNow, Request, history
  <2>2. Manual \in Int
    BY DEF Manual
  <2>3. Adds(WithRun(NewRun(a, Manual)))
    BY <2>2, CreateAdds
  <2>4. PICK status \in Status : runs' = [WithRun(NewRun(a, Manual)) EXCEPT ![made + 1].status = status]
    BY <2>1
  <2>5. Adds(runs')
    BY <2>3, <2>4, AddedStatus
  <2>6. WithRun(NewRun(a, Manual))[made + 1] = NewRun(a, Manual)
        /\ made + 1 \in DOMAIN WithRun(NewRun(a, Manual))
    BY <1>0 DEF WithRun
  <2>7. runs'[made + 1] = [NewRun(a, Manual) EXCEPT !.status = status]
    BY <2>4, <2>6
  <2>8. runs'[made + 1].auto = a /\ runs'[made + 1].scheduledFor = Manual
    BY <2>7 DEF NewRun
  <2>9. made < MaxRuns
    BY <1>0, <2>1, Constants
  <2>10. Made(a, Manual)
    BY <2>1, <2>5, <2>8, <2>9 DEF Made
  <2> QED
    BY <2>2, <2>10 DEF StoreStep
<1> QED
  BY <1>1, <1>2, <1>3, <1>4, <1>5

LEMMA TickStores ==
  ASSUME Inv, Typed, TickOK, TickBegins \/ TickStep
  PROVE  StoreStep
<1>0. /\ now \in Nat /\ made \in Nat
      /\ \A b \in DOMAIN autos : autos[b] \in AutoRec
  BY Constants DEF Typed, ClockOK, StoreOK
<1>f. /\ tick.pc # "idle" => /\ tick.now = now
                             /\ \A a \in tick.todo : a \in Automation /\ Due(a)
      /\ tick.pc \in {"created", "settled"} => OnRun(tick.auto, tick.run, tick.at)
  BY TickFields DEF Typed
<1>1. CASE TickBegins
  BY <1>1 DEF TickBegins, store, history, StoreStep, Unmoved
<1>2. CASE Skips
  <2>1. Keeps(runs') /\ DOMAIN runs' = DOMAIN runs
    BY <1>2, StatusKeeps, StatusType DEF Skips
  <2>2. Rewritten
    BY <1>2, <2>1 DEF Skips, Rewritten, history
  <2> QED
    BY <2>2 DEF StoreStep
<1>3. CASE Dispatches
  <2>1. PICK status \in Status : runs' = [runs EXCEPT ![tick.run].status = status]
    BY <1>3, StatusType DEF Dispatches, Request
  <2>2. Keeps(runs') /\ DOMAIN runs' = DOMAIN runs
    BY <2>1, StatusKeeps
  <2>3. Rewritten
    BY <1>3, <2>2 DEF Dispatches, Rewritten, history
  <2> QED
    BY <2>3 DEF StoreStep
<1>4. ASSUME NEW a \in Automation, Due(a), Advances(a, now), UNCHANGED <<runs, made, now, zone>>,
             \/ tick.pc = "loop" /\ a \in tick.todo /\ Latest(autos[a]) = {}
             \/ tick.pc = "settled" /\ a = tick.auto /\ OnRun(a, tick.run, tick.at)
      PROVE  StoreStep
  <2> DEFINE row == [autos[a] EXCEPT !.nextRunAt = NextAfter(autos[a].phase, autos[a].start, now)]
  <2>1. a \in DOMAIN autos /\ autos' = [autos EXCEPT ![a] = row]
        /\ base' = [base EXCEPT ![a].zone = zone]
    BY <1>4 DEF Advances, Due
  <2> HIDE DEF row
  <2>2. Becomes(a, row)
    BY <1>4, <2>1 DEF Becomes
  <2>3. AdvancesTo(a, row)
    BY <1>4, <2>1, <2>2 DEF AdvancesTo, row
  <2> QED
    BY <2>3 DEF StoreStep
<1>5. CASE Settles
  <2>1. /\ tick.pc = "settled" /\ Advances(tick.auto, now) /\ UNCHANGED <<runs, made, now, zone>>
        /\ OnRun(tick.auto, tick.run, tick.at)
    BY <1>5, <1>f DEF Settles
  <2>2. tick.auto \in Automation /\ Due(tick.auto)
    BY <2>1 DEF OnRun
  <2> QED
    BY <1>4, <2>1, <2>2
<1>6. ASSUME NEW a \in Automation, NoOccurrence(a)
      PROVE  StoreStep
  <2>1. /\ tick.pc = "loop" /\ a \in tick.todo /\ Latest(autos[a]) = {}
        /\ Advances(a, now) /\ UNCHANGED <<runs, made, now, zone>>
    BY <1>6, <1>f DEF NoOccurrence
  <2>2. Due(a)
    BY <1>f, <2>1
  <2> QED
    BY <1>4, <2>1, <2>2
<1>7. ASSUME NEW a \in Automation, Creates(a)
      PROVE  StoreStep
  <2>1. PICK at \in Latest(autos[a]) : CreateRun(a, at)
    BY <1>7 DEF Creates
  <2>2. /\ tick.pc = "loop" /\ a \in tick.todo /\ UNCHANGED <<autos, base, now, zone>> /\ Due(a)
    BY <1>7, <1>f DEF Creates, history
  <2>3. at \in Int
    BY <2>1 DEF Latest
  <2>4. CASE Existing(a, at) # {}
    BY <2>1, <2>2, <2>4 DEF CreateRun, StoreStep, Unmoved
  <2>5. CASE Existing(a, at) = {}
    <3>1. runs' = WithRun(NewRun(a, at)) /\ made' = made + 1 /\ made < MaxRuns
      BY <2>1, <2>5 DEF CreateRun
    <3>2. Adds(runs')
      BY <2>3, <2>5, <3>1, CreateAdds
    <3>3. runs'[made + 1].auto = a /\ runs'[made + 1].scheduledFor = at
      BY <1>0, <3>1 DEF WithRun, NewRun
    <3>4. Made(a, at)
      BY <2>1, <2>2, <3>1, <3>2, <3>3 DEF Made, Due
    <3> QED
      BY <2>3, <3>4 DEF StoreStep
  <2> QED
    BY <2>4, <2>5
<1> QED
  BY <1>1, <1>2, <1>3, <1>5, <1>6, <1>7 DEF TickStep

LEMMA MarksStores ==
  ASSUME Inv, Typed, NEW r \in RunId,
         Handles(r) \/ AgentDone(r) \/ AgentExits(r) \/ PageCompletes(r)
  PROVE  StoreStep
<1>1. UNCHANGED <<autos, made, base, now, zone>>
  BY DEF Handles, Refuses, Throws, Passes, LaunchFails, Launches, MarkDispatched, Replied,
         AgentDone, AgentExits, PageCompletes, store, history
<1>2. ASSUME NEW status \in Status, NEW by, Mark(r, status, by)
      PROVE  StoreStep
  <2>1. Rewritten
    BY <1>1, <1>2, MarkRewrites DEF Rewritten
  <2> QED
    BY <2>1 DEF StoreStep
<1>3. CASE runs' = runs
  BY <1>1, <1>3 DEF StoreStep, Unmoved
<1>4. {"completed", "dispatch_failed", "skipped", "dispatched"} \subseteq Status
  BY StatusType
<1>5. CASE Refuses(r) \/ LaunchFails(r) \/ MarkDispatched(r) \/ PageCompletes(r)
  BY <1>2, <1>4, <1>5 DEF Refuses, LaunchFails, MarkDispatched, PageCompletes
<1>6. CASE Launches(r) \/ Throws(r) \/ Passes(r)
  BY <1>3, <1>6 DEF Launches, Throws, Passes, store
<1>7. CASE Replied(r)
  <2>1. pending[r] # "none" => pending[r] \in Status
    BY <1>4 DEF Typed, HandlersOK, Heard
  <2> QED
    BY <1>2, <1>3, <1>7, <2>1 DEF Replied
<1>8. ASSUME NEW status \in {"completed", "dispatch_failed"}, Hears(r, status)
      PROVE  StoreStep
  <2>1. status \in Status
    BY <1>4
  <2>2. runs' = runs \/ Mark(r, status, "handler")
    BY <1>8 DEF Hears
  <2> QED
    BY <1>2, <1>3, <2>1, <2>2
<1>9. CASE AgentDone(r) \/ AgentExits(r)
  BY <1>8, <1>9 DEF AgentDone, AgentExits
<1> QED
  BY <1>5, <1>6, <1>7, <1>9 DEF Handles

LEMMA StoreStepIs == Inv /\ Typed /\ TickOK /\ [Next]_vars => StoreStep
<1> SUFFICES ASSUME Inv, Typed, TickOK, [Next]_vars
             PROVE  StoreStep
  OBVIOUS
<1>1. ASSUME NEW a \in Automation,
             CreateAutomation(a) \/ Reschedule(a) \/ Toggle(a) \/ DeleteAutomation(a) \/ RunNow(a)
      PROVE  StoreStep
  BY <1>1, UserStores
<1>2. CASE TickBegins \/ TickStep
  BY <1>2, TickStores
<1>3. ASSUME NEW r \in RunId, Handles(r) \/ AgentDone(r) \/ AgentExits(r) \/ PageCompletes(r)
      PROVE  StoreStep
  BY <1>3, MarksStores
<1>4. ASSUME NEW c \in collecting, Collected(c)
      PROVE  StoreStep
  <2>1. UNCHANGED <<autos, made, base, now, zone>>
    BY <1>4 DEF Collected, history
  <2>2. CASE c.run \in DOMAIN runs
    <3> DEFINE row == [runs[c.run] EXCEPT !.status = "completed", !.usage = TRUE]
    <3>1. runs' = [runs EXCEPT ![c.run] = row]
      BY <1>4, <2>2 DEF Collected
    <3>2. runs[c.run] \in Run
      BY <2>2 DEF Inv
    <3>3. /\ row \in Run /\ row.auto = runs[c.run].auto
          /\ row.scheduledFor = runs[c.run].scheduledFor
      BY <3>2, StatusType DEF Run
    <3> HIDE DEF row
    <3>4. Keeps(runs') /\ DOMAIN runs' = DOMAIN runs
      BY <3>1, <3>3, RowKeeps
    <3> QED
      BY <2>1, <3>4 DEF StoreStep, Rewritten
  <2>3. CASE c.run \notin DOMAIN runs
    BY <1>4, <2>1, <2>3 DEF Collected, StoreStep, Unmoved
  <2> QED
    BY <2>2, <2>3
<1>5. CASE \/ PageReads \/ Mounts \/ Reloads \/ WindowCloses \/ WindowOpens
           \/ AppEnds \/ AppStarts \/ Clock \/ UNCHANGED vars
  <2>1. UNCHANGED <<autos, runs, made, base>>
    BY <1>5 DEF PageReads, Mounts, Reloads, WindowCloses, WindowOpens, AppEnds, AppStarts, Clock,
                store, history, vars
  <2> QED
    BY <2>1 DEF StoreStep, Unmoved
<1> QED
  BY <1>1, <1>2, <1>3, <1>4, <1>5 DEF Next

LEMMA StoreTypes == Inv /\ Typed /\ PastOK /\ StoreStep => StoreOK' /\ made <= made'
<1> SUFFICES ASSUME Inv, Typed, PastOK, StoreStep
             PROVE  StoreOK' /\ made <= made'
  OBVIOUS
<1>0. /\ now \in Nat /\ zone \in 0 .. Period - 1 /\ made \in 0 .. MaxRuns /\ StoreOK
      /\ MaxRuns \in Nat
  BY Constants DEF Typed, ClockOK, StoreOK
<1>1. CASE Unmoved
  BY <1>0, <1>1 DEF Unmoved, StoreOK
<1>2. CASE Rewritten
  <2>1. ASSUME NEW r \in DOMAIN runs'
        PROVE  runs'[r] \in RunRec /\ runs'[r].auto \in DOMAIN autos
    <3>1. r \in DOMAIN runs /\ runs'[r] \in Run /\ runs'[r].auto = runs[r].auto
          /\ runs'[r].scheduledFor = runs[r].scheduledFor
      BY <1>2, <2>1 DEF Rewritten, Keeps
    <3>2. runs[r] \in RunRec /\ runs[r].auto \in DOMAIN autos
      BY <1>0, <3>1 DEF StoreOK
    <3> QED
      BY <3>1, <3>2 DEF Run, RunRec
  <2> QED
    BY <1>0, <1>2, <2>1 DEF Rewritten, StoreOK
<1>3. ASSUME NEW a \in Automation, Removed(a)
      PROVE  StoreOK' /\ made <= made'
  BY <1>0, <1>3 DEF Removed, StoreOK
<1>4. ASSUME NEW a \in Automation, NEW at \in Int, Made(a, at)
      PROVE  StoreOK' /\ made <= made'
  <2>1. /\ made < MaxRuns /\ made' = made + 1 /\ autos' = autos
        /\ DOMAIN runs' = DOMAIN runs \cup {made + 1}
    BY <1>4 DEF Made, Adds
  <2>2. at \in Nat \cup {Manual}
    <3>1. at = Manual \/ (a \in DOMAIN autos /\ at \in Latest(autos[a]))
      BY <1>4 DEF Made
    <3> QED
      BY <1>0, <3>1, LatestIsOne DEF StoreOK
  <2>3. ASSUME NEW r \in DOMAIN runs'
        PROVE  runs'[r] \in RunRec /\ runs'[r].auto \in DOMAIN autos
    <3>1. runs'[r] \in Run
      BY <1>4, <2>3 DEF Made, Adds
    <3>2. CASE r = made + 1
      <4>1. runs'[r].auto = a /\ runs'[r].scheduledFor = at /\ a \in DOMAIN autos
        BY <1>4, <3>2 DEF Made
      <4> QED
        BY <2>2, <3>1, <4>1 DEF Run, RunRec
    <3>3. CASE r \in DOMAIN runs
      <4>1. /\ runs'[r].auto = runs[r].auto
            /\ runs'[r].scheduledFor = runs[r].scheduledFor
        BY <1>4, <3>3 DEF Made, Adds
      <4>2. runs[r] \in RunRec /\ runs[r].auto \in DOMAIN autos
        BY <1>0, <3>3 DEF StoreOK
      <4> QED
        BY <3>1, <4>1, <4>2 DEF Run, RunRec
    <3> QED
      BY <2>1, <2>3, <3>2, <3>3
  <2>4. DOMAIN runs' \subseteq 1 .. made' /\ made' \in 0 .. MaxRuns /\ made <= made'
    BY <1>0, <2>1 DEF StoreOK
  <2> QED
    BY <1>0, <2>1, <2>3, <2>4 DEF StoreOK
<1>5. ASSUME NEW a \in Automation, NEW row \in AutoRec, Becomes(a, row)
      PROVE  StoreOK' /\ made <= made'
  BY <1>0, <1>5 DEF Becomes, StoreOK
<1>6. ASSUME NEW a \in Automation, NEW row, Switches(a, row) \/ AdvancesTo(a, row)
      PROVE  row \in AutoRec /\ Becomes(a, row)
  <2>1. a \in DOMAIN autos /\ autos[a] \in AutoRec /\ Becomes(a, row)
    BY <1>0, <1>6 DEF Switches, AdvancesTo, StoreOK
  <2>2. NextAfter(autos[a].phase, autos[a].start, now) \in Nat
    BY <1>0, <2>1, NextIsFirst DEF AutoRec
  <2> QED
    BY <1>6, <2>1, <2>2 DEF Switches, AdvancesTo, AutoRec
<1>7. ASSUME NEW a \in Automation, NEW row, Plans(a, row)
      PROVE  row \in AutoRec /\ Becomes(a, row)
  BY <1>7 DEF Plans
<1> QED
  BY <1>1, <1>2, <1>3, <1>4, <1>5, <1>6, <1>7 DEF StoreStep

LEMMA MarksTypes ==
  Typed /\ TickOK /\ made' \in 0 .. MaxRuns /\ made <= made' /\ [Next]_vars => MarksOK'
<1> SUFFICES ASSUME Typed, TickOK, made' \in 0 .. MaxRuns, made <= made', [Next]_vars
             PROVE  MarksOK'
  OBVIOUS
<1>0. /\ made \in Nat /\ made' \in Nat /\ MarksOK
      /\ DOMAIN runs \subseteq 1 .. made
      /\ tick.pc \in {"created", "settled"} => tick.run \in DOMAIN runs
  BY Constants, TickFields DEF Typed, StoreOK, OnRun
<1>1. 1 .. made \subseteq 1 .. made'
  BY <1>0
<1>2. CASE page' \subseteq page /\ collecting' \subseteq collecting /\ torn' = torn
  <2>1. [run : 1 .. made, by : {"handler", "page"}] \subseteq [run : 1 .. made', by : {"handler", "page"}]
    BY <1>1
  <2> QED
    BY <1>0, <1>1, <1>2, <2>1 DEF MarksOK
<1>3. ASSUME NEW r \in RunId, NEW status, NEW by \in {"handler", "page"}, Mark(r, status, by),
             page' \subseteq page, torn' = torn, made' = made
      PROVE  MarksOK'
  <2>1. collecting' \subseteq collecting \/ (r \in DOMAIN runs /\ collecting' = collecting \cup {[run |-> r, by |-> by]})
    BY <1>3 DEF Mark
  <2>2. r \in DOMAIN runs => [run |-> r, by |-> by] \in [run : 1 .. made, by : {"handler", "page"}]
    BY <1>0, <1>3
  <2> QED
    BY <1>0, <1>3, <2>1, <2>2 DEF MarksOK
<1>4. ASSUME NEW a \in Automation,
             \/ CreateAutomation(a) \/ Reschedule(a) \/ Toggle(a) \/ DeleteAutomation(a)
             \/ RunNow(a) \/ Creates(a) \/ NoOccurrence(a)
      PROVE  MarksOK'
  BY <1>2, <1>4 DEF CreateAutomation, Reschedule, Toggle, DeleteAutomation, RunNow, Creates,
                    NoOccurrence, window, history
<1>5. CASE TickBegins \/ Skips \/ Dispatches \/ Settles
  BY <1>2, <1>5 DEF TickBegins, Skips, Dispatches, Settles, window, history
<1>6. ASSUME NEW r \in RunId, Handles(r) \/ PageCompletes(r)
      PROVE  MarksOK'
  <2>1. CASE Refuses(r) \/ LaunchFails(r) \/ MarkDispatched(r) \/ PageCompletes(r)
    BY <1>3, <2>1 DEF Refuses, LaunchFails, MarkDispatched, PageCompletes, history
  <2>2. CASE Launches(r) \/ Throws(r) \/ Passes(r)
    BY <1>2, <2>2 DEF Launches, Throws, Passes, history
  <2>3. CASE Replied(r)
    BY <1>2, <1>3, <2>3 DEF Replied, history
  <2> QED
    BY <1>6, <2>1, <2>2, <2>3 DEF Handles
<1>7. ASSUME NEW r \in RunId, NEW status, Hears(r, status), page' = page, torn' = torn, made' = made
      PROVE  MarksOK'
  BY <1>2, <1>3, <1>7 DEF Hears
<1>8. ASSUME NEW r \in RunId, AgentDone(r) \/ AgentExits(r)
      PROVE  MarksOK'
  BY <1>7, <1>8 DEF AgentDone, AgentExits, history
<1>9. ASSUME NEW c \in collecting, Collected(c)
      PROVE  MarksOK'
  BY <1>2, <1>9 DEF Collected, window, history
<1>10. CASE PageReads
  BY <1>0, <1>10 DEF PageReads, MarksOK, store, history
<1>11. CASE Mounts \/ Reloads \/ WindowCloses \/ WindowOpens \/ AppStarts \/ Clock \/ UNCHANGED vars
  BY <1>2, <1>11 DEF Mounts, Reloads, WindowCloses, WindowOpens, AppStarts, Clock, vars, window,
                     history, RendererGone
<1>12. CASE AppEnds
  <2>1. page' = {} /\ collecting' = {} /\ made' = made
        /\ torn' \subseteq torn \cup {r \in DOMAIN runs : tick.pc \in {"created", "settled"} /\ r = tick.run}
    BY <1>0, <1>12 DEF AppEnds, RendererGone, store
  <2> QED
    BY <1>0, <2>1 DEF MarksOK
<1> QED
  BY <1>4, <1>5, <1>6, <1>8, <1>9, <1>10, <1>11, <1>12 DEF Next, TickStep

LEMMA PastStep ==
  Inv /\ Typed /\ TickOK /\ PastOK /\ StoreStep /\ StoreOK' /\ now' \in {now, now + 1} =>
    /\ base' \in [Automation -> [at : Nat \cup {-1}, zone : 0 .. Period - 1]]
    /\ \A a \in Automation : base'[a].at <= now' /\ base[a].at <= base'[a].at
    /\ \A a \in DOMAIN autos' : base'[a].at # -1
    /\ \A r \in DOMAIN runs' : runs'[r].scheduledFor <= now'
<1> SUFFICES ASSUME Inv, Typed, TickOK, PastOK, StoreStep, StoreOK', now' \in {now, now + 1}
             PROVE  /\ base' \in [Automation -> [at : Nat \cup {-1}, zone : 0 .. Period - 1]]
                    /\ \A a \in Automation : base'[a].at <= now' /\ base[a].at <= base'[a].at
                    /\ \A a \in DOMAIN autos' : base'[a].at # -1
                    /\ \A r \in DOMAIN runs' : runs'[r].scheduledFor <= now'
  OBVIOUS
<1> DEFINE Base == [at : Nat \cup {-1}, zone : 0 .. Period - 1]
<1>0. /\ now \in Nat /\ zone \in 0 .. Period - 1 /\ StoreOK
      /\ now' \in Nat /\ now <= now'
      /\ base \in [Automation -> Base]
      /\ \A a \in Automation : base[a].at <= now
      /\ \A a \in DOMAIN autos : base[a].at # -1
      /\ \A r \in DOMAIN runs : runs[r].scheduledFor <= now /\ runs[r].scheduledFor \in Int
      /\ DOMAIN autos \subseteq Automation
      /\ \A a \in DOMAIN autos : autos[a] \in AutoRec
  BY Constants DEF Typed, ClockOK, StoreOK, PastOK, RunRec, Manual
<1>b. \A a \in Automation : base[a] \in Base /\ base[a].at \in Int /\ base[a].at <= base[a].at
  BY <1>0
<1>1. CASE Unmoved
  BY <1>0, <1>1, <1>b DEF Unmoved
<1>2. CASE Rewritten
  BY <1>0, <1>2, <1>b DEF Rewritten, Keeps
<1>3. ASSUME NEW a \in Automation, Removed(a)
      PROVE  /\ base' = base /\ now' = now
             /\ \A b \in DOMAIN autos' : base'[b].at # -1
             /\ \A r \in DOMAIN runs' : runs'[r].scheduledFor <= now'
  BY <1>0, <1>3 DEF Removed
<1>4. ASSUME NEW a \in Automation, NEW at \in Int, Made(a, at)
      PROVE  /\ base' = base /\ now' = now
             /\ \A b \in DOMAIN autos' : base'[b].at # -1
             /\ \A r \in DOMAIN runs' : runs'[r].scheduledFor <= now'
  <2>1. at <= now
    <3>1. CASE at = Manual
      BY <1>0, <3>1 DEF Manual
    <3>2. CASE at \in Latest(autos[a]) /\ a \in DOMAIN autos
      BY <1>0, <3>2, LatestIs
    <3> QED
      BY <1>4, <3>1, <3>2 DEF Made
  <2> QED
    BY <1>0, <1>4, <2>1 DEF Made, Adds
<1>5. ASSUME NEW a \in Automation, NEW row, Becomes(a, row), NEW bs \in Base,
             bs.at <= now, base[a].at <= bs.at, bs.at # -1, base' = [base EXCEPT ![a] = bs]
      PROVE  /\ base' \in [Automation -> Base]
             /\ \A b \in Automation : base'[b].at <= now' /\ base[b].at <= base'[b].at
             /\ \A b \in DOMAIN autos' : base'[b].at # -1
             /\ \A r \in DOMAIN runs' : runs'[r].scheduledFor <= now'
  <2>1. now' = now /\ runs' = runs /\ DOMAIN autos' = DOMAIN autos \cup {a}
    BY <1>5 DEF Becomes
  <2>2. base'[a] = bs /\ \A b \in Automation : b # a => base'[b] = base[b]
    BY <1>0, <1>5
  <2>3. base' \in [Automation -> Base]
    BY <1>0, <1>5
  <2> HIDE DEF Base
  <2> QED
    BY <1>0, <1>b, <1>5, <2>1, <2>2, <2>3
<1>6. ASSUME NEW a \in Automation, NEW row, Plans(a, row)
      PROVE  \E bs \in Base : /\ bs.at <= now /\ base[a].at <= bs.at /\ bs.at # -1
                              /\ base' = [base EXCEPT ![a] = bs]
  <2> DEFINE bs == [at |-> now, zone |-> zone]
  <2>1. bs \in Base /\ bs.at = now
    BY <1>0
  <2>2. base' = [base EXCEPT ![a] = bs]
    BY <1>6 DEF Plans
  <2>3. base[a].at <= now /\ now # -1 /\ now <= now
    BY <1>0
  <2> HIDE DEF bs, Base
  <2> QED
    BY <2>1, <2>2, <2>3
<1>7. ASSUME NEW a \in Automation, NEW row, AdvancesTo(a, row)
      PROVE  \E bs \in Base : /\ bs.at <= now /\ base[a].at <= bs.at /\ bs.at # -1
                              /\ base' = [base EXCEPT ![a] = bs]
  <2> DEFINE bs == [base[a] EXCEPT !.zone = zone]
  <2>1. a \in DOMAIN autos /\ base' = [base EXCEPT ![a] = bs]
    BY <1>7 DEF AdvancesTo
  <2>2. bs \in Base /\ bs.at = base[a].at
    BY <1>0, <1>b
  <2> QED
    BY <1>0, <1>b, <2>1, <2>2
<1>8. ASSUME NEW a \in Automation, NEW row, Switches(a, row)
      PROVE  /\ base' = base /\ now' = now
             /\ \A b \in DOMAIN autos' : base'[b].at # -1
             /\ \A r \in DOMAIN runs' : runs'[r].scheduledFor <= now'
  BY <1>0, <1>8 DEF Switches, Becomes
<1>9. CASE base' = base /\ now' = now /\ (\A b \in DOMAIN autos' : base'[b].at # -1)
           /\ \A r \in DOMAIN runs' : runs'[r].scheduledFor <= now'
  BY <1>0, <1>b, <1>9
<1>10. ASSUME NEW a \in Automation, NEW row, Plans(a, row) \/ AdvancesTo(a, row)
       PROVE  Becomes(a, row)
  BY <1>10 DEF Plans, AdvancesTo
<1> HIDE DEF Base
<1>11. ASSUME NEW a \in Automation, NEW row, Plans(a, row) \/ AdvancesTo(a, row)
       PROVE  /\ base' \in [Automation -> Base]
              /\ \A b \in Automation : base'[b].at <= now' /\ base[b].at <= base'[b].at
              /\ \A b \in DOMAIN autos' : base'[b].at # -1
              /\ \A r \in DOMAIN runs' : runs'[r].scheduledFor <= now'
  <2>1. PICK bs \in Base : /\ bs.at <= now /\ base[a].at <= bs.at /\ bs.at # -1
                           /\ base' = [base EXCEPT ![a] = bs]
    BY <1>6, <1>7, <1>11
  <2> QED
    BY <1>5, <1>10, <1>11, <2>1
<1>12. CASE Unmoved \/ Rewritten
  BY <1>1, <1>2, <1>12
<1>13. CASE \E a \in Automation : \/ Removed(a) \/ \E at \in Int : Made(a, at)
                                  \/ \E row : Switches(a, row)
  BY <1>3, <1>4, <1>8, <1>9, <1>13
<1>14. CASE \E a \in Automation : \E row : Plans(a, row) \/ AdvancesTo(a, row)
  BY <1>11, <1>14 DEF Base
<1> QED
  BY <1>12, <1>13, <1>14 DEF StoreStep

\* What a tick has left to do is still due.
LEMMA RemainingOK ==
  ASSUME up', NEW todo \in SUBSET {a \in Automation : Due(a)'}
  PROVE  tick' = Remaining(todo, now)' => TickOK'
<1> SUFFICES ASSUME tick' = Remaining(todo, now')
             PROVE  TickOK'
  BY DEF Remaining
<1>1. CASE todo = {}
  BY <1>1 DEF TickOK, Remaining
<1>2. CASE todo # {}
  <2>1. tick' = [pc |-> "loop", todo |-> todo, now |-> now']
    BY <1>2 DEF Remaining
  <2> QED
    BY <2>1 DEF TickOK
<1> QED
  BY <1>1, <1>2

LEMMA OnRunOK ==
  ASSUME up', NEW todo \in SUBSET {a \in Automation : Due(a)'},
         NEW pc \in {"created", "settled"}, NEW a \in Automation, NEW r \in RunId, NEW at \in Nat,
         a \notin todo, OnRun(a, r, at)',
         tick' = [pc |-> pc, todo |-> todo, now |-> now', auto |-> a, run |-> r, at |-> at]
  PROVE  TickOK'
BY DEF TickOK

\* The tick in its fields.
LEMMA TickIs ==
  ASSUME TickOK
  PROVE  /\ tick.pc = "loop" =>
              /\ up /\ tick.todo \in SUBSET {a \in Automation : Due(a)}
              /\ tick = [pc |-> "loop", todo |-> tick.todo, now |-> now]
         /\ tick.pc \in {"created", "settled"} =>
              /\ up /\ tick.todo \in SUBSET {a \in Automation : Due(a)}
              /\ tick = [pc |-> tick.pc, todo |-> tick.todo, now |-> now, auto |-> tick.auto,
                         run |-> tick.run, at |-> tick.at]
              /\ tick.auto \in Automation /\ tick.run \in RunId /\ tick.at \in Nat
              /\ tick.auto \notin tick.todo /\ OnRun(tick.auto, tick.run, tick.at)
<1>1. CASE tick = Idle
  BY <1>1 DEF Idle
<1>2. ASSUME NEW todo \in SUBSET {a \in Automation : Due(a)},
             tick = [pc |-> "loop", todo |-> todo, now |-> now]
      PROVE  /\ tick.pc = "loop" /\ tick.todo = todo
             /\ tick = [pc |-> "loop", todo |-> tick.todo, now |-> now]
  BY <1>2
<1>3. ASSUME NEW todo \in SUBSET {a \in Automation : Due(a)},
             NEW pc \in {"created", "settled"}, NEW a \in Automation, NEW r \in RunId,
             NEW at \in Nat,
             tick = [pc |-> pc, todo |-> todo, now |-> now, auto |-> a, run |-> r, at |-> at],
             a \notin todo, OnRun(a, r, at)
      PROVE  /\ tick.pc # "loop" /\ tick.todo \in SUBSET {b \in Automation : Due(b)}
             /\ tick = [pc |-> tick.pc, todo |-> tick.todo, now |-> now, auto |-> tick.auto,
                        run |-> tick.run, at |-> tick.at]
             /\ tick.auto \in Automation /\ tick.run \in RunId /\ tick.at \in Nat
             /\ tick.auto \notin tick.todo /\ OnRun(tick.auto, tick.run, tick.at)
  <2>1. /\ tick.pc = pc /\ tick.todo = todo
        /\ tick.auto = a /\ tick.run = r /\ tick.at = at
    BY <1>3
  <2> QED
    BY <1>3, <2>1
<1> QED
  BY <1>1, <1>2, <1>3 DEF TickOK

LEMMA TickMoves ==
  ASSUME Inv, Typed, TickOK, PastOK, StoreOK', TickBegins \/ TickStep
  PROVE  TickOK'
<1>0. /\ now \in Nat /\ zone \in 0 .. Period - 1 /\ made \in Nat /\ MaxRuns \in Nat
      /\ \A b \in DOMAIN autos : autos[b] \in AutoRec
      /\ RunId = 1 .. MaxRuns
  BY Constants DEF Typed, ClockOK, StoreOK, RunId
<1>1. CASE TickBegins
  <2>1. /\ up' /\ UNCHANGED <<autos, now>>
        /\ tick' = Remaining({a \in Automation : Due(a)}, now)
    BY <1>1 DEF TickBegins, store
  <2>2. {a \in Automation : Due(a)} \in SUBSET {a \in Automation : Due(a)'}
    BY <2>1 DEF Due
  <2> QED
    BY <2>1, <2>2, RemainingOK
<1>2. ASSUME NEW a \in Automation, Creates(a)
      PROVE  TickOK'
  <2>1. PICK at \in Latest(autos[a]) :
          /\ CreateRun(a, at)
          /\ tick' = [pc |-> "created", todo |-> tick.todo \ {a}, now |-> tick.now, auto |-> a,
                      run |-> RunFor(a, at), at |-> at]
    BY <1>2 DEF Creates
  <2>2. /\ tick.pc = "loop" /\ a \in tick.todo
        /\ UNCHANGED <<now, zone, autos, up>>
    BY <1>2 DEF Creates
  <2>3. /\ up /\ tick.todo \in SUBSET {b \in Automation : Due(b)} /\ tick.now = now
    BY <2>2, TickIs, TickFields DEF Typed
  <2>4. Due(a) /\ a \in DOMAIN autos
    BY <2>2, <2>3 DEF Due
  <2>5. at \in Nat
    BY <1>0, <2>1, <2>4, LatestIsOne
  <2>6. /\ RunFor(a, at) \in DOMAIN runs' /\ runs'[RunFor(a, at)].auto = a
        /\ runs'[RunFor(a, at)].scheduledFor = at
    <3>1. CASE Existing(a, at) # {}
      <4>1. RunFor(a, at) \in Existing(a, at) /\ runs' = runs
        BY <2>1, <3>1 DEF CreateRun, RunFor
      <4> QED
        BY <4>1 DEF Existing
    <3>2. CASE Existing(a, at) = {}
      BY <2>1, <3>2 DEF CreateRun, RunFor, WithRun, NewRun
    <3> QED
      BY <3>1, <3>2
  <2>7. RunFor(a, at) \in RunId
    <3>1. made' \in 0 .. MaxRuns /\ DOMAIN runs' \subseteq 1 .. made'
      BY DEF StoreOK
    <3> QED
      BY <1>0, <2>6, <3>1
  <2>8. Due(a)' /\ tick.todo \ {a} \in SUBSET {b \in Automation : Due(b)'}
    BY <2>2, <2>3, <2>4 DEF Due
  <2>9. at \in Latest(autos[a])'
    BY <2>1, <2>2 DEF Latest, Matches
  <2>10. PICK r \in RunId : r = RunFor(a, at)
    BY <2>7
  <2>11. tick' = [pc |-> "created", todo |-> tick.todo \ {a}, now |-> now', auto |-> a,
                  run |-> r, at |-> at]
    BY <2>1, <2>2, <2>3, <2>10
  <2>12. r \in DOMAIN runs' /\ runs'[r].auto = a /\ runs'[r].scheduledFor = at
    BY <2>6, <2>10
  <2>13. OnRun(a, r, at)'
    BY <2>8, <2>9, <2>12 DEF OnRun
  <2>14. PICK todo \in SUBSET {b \in Automation : Due(b)'} : todo = tick.todo \ {a}
    BY <2>8
  <2> QED
    BY <2>2, <2>3, <2>5, <2>11, <2>13, <2>14, OnRunOK
<1>3. ASSUME NEW a \in Automation, NEW todo \in SUBSET {b \in Automation : Due(b)}, a \notin todo,
             Advances(a, tick.now), tick' = Remaining(todo, tick.now), tick.now = now,
             UNCHANGED <<now, up>>, up
      PROVE  TickOK'
  <2>1. \A b \in DOMAIN autos : b # a => b \in DOMAIN autos' /\ autos'[b] = autos[b]
    BY <1>3 DEF Advances
  <2>2. todo \in SUBSET {b \in Automation : Due(b)'}
    BY <1>3, <2>1 DEF Due
  <2> QED
    BY <1>3, <2>2, RemainingOK
<1>4. ASSUME NEW a \in Automation, NoOccurrence(a)
      PROVE  TickOK'
  <2>1. tick.pc = "loop" /\ Advances(a, tick.now) /\ tick' = Remaining(tick.todo \ {a}, tick.now)
        /\ UNCHANGED <<now, up>>
    BY <1>4 DEF NoOccurrence
  <2>2. up /\ tick.todo \ {a} \in SUBSET {b \in Automation : Due(b)} /\ tick.now = now
        /\ a \notin tick.todo \ {a}
    BY <2>1, TickIs, TickFields DEF Typed
  <2> HIDE DEF TickOK
  <2> QED
    BY <1>3, <2>1, <2>2
<1>5. CASE Settles
  <2>1. tick.pc = "settled" /\ Advances(tick.auto, tick.now) /\ tick' = Remaining(tick.todo, tick.now)
        /\ UNCHANGED <<now, up>>
    BY <1>5 DEF Settles
  <2>2. up /\ tick.todo \in SUBSET {b \in Automation : Due(b)} /\ tick.now = now
        /\ tick.auto \notin tick.todo /\ tick.auto \in Automation
    BY <2>1, TickIs, TickFields DEF Typed
  <2> QED
    BY <1>3, <2>1, <2>2
<1>6. ASSUME tick.pc = "created", tick' = [tick EXCEPT !.pc = "settled"],
             UNCHANGED <<now, zone, autos, up>>,
             NEW status, runs' = [runs EXCEPT ![tick.run].status = status]
      PROVE  TickOK'
  <2>1. /\ up /\ tick.todo \in SUBSET {a \in Automation : Due(a)}
        /\ tick = [pc |-> "created", todo |-> tick.todo, now |-> now, auto |-> tick.auto,
                   run |-> tick.run, at |-> tick.at]
        /\ tick.auto \in Automation /\ tick.run \in RunId /\ tick.at \in Nat
        /\ tick.auto \notin tick.todo /\ OnRun(tick.auto, tick.run, tick.at)
    BY <1>6, TickIs
  <2>2. PICK todo \in SUBSET {a \in Automation : Due(a)}, a \in Automation, r \in RunId, at \in Nat :
          /\ todo = tick.todo /\ a = tick.auto /\ r = tick.run /\ at = tick.at
    BY <2>1
  <2>3. tick' = [pc |-> "settled", todo |-> todo, now |-> now', auto |-> a, run |-> r, at |-> at]
    BY <1>6, <2>1, <2>2
  <2>4. todo \in SUBSET {b \in Automation : Due(b)'}
    BY <1>6 DEF Due
  <2>5. r \in DOMAIN runs /\ runs[r].auto = a /\ runs[r].scheduledFor = at /\ Due(a)
        /\ at \in Latest(autos[a]) /\ a \notin todo
    BY <2>1, <2>2 DEF OnRun
  <2>6. at \in Latest(autos[a])' /\ Due(a)'
    BY <1>6, <2>5 DEF Latest, Matches, Due
  <2>7. runs[r] \in RunRec
    BY <2>5 DEF Typed, StoreOK
  <2>8. DOMAIN runs' = DOMAIN runs /\ runs'[r] = [runs[r] EXCEPT !.status = status]
    BY <1>6, <2>2, <2>5
  <2>9. r \in DOMAIN runs' /\ runs'[r].auto = a /\ runs'[r].scheduledFor = at
    BY <2>5, <2>7, <2>8 DEF RunRec
  <2>10. OnRun(a, r, at)'
    BY <2>6, <2>9 DEF OnRun
  <2> QED
    BY <1>6, <2>1, <2>3, <2>4, <2>5, <2>10, OnRunOK
<1>7. CASE Skips
  BY <1>6, <1>7 DEF Skips
<1>8. CASE Dispatches
  BY <1>6, <1>8 DEF Dispatches, Request
<1> QED
  BY <1>1, <1>2, <1>4, <1>5, <1>7, <1>8 DEF TickStep

\* Every other action waits for the tick, or ends it.
LEMMA TickWaits ==
  ASSUME Typed, TickOK, [Next]_vars
  PROVE  \/ TickBegins \/ TickStep \/ tick' = Idle \/ UNCHANGED vars
<1>2. ASSUME NEW a \in Automation,
             CreateAutomation(a) \/ Reschedule(a) \/ Toggle(a) \/ DeleteAutomation(a) \/ RunNow(a)
      PROVE  tick' = Idle
  BY <1>2 DEF CreateAutomation, Reschedule, Toggle, DeleteAutomation, RunNow
<1>3. ASSUME NEW r \in RunId, Handles(r) \/ AgentDone(r) \/ AgentExits(r) \/ PageCompletes(r)
      PROVE  tick' = Idle
  BY <1>3 DEF Handles, Refuses, Throws, Passes, LaunchFails, Launches, MarkDispatched, Replied,
              AgentDone, AgentExits, PageCompletes
<1>4. ASSUME NEW c \in collecting, Collected(c)
      PROVE  tick' = Idle
  BY <1>4 DEF Collected
<1>5. CASE PageReads \/ Mounts \/ Reloads \/ WindowCloses \/ WindowOpens \/ AppEnds \/ Clock
  BY <1>5 DEF PageReads, Mounts, Reloads, WindowCloses, WindowOpens, AppEnds, Clock
<1>6. CASE AppStarts
  BY <1>6 DEF AppStarts, TickOK
<1> QED
  BY <1>2, <1>3, <1>4, <1>5, <1>6 DEF Next

LEMMA TickTypes ==
  ASSUME Inv, Typed, TickOK, PastOK, StoreOK', [Next]_vars
  PROVE  TickOK'
<1>1. CASE TickBegins \/ TickStep
  BY <1>1, TickMoves
<1>2. CASE tick' = Idle
  BY <1>2 DEF TickOK, Idle
<1>3. CASE UNCHANGED vars
  BY <1>3 DEF vars, TickOK, OnRun, Due, Latest, Matches
<1> QED
  BY <1>1, <1>2, <1>3, TickWaits

\* A handler is asked for the run of a tick or for one made by hand, and an agent
\* is started for a run whose handler was asked.
AskedNow(r) ==
  \/ r = made + 1 /\ made' = made + 1
  \/ tick.pc = "created" /\ r = tick.run /\ tick' = [tick EXCEPT !.pc = "settled"]

\* The handler of r was asked and has started no agent.
Unlaunched(r) == disp[r] \in {"asked", "launching"}

LEMMA AskedOnce ==
  ASSUME Typed, [Next]_vars, NEW r \in RunId
  PROVE  /\ Unlaunched(r)' => Unlaunched(r) \/ AskedNow(r)
         /\ disp[r] = "none" => disp'[r] = "none" \/ AskedNow(r)
         /\ \/ started'[r] = started[r]
            \/ Unlaunched(r) /\ ~Unlaunched(r)' /\ started'[r] = started[r] + 1
<1>0. /\ disp \in [RunId -> {"none", "asked", "launching", "launched", "replying", "watching"}]
      /\ started \in [RunId -> Nat]
  BY DEF Typed, HandlersOK
<1>1. CASE disp' = disp /\ started' = started
  BY <1>1 DEF Unlaunched
<1>2. ASSUME NEW a \in Automation,
             \/ CreateAutomation(a) \/ Reschedule(a) \/ Toggle(a) \/ DeleteAutomation(a)
             \/ Creates(a) \/ NoOccurrence(a)
      PROVE  disp' = disp /\ started' = started
  BY <1>2 DEF CreateAutomation, Reschedule, Toggle, DeleteAutomation, Creates, NoOccurrence, window
<1>3. CASE \/ TickBegins \/ Skips \/ Settles \/ PageReads \/ Mounts \/ WindowOpens \/ AppStarts
           \/ Clock \/ UNCHANGED vars
  <2>1. disp' = disp /\ started' = started
    BY <1>3 DEF TickBegins, Skips, Settles, PageReads, Mounts, WindowOpens, AppStarts, Clock, vars,
                window
  <2> QED
    BY <1>1, <2>1
<1>4. ASSUME NEW a \in Automation, RunNow(a)
      PROVE  /\ disp' = disp \/ disp' = [disp EXCEPT ![made + 1] = "asked"]
             /\ started' = started /\ made' = made + 1
  BY <1>4 DEF RunNow, Request
<1>5. CASE Dispatches
  <2>1. /\ disp' = disp \/ disp' = [disp EXCEPT ![tick.run] = "asked"]
        /\ started' = started /\ tick.pc = "created" /\ tick' = [tick EXCEPT !.pc = "settled"]
    BY <1>5 DEF Dispatches, Request
  <2> QED
    BY <1>0, <2>1 DEF AskedNow, Unlaunched
<1>6. CASE Reloads \/ WindowCloses \/ AppEnds
  BY <1>6 DEF Reloads, WindowCloses, AppEnds, RendererGone, Unlaunched
<1>7. ASSUME NEW s \in RunId, Handles(s) \/ AgentDone(s) \/ AgentExits(s) \/ PageCompletes(s)
      PROVE  /\ \/ disp' = disp
                \/ /\ disp[s] # "none"
                   /\ \E to \in {"none", "launched", "replying", "watching"} :
                        disp' = [disp EXCEPT ![s] = to]
                \/ disp[s] = "asked" /\ disp' = [disp EXCEPT ![s] = "launching"]
             /\ \/ started' = started
                \/ /\ disp[s] = "launching"
                   /\ \E to \in {"none", "launched"} : disp' = [disp EXCEPT ![s] = to]
                   /\ started' = [started EXCEPT ![s] = @ + 1]
  <2>1. CASE Refuses(s) \/ Throws(s) \/ Passes(s)
    BY <2>1 DEF Refuses, Throws, Passes
  <2>8. CASE LaunchFails(s)
    <3>1. PICK n \in 0 .. 1 : started' = [started EXCEPT ![s] = @ + n]
      BY <2>8 DEF LaunchFails
    <3>2. disp[s] = "launching" /\ disp' = [disp EXCEPT ![s] = "none"]
      BY <2>8 DEF LaunchFails
    <3>3. CASE n = 0
      <4>1. started' = started
        BY <1>0, <3>1, <3>3
      <4> QED
        BY <3>2, <4>1
    <3>4. CASE n = 1
      <4>1. started' = [started EXCEPT ![s] = @ + 1]
        BY <3>1, <3>4
      <4> QED
        BY <3>2, <4>1
    <3> QED
      BY <3>3, <3>4
  <2>2. CASE Launches(s)
    BY <2>2 DEF Launches
  <2>3. CASE MarkDispatched(s)
    BY <2>3 DEF MarkDispatched
  <2>4. CASE Replied(s)
    BY <2>4 DEF Replied
  <2>5. CASE AgentDone(s)
    BY <2>5 DEF AgentDone, Hears
  <2>6. CASE AgentExits(s)
    BY <2>6 DEF AgentExits, Hears
  <2>7. CASE PageCompletes(s)
    BY <2>7 DEF PageCompletes
  <2> QED
    BY <1>7, <2>1, <2>2, <2>3, <2>4, <2>5, <2>6, <2>7, <2>8 DEF Handles
<1>8. ASSUME NEW c \in collecting, Collected(c)
      PROVE  disp' = disp /\ started' = started
  BY <1>8 DEF Collected, window
<1>9. ASSUME NEW a \in Automation, RunNow(a)
      PROVE  /\ Unlaunched(r)' => Unlaunched(r) \/ AskedNow(r)
             /\ disp[r] = "none" => disp'[r] = "none" \/ AskedNow(r)
             /\ started'[r] = started[r]
  BY <1>0, <1>4, <1>9 DEF AskedNow, Unlaunched
<1>10. ASSUME NEW s \in RunId, Handles(s) \/ AgentDone(s) \/ AgentExits(s) \/ PageCompletes(s)
       PROVE  /\ Unlaunched(r)' => Unlaunched(r)
              /\ disp[r] = "none" => disp'[r] = "none"
              /\ \/ started'[r] = started[r]
                 \/ Unlaunched(r) /\ ~Unlaunched(r)' /\ started'[r] = started[r] + 1
  <2>2. CASE s = r
    BY <1>0, <1>7, <1>10, <2>2 DEF Unlaunched
  <2>3. CASE s # r
    BY <1>0, <1>7, <1>10, <2>3 DEF Unlaunched
  <2> QED
    BY <2>2, <2>3
<1> QED
  BY <1>1, <1>2, <1>3, <1>5, <1>6, <1>8, <1>9, <1>10 DEF Next, TickStep

LEMMA FreshStep ==
  ASSUME Inv, Typed, TickOK, PastOK, [Next]_vars, made' \in Nat, made <= made'
  PROVE  \A r \in RunId : r > made' => disp'[r] = "none" /\ started'[r] = 0
<1> SUFFICES ASSUME NEW r \in RunId, r > made'
             PROVE  disp'[r] = "none" /\ started'[r] = 0
  OBVIOUS
<1>1. r > made /\ r \in Nat /\ made \in Nat
  BY DEF Inv, RunId
<1>2. disp[r] = "none" /\ started[r] = 0
  BY <1>1 DEF PastOK
<1>3. ~AskedNow(r)
  <2>1. tick.pc = "created" => tick.run \in DOMAIN runs
    BY TickFields DEF Typed, OnRun
  <2>2. r \notin DOMAIN runs
    BY <1>1 DEF Inv
  <2>3. ~(r = made + 1 /\ made' = made + 1)
    BY <1>1
  <2> QED
    BY <2>1, <2>2, <2>3 DEF AskedNow
<1> QED
  BY <1>2, <1>3, AskedOnce DEF Unlaunched

Sound == Inv /\ Typed /\ TickOK /\ PastOK

LEMMA SoundStep == Sound /\ [Next]_vars => Sound'
<1> SUFFICES ASSUME Sound, [Next]_vars
             PROVE  Sound'
  OBVIOUS
<1>0. Inv /\ Typed /\ TickOK /\ PastOK
  BY DEF Sound
<1>1. Inv' /\ StoreStep
  BY <1>0, StepInv, StoreStepIs
<1>2. StoreOK' /\ made <= made' /\ ClockOK' /\ now' \in {now, now + 1}
  BY <1>0, <1>1, StoreTypes, ClockStep
<1>3. made' \in 0 .. MaxRuns /\ made' \in Nat
  BY <1>2, Constants DEF StoreOK
<1>4. Typed'
  BY <1>0, <1>2, <1>3, AppTypes, HandlerTypes, MarksTypes DEF Typed
<1>5. TickOK'
  BY <1>0, <1>2, TickTypes
<1>6. PastOK'
  BY <1>0, <1>1, <1>2, <1>3, PastStep, FreshStep DEF PastOK
<1> QED
  BY <1>1, <1>4, <1>5, <1>6 DEF Sound

LEMMA InitSound == Init => Sound
<1> SUFFICES ASSUME Init
             PROVE  Sound
  OBVIOUS
<1>1. DOMAIN autos = {} /\ DOMAIN runs = {}
  BY DEF Init
<1>2. Typed
  <2>1. ClockOK
    BY Constants DEF Init, ClockOK
  <2>2. made = 0
    BY DEF Init
  <2>3. StoreOK
    BY <1>1, <2>2, Constants DEF StoreOK
  <2>4. AppOK
    BY DEF Init, AppOK
  <2>5. HandlersOK
    BY DEF Init, HandlersOK, Heard
  <2>6. MarksOK
    BY DEF Init, MarksOK
  <2> QED
    BY <2>1, <2>3, <2>4, <2>5, <2>6 DEF Typed
<1>3. TickOK
  BY DEF Init, TickOK
<1>4. PastOK
  BY <1>1, Constants DEF Init, PastOK
<1> QED
  BY <1>2, <1>3, <1>4, InitInv DEF Sound

\* Types of the automation scheduler.
THEOREM TypesHold == FairSpec => []TypeOK
<1>1. Init => Sound
  BY InitSound
<1>2. Sound /\ [Next]_vars => Sound'
  BY SoundStep
<1>3. Sound => TypeOK
  BY TypedIsTypeOK DEF Sound
<1> QED
  BY <1>1, <1>2, <1>3, PTL DEF FairSpec

-----------------------------------------------------------------------------
(* No occurrence is lost. What NoOccurrenceLost says of the latest one, an  *)
(* automation keeps to for any instant of the zone it was last computed in. *)

KeptAt(a, t) ==
  /\ t >= autos[a].start /\ t > base[a].at /\ (t + base[a].zone) % Period = autos[a].phase
  /\ t > now - Period /\ t < autos[a].nextRunAt
  => Existing(a, t) # {}

Kept == \A a \in DOMAIN autos : \A t \in Int : KeptAt(a, t)

LEMMA KeptIsNotLost == Sound /\ Kept => NoOccurrenceLost
<1> SUFFICES ASSUME Sound, Kept, NEW a \in DOMAIN autos, NEW t \in Latest(autos[a]),
                    t > base[a].at, base[a].zone = zone
             PROVE  autos[a].nextRunAt <= t \/ Existing(a, t) # {}
  BY DEF NoOccurrenceLost
<1>1. now \in Nat /\ autos[a] \in AutoRec /\ t \in Int
  BY Constants DEF Sound, Typed, ClockOK, StoreOK, Latest
<1>2. t >= autos[a].start /\ t > now - Period /\ Matches(autos[a].phase, t)
  BY <1>1, LatestIs
<1>3. KeptAt(a, t)
  BY <1>1 DEF Kept
<1>4. autos[a].nextRunAt \in Nat
  BY <1>1 DEF AutoRec
<1> QED
  BY <1>1, <1>2, <1>3, <1>4 DEF KeptAt, Matches

LEMMA Later ==
  ASSUME NEW m \in Nat, NEW n \in Nat, NEW p \in Nat, n <= m
  PROVE  \A t \in Int : t > m - p => t > n - p
OBVIOUS

LEMMA KeptStep ==
  ASSUME Sound, Kept, StoreStep, now' \in {now, now + 1}
  PROVE  Kept'
<1>0. /\ now \in Nat /\ zone \in 0 .. Period - 1 /\ Period \in Nat
      /\ \A b \in DOMAIN autos : autos[b] \in AutoRec /\ b \in Automation
      /\ base \in [Automation -> [at : Nat \cup {-1}, zone : 0 .. Period - 1]]
  BY Constants DEF Sound, Typed, ClockOK, StoreOK, PastOK
<1>n. now \in Nat /\ now' \in Nat /\ now <= now' /\ Period \in Nat
  BY <1>0
<1>m. \A t \in Int : t > now' - Period => t > now - Period
  BY <1>n, Later
\* An automation that is left as it was, and none of whose runs goes.
<1>1. ASSUME NEW a \in DOMAIN autos, autos'[a] = autos[a], base'[a] = base[a],
             NEW t \in Int, Existing(a, t) # {} => Existing(a, t)' # {}
      PROVE  KeptAt(a, t)'
  <2>1. KeptAt(a, t)
    BY DEF Kept
  <2>2. t > now' - Period => t > now - Period
    BY <1>m
  <2> SUFFICES ASSUME t >= autos[a].start, t > base[a].at, t > now' - Period,
                      (t + base[a].zone) % Period = autos[a].phase, t < autos[a].nextRunAt
               PROVE  Existing(a, t)' # {}
    BY <1>1, Zenon DEF KeptAt
  <2>3. Existing(a, t) # {}
    BY <2>1, <2>2, Zenon DEF KeptAt
  <2> QED
    BY <1>1, <2>3
<1>2. CASE Unmoved
  BY <1>1, <1>2 DEF Unmoved, Kept, Existing
<1>3. CASE Rewritten
  <2>1. ASSUME NEW a, NEW t
        PROVE  Existing(a, t) # {} => Existing(a, t)' # {}
    BY <1>3 DEF Rewritten, Keeps, Existing
  <2> QED
    BY <1>1, <1>3, <2>1 DEF Rewritten, Kept
<1>4. ASSUME NEW b \in Automation, Removed(b)
      PROVE  Kept'
  <2>1. ASSUME NEW a, NEW t, a # b
        PROVE  Existing(a, t) # {} => Existing(a, t)' # {}
    BY <1>4, <2>1 DEF Removed, Existing
  <2>2. \A a \in DOMAIN autos' : a \in DOMAIN autos /\ a # b /\ autos'[a] = autos[a]
    BY <1>4 DEF Removed
  <2>3. base' = base
    BY <1>4 DEF Removed
  <2> QED
    BY <1>1, <2>1, <2>2, <2>3 DEF Kept
<1>5. ASSUME NEW b \in Automation, NEW at \in Int, Made(b, at)
      PROVE  Kept'
  <2>1. ASSUME NEW a, NEW t
        PROVE  Existing(a, t) # {} => Existing(a, t)' # {}
    BY <1>5 DEF Made, Adds, Existing
  <2> QED
    BY <1>1, <1>5, <2>1 DEF Made, Kept
<1>6. ASSUME NEW b \in Automation, NEW row, Becomes(b, row), NEW bs, base' = [base EXCEPT ![b] = bs],
             \A t \in Int : KeptAt(b, t)'
      PROVE  Kept'
  <2>1. ASSUME NEW a \in DOMAIN autos', a # b
        PROVE  /\ a \in DOMAIN autos /\ autos'[a] = autos[a] /\ base'[a] = base[a]
               /\ \A t : Existing(a, t)' = Existing(a, t)
    BY <1>0, <1>6, <2>1 DEF Becomes, Existing
  <2> QED
    BY <1>1, <1>6, <2>1 DEF Kept
<1>7. ASSUME NEW b \in Automation, NEW row, Plans(b, row)
      PROVE  Kept'
  <2>1. /\ row \in AutoRec /\ row.nextRunAt = NextAfter(row.phase, row.start, now)
        /\ base' = [base EXCEPT ![b] = [at |-> now, zone |-> zone]]
        /\ Becomes(b, row) /\ autos'[b] = row
    BY <1>7 DEF Plans, Becomes
  <2>2. base'[b].at = now /\ base'[b].zone = zone
    BY <1>0, <2>1
  <2>3. row.phase \in 0 .. Period - 1 /\ row.start \in Nat
    BY <2>1 DEF AutoRec
  <2>4. \A t \in Int : t >= row.start /\ t > now /\ Matches(row.phase, t) => t >= row.nextRunAt
    <3>1. PICK phase \in 0 .. Period - 1, start \in Nat : phase = row.phase /\ start = row.start
      BY <2>3
    <3>2. \A t \in Int : t >= start /\ t > now /\ Matches(phase, t)
                            => t >= NextAfter(phase, start, now)
      BY <1>0, NextIsFirst
    <3> QED
      BY <2>1, <3>1, <3>2
  <2>5. row.nextRunAt \in Nat
    BY <2>1 DEF AutoRec
  <2>6. ASSUME NEW t \in Int
        PROVE  KeptAt(b, t)'
    BY <2>1, <2>2, <2>4, <2>5 DEF KeptAt, Matches
  <2> QED
    BY <1>6, <2>1, <2>6
<1>8. ASSUME NEW b \in Automation, NEW row, AdvancesTo(b, row)
      PROVE  Kept'
  <2> DEFINE n == NextAfter(autos[b].phase, autos[b].start, now)
             bs == [base[b] EXCEPT !.zone = zone]
  <2>1. /\ b \in DOMAIN autos /\ autos[b] \in AutoRec /\ row = [autos[b] EXCEPT !.nextRunAt = n]
        /\ base' = [base EXCEPT ![b] = bs] /\ Becomes(b, row) /\ autos'[b] = row
        /\ UNCHANGED <<runs, now, zone>>
    BY <1>0, <1>8 DEF AdvancesTo, Becomes
  <2>2. base'[b].zone = zone
    BY <1>0, <2>1
  <2>3. autos[b].phase \in 0 .. Period - 1 /\ autos[b].start \in Nat
    BY <2>1 DEF AutoRec
  <2>4. /\ \A t \in Int : t >= autos[b].start /\ t > now /\ Matches(autos[b].phase, t) => t >= n
        /\ n \in Nat
    BY <1>0, <2>3, NextIsFirst
  <2> HIDE DEF n
  <2>5. row.start = autos[b].start /\ row.phase = autos[b].phase /\ row.nextRunAt = n
    BY <2>1 DEF AutoRec
  <2>6. ASSUME NEW t \in Int, t >= autos[b].start, Matches(autos[b].phase, t), t < n,
               t > now - Period
        PROVE  Existing(b, t) # {}
    <3>1. t <= now
      BY <1>0, <2>4, <2>6
    <3>2. t \in Latest(autos[b])
      BY <1>0, <2>1, <2>6, <3>1, LatestIs
    <3>3. OnRun(b, tick.run, tick.at)
      BY <1>8, <3>2 DEF AdvancesTo
    <3>4. tick.at \in Latest(autos[b])
      BY <3>3 DEF OnRun
    <3>5. t = tick.at
      BY <1>0, <2>1, <3>2, <3>4, LatestIsOne
    <3> QED
      BY <3>3, <3>5 DEF OnRun, Existing
  <2>7. ASSUME NEW t \in Int
        PROVE  KeptAt(b, t)'
    <3>1. Existing(b, t)' = Existing(b, t)
      BY <2>1 DEF Existing
    <3> QED
      BY <2>1, <2>2, <2>5, <2>6, <3>1 DEF KeptAt, Matches
  <2> QED
    BY <1>6, <2>1, <2>7
<1>9. ASSUME NEW b \in Automation, NEW row, Switches(b, row)
      PROVE  Kept'
  <2>1. /\ b \in DOMAIN autos /\ autos[b] \in AutoRec /\ base' = base
        /\ row = [autos[b] EXCEPT !.enabled = ~@] /\ autos'[b] = row
        /\ UNCHANGED <<runs, now, zone>>
        /\ DOMAIN autos' = DOMAIN autos
        /\ \A a \in DOMAIN autos : a # b => autos'[a] = autos[a]
    BY <1>0, <1>9 DEF Switches, Becomes
  <2>2. row.start = autos[b].start /\ row.phase = autos[b].phase
        /\ row.nextRunAt = autos[b].nextRunAt
    BY <2>1 DEF AutoRec
  <2>3. ASSUME NEW a \in DOMAIN autos, NEW t \in Int
        PROVE  KeptAt(a, t)'
    <3>1. KeptAt(a, t) /\ Existing(a, t)' = Existing(a, t)
      BY <2>1 DEF Kept, Existing
    <3>2. /\ autos'[a].start = autos[a].start /\ autos'[a].phase = autos[a].phase
          /\ autos'[a].nextRunAt = autos[a].nextRunAt
      BY <2>1, <2>2
    <3> QED
      BY <2>1, <3>1, <3>2 DEF KeptAt
  <2> QED
    BY <2>1, <2>3 DEF Kept
<1> QED
  BY <1>2, <1>3, <1>4, <1>5, <1>7, <1>8, <1>9 DEF StoreStep

LEMMA InitKept == Init => Kept
<1> SUFFICES ASSUME Init
             PROVE  Kept
  OBVIOUS
<1>1. DOMAIN autos = {}
  BY DEF Init
<1> QED
  BY <1>1 DEF Kept

\* However the schedules are edited, the zone changes and the process ends between
\* two writes of a tick, the latest occurrence of a schedule has its run or is
\* still to be evaluated.
THEOREM NothingLost == FairSpec => []NoOccurrenceLost
<1>1. Init => Sound /\ Kept
  BY InitSound, InitKept
<1>2. Sound /\ Kept /\ [Next]_vars => (Sound /\ Kept)'
  <2> SUFFICES ASSUME Sound, Kept, [Next]_vars
               PROVE  Sound' /\ Kept'
    OBVIOUS
  <2>1. Sound'
    BY SoundStep
  <2>2. StoreStep /\ now' \in {now, now + 1}
    BY StoreStepIs, ClockStep DEF Sound
  <2> QED
    BY <2>1, <2>2, KeptStep
<1>3. Sound /\ Kept => NoOccurrenceLost
  BY KeptIsNotLost
<1> QED
  BY <1>1, <1>2, <1>3, PTL DEF FairSpec

-----------------------------------------------------------------------------
(* No run is started twice: once the tick of an occurrence has settled, the *)
(* next run is a period after it, until the schedule is edited.             *)

Handled(r) == autos[runs[r].auto].nextRunAt >= runs[r].scheduledFor + Period

StartsAt(r) ==
  ~Superseded(r) =>
    /\ started[r] <= 1
    /\ Unlaunched(r) => started[r] = 0
    /\ \/ Handled(r) \/ runs[r].scheduledFor = Manual
       \/ started[r] = 0 /\ disp[r] = "none"
       \/ started[r] = 0 /\ tick.pc = "settled" /\ tick.run = r

Starts == \A r \in DOMAIN runs : StartsAt(r)

\* A run as typed by the store.
LEMMA RowType ==
  ASSUME Sound
  PROVE  /\ now \in Nat /\ zone \in 0 .. Period - 1 /\ Period \in Nat /\ Period > 0
         /\ \A a \in DOMAIN autos : /\ a \in Automation /\ autos[a] \in AutoRec
                                    /\ autos[a].nextRunAt \in Nat
         /\ \A a \in Automation : base[a].at \in Int /\ base[a].at <= now
         /\ \A r \in DOMAIN runs : /\ runs[r].auto \in DOMAIN autos
                                   /\ runs[r].scheduledFor \in Int
                                   /\ runs[r].scheduledFor = Manual \/ runs[r].scheduledFor >= 0
                                   /\ runs[r].scheduledFor <= now
                                   /\ r \in RunId /\ r \in 1 .. made
         /\ made \in Nat
<1>1. ClockOK /\ StoreOK /\ PastOK
  BY DEF Sound, Typed
<1>2. ASSUME NEW a \in Automation
      PROVE  base[a].at \in Int /\ base[a].at <= now
  BY <1>1 DEF PastOK
<1>3. ASSUME NEW a \in DOMAIN autos
      PROVE  a \in Automation /\ autos[a] \in AutoRec /\ autos[a].nextRunAt \in Nat
  BY <1>1 DEF StoreOK, AutoRec
<1>4. ASSUME NEW r \in DOMAIN runs
      PROVE  /\ runs[r].auto \in DOMAIN autos /\ runs[r].scheduledFor \in Int
             /\ runs[r].scheduledFor = Manual \/ runs[r].scheduledFor >= 0
             /\ runs[r].scheduledFor <= now
             /\ r \in RunId /\ r \in 1 .. made
  BY <1>1, Constants DEF StoreOK, PastOK, RunRec, Manual, RunId
<1> QED
  BY <1>1, <1>2, <1>3, <1>4, Constants DEF ClockOK, StoreOK

\* A run stays handled, and superseded, as long as it is there.
LEMMA HandledStays ==
  ASSUME Sound, StoreStep, NEW r \in DOMAIN runs, r \in DOMAIN runs'
  PROVE  /\ runs'[r].auto = runs[r].auto /\ runs'[r].scheduledFor = runs[r].scheduledFor
         /\ Superseded(r) => Superseded(r)'
         /\ ~Superseded(r)' /\ Handled(r) => Handled(r)' \/ runs[r].scheduledFor = Manual
<1> DEFINE a == runs[r].auto
           s == runs[r].scheduledFor
<1>0. /\ now \in Nat /\ zone \in 0 .. Period - 1 /\ Period \in Nat
      /\ a \in DOMAIN autos /\ a \in Automation /\ autos[a] \in AutoRec
      /\ autos[a].nextRunAt \in Nat
      /\ s \in Int /\ s <= now /\ (s = Manual \/ s >= 0)
      /\ base[a].at \in Int /\ base[a].at <= now
  BY RowType
<1>1. runs'[r].auto = a /\ runs'[r].scheduledFor = s
  BY DEF StoreStep, Unmoved, Rewritten, Keeps, Removed, Made, Adds, Plans, Switches, AdvancesTo,
         Becomes
<1>2. CASE autos'[a].nextRunAt = autos[a].nextRunAt /\ base'[a].at = base[a].at
  BY <1>1, <1>2 DEF Superseded, Handled
<1>3. CASE Unmoved \/ Rewritten
  BY <1>2, <1>3 DEF Unmoved, Rewritten
<1>4. ASSUME NEW b \in Automation, NEW at \in Int, Removed(b) \/ Made(b, at)
      PROVE  autos'[a].nextRunAt = autos[a].nextRunAt /\ base'[a].at = base[a].at
  BY <1>0, <1>4 DEF Removed, Made
<1>b. base \in [Automation -> [at : Nat \cup {-1}, zone : 0 .. Period - 1]]
  BY DEF Sound, PastOK
<1>5. ASSUME NEW b \in Automation, NEW row, b # a, Plans(b, row) \/ AdvancesTo(b, row)
      PROVE  autos'[a].nextRunAt = autos[a].nextRunAt /\ base'[a].at = base[a].at
  <2>1. autos'[a] = autos[a]
    BY <1>0, <1>5 DEF Plans, AdvancesTo, Becomes
  <2>2. \/ base' = [base EXCEPT ![b] = [at |-> now, zone |-> zone]]
        \/ base' = [base EXCEPT ![b].zone = zone]
    BY <1>5 DEF Plans, AdvancesTo
  <2>3. base'[a] = base[a]
    BY <1>0, <1>b, <1>5, <2>2
  <2> QED
    BY <2>1, <2>3
<1>6. ASSUME NEW b \in Automation, NEW row, Switches(b, row)
      PROVE  autos'[a].nextRunAt = autos[a].nextRunAt /\ base'[a].at = base[a].at
  <2>1. base' = base /\ row = [autos[b] EXCEPT !.enabled = ~@] /\ autos'[b] = row
        /\ (b # a => autos'[a] = autos[a])
    BY <1>0, <1>6 DEF Switches, Becomes
  <2> QED
    BY <1>0, <2>1 DEF AutoRec
<1>7. ASSUME NEW row, Plans(a, row)
      PROVE  base'[a].at = now
  BY <1>0, <1>7, <1>b DEF Plans
<1>8. ASSUME base'[a].at = now
      PROVE  /\ Superseded(r) => Superseded(r)'
             /\ s = Manual \/ Superseded(r)'
  BY <1>0, <1>1, <1>8 DEF Superseded, Manual
<1>9. ASSUME NEW row, AdvancesTo(a, row)
      PROVE  base'[a].at = base[a].at /\ autos'[a].nextRunAt >= autos[a].nextRunAt
             /\ autos'[a].nextRunAt \in Nat
  <2>1. /\ row = [autos[a] EXCEPT !.nextRunAt = NextAfter(autos[a].phase, autos[a].start, now)]
        /\ base' = [base EXCEPT ![a].zone = zone] /\ autos'[a] = row /\ Due(a)
    BY <1>9 DEF AdvancesTo, Becomes
  <2>2. autos'[a].nextRunAt = NextAfter(autos[a].phase, autos[a].start, now)
    BY <1>0, <2>1 DEF AutoRec
  <2>3. autos[a].phase \in 0 .. Period - 1 /\ autos[a].start \in Nat
    BY <1>0 DEF AutoRec
  <2>4. autos'[a].nextRunAt > now /\ autos'[a].nextRunAt \in Nat
    BY <1>0, <2>2, <2>3, NextIsFirst
  <2>5. base'[a].at = base[a].at
    BY <1>0, <1>b, <2>1
  <2> QED
    BY <1>0, <2>1, <2>4, <2>5 DEF Due
<1>10. ASSUME NEW row, AdvancesTo(a, row)
       PROVE  /\ Superseded(r) => Superseded(r)'
              /\ Handled(r) => Handled(r)'
  BY <1>0, <1>1, <1>9, <1>10 DEF Superseded, Handled
<1>11. CASE \E b \in Automation : \E row : Plans(b, row)
  <2>0. PICK b \in Automation : \E row : Plans(b, row)
    BY <1>11
  <2>1. PICK row : Plans(b, row)
    BY <2>0
  <2>2. CASE b # a
    BY <1>2, <1>5, <2>1, <2>2
  <2>3. CASE b = a
    BY <1>1, <1>7, <1>8, <2>1, <2>3
  <2> QED
    BY <2>2, <2>3
<1>12. CASE \E b \in Automation : \E row : AdvancesTo(b, row)
  <2>0. PICK b \in Automation : \E row : AdvancesTo(b, row)
    BY <1>12
  <2>1. PICK row : AdvancesTo(b, row)
    BY <2>0
  <2>2. CASE b # a
    BY <1>2, <1>5, <2>1, <2>2
  <2>3. CASE b = a
    BY <1>1, <1>10, <2>1, <2>3
  <2> QED
    BY <2>2, <2>3
<1> HIDE DEF a, s
<1>13. CASE \E b \in Automation : \/ Removed(b) \/ \E at \in Int : Made(b, at)
                                  \/ \E row : Switches(b, row)
  <2>1. 0 \in Int
    OBVIOUS
  <2> QED
    BY <1>1, <1>2, <1>4, <1>6, <1>13, <2>1 DEF a, s
<1> QED
  BY <1>3, <1>11, <1>12, <1>13 DEF StoreStep

\* An occurrence that is evaluated is none that was handled.
LEMMA DueIsNew ==
  ASSUME Sound, NEW r \in DOMAIN runs, NEW a, Due(a), runs[r].auto = a,
         runs[r].scheduledFor \in Latest(autos[a])
  PROVE  ~Handled(r) /\ runs[r].scheduledFor # Manual
<1>1. /\ now \in Nat /\ Period \in Nat /\ zone \in 0 .. Period - 1
      /\ autos[a] \in AutoRec /\ autos[a].nextRunAt \in Nat
      /\ runs[r].scheduledFor \in Int
  BY RowType DEF Due
<1>2. runs[r].scheduledFor > now - Period /\ runs[r].scheduledFor \in Nat
  BY <1>1, LatestIs, LatestIsOne
<1>3. autos[a].nextRunAt <= now
  BY DEF Due
<1> QED
  BY <1>1, <1>2, <1>3 DEF Handled, Manual

\* The run of a tick, once it has settled, is handled.
LEMMA SettlesHandles ==
  ASSUME Sound, Settles, NEW r, r = tick.run
  PROVE  Handled(r)'
<1>1. /\ tick.pc = "settled" /\ Advances(tick.auto, tick.now) /\ runs' = runs
      /\ tick.now = now
      /\ OnRun(tick.auto, tick.run, tick.at)
  BY TickFields DEF Settles, Sound, Typed
<1> DEFINE a == tick.auto
           at == tick.at
           n == NextAfter(autos[a].phase, autos[a].start, now)
<1>2. /\ a \in DOMAIN autos /\ autos[a] \in AutoRec
      /\ r \in DOMAIN runs /\ runs[r].auto = a /\ runs[r].scheduledFor = at
      /\ at \in Latest(autos[a])
      /\ now \in Nat /\ Period \in Nat /\ zone \in 0 .. Period - 1
  BY <1>1, RowType DEF OnRun, Due
<1>3. at \in Nat /\ at <= now /\ Matches(autos[a].phase, at)
  BY <1>2, LatestIs, LatestIsOne
<1>4. autos[a].phase \in 0 .. Period - 1 /\ autos[a].start \in Nat
  BY <1>2 DEF AutoRec
<1>5. n \in Nat /\ n > now /\ Matches(autos[a].phase, n)
  BY <1>2, <1>4, NextIsFirst
<1>6. autos'[a].nextRunAt = n
  BY <1>1, <1>2 DEF Advances, AutoRec
<1> HIDE DEF n
<1>7. n >= at + Period
  BY <1>2, <1>3, <1>5, MatchesApart
<1> QED
  BY <1>1, <1>2, <1>6, <1>7 DEF Handled

\* What may come after the first write of an occurrence.
LEMMA TickNext ==
  ASSUME Sound, [Next]_vars, tick.pc \in {"created", "settled"}
  PROVE  \/ Skips \/ Dispatches
         \/ Settles
         \/ AppEnds
         \/ UNCHANGED vars
<1>1. tick # Idle /\ up /\ tick.pc # "loop"
  BY TickIs DEF Sound, Idle
<1>2. ASSUME NEW a \in Automation,
             \/ CreateAutomation(a) \/ Reschedule(a) \/ Toggle(a) \/ DeleteAutomation(a) \/ RunNow(a)
      PROVE  FALSE
  BY <1>1, <1>2 DEF CreateAutomation, Reschedule, Toggle, DeleteAutomation, RunNow
<1>3. ASSUME NEW a \in Automation, Creates(a) \/ NoOccurrence(a)
      PROVE  FALSE
  BY <1>1, <1>3 DEF Creates, NoOccurrence
<1>4. ASSUME NEW r \in RunId, Handles(r) \/ AgentDone(r) \/ AgentExits(r) \/ PageCompletes(r)
      PROVE  FALSE
  BY <1>1, <1>4 DEF Handles, Refuses, Throws, Passes, LaunchFails, Launches, MarkDispatched, Replied,
                    AgentDone, AgentExits, PageCompletes
<1>5. ASSUME NEW c \in collecting, Collected(c)
      PROVE  FALSE
  BY <1>1, <1>5 DEF Collected
<1>6. ~(TickBegins \/ PageReads \/ Mounts \/ Reloads \/ WindowCloses \/ WindowOpens \/ AppStarts \/ Clock)
  BY <1>1 DEF TickBegins, PageReads, Mounts, Reloads, WindowCloses, WindowOpens, AppStarts, Clock
<1> QED
  BY <1>2, <1>3, <1>4, <1>5, <1>6 DEF Next, TickStep

\* The handler of the run of a tick is asked when the tick settles.
LEMMA SettlesOrEnds ==
  ASSUME Sound, [Next]_vars, NEW r \in RunId, tick.pc = "settled", tick.run = r
  PROVE  /\ started'[r] = started[r] /\ r \in DOMAIN runs'
         /\ \/ Handled(r)' \/ disp'[r] = "none" \/ UNCHANGED vars
<1>1. Settles \/ AppEnds \/ UNCHANGED vars
  BY TickNext DEF Skips, Dispatches
<1>2. r \in DOMAIN runs
  BY TickFields DEF Sound, Typed, OnRun
<1>3. CASE Settles
  BY <1>2, <1>3, SettlesHandles DEF Settles
<1>4. CASE AppEnds
  BY <1>2, <1>4 DEF AppEnds, RendererGone, store
<1>5. CASE UNCHANGED vars
  BY <1>2, <1>5 DEF vars
<1> QED
  BY <1>1, <1>3, <1>4, <1>5

\* Only a tick and a user make runs.
LEMMA MadeBy ==
  ASSUME Sound, [Next]_vars, made' # made
  PROVE  \E a \in Automation : Creates(a) \/ RunNow(a)
<1>1. ASSUME NEW a \in Automation,
             \/ CreateAutomation(a) \/ Reschedule(a) \/ Toggle(a) \/ DeleteAutomation(a)
             \/ NoOccurrence(a)
      PROVE  FALSE
  BY <1>1 DEF CreateAutomation, Reschedule, Toggle, DeleteAutomation, NoOccurrence
<1>2. ASSUME NEW s \in RunId, Handles(s) \/ AgentDone(s) \/ AgentExits(s) \/ PageCompletes(s)
      PROVE  FALSE
  BY <1>2 DEF Handles, Refuses, Throws, Passes, LaunchFails, Launches, MarkDispatched, Replied,
              AgentDone, AgentExits, PageCompletes, store
<1>3. ASSUME NEW c \in collecting, Collected(c)
      PROVE  FALSE
  BY <1>3 DEF Collected
<1>4. ~(TickBegins \/ Skips \/ Dispatches \/ Settles \/ PageReads \/ Mounts \/ Reloads
        \/ WindowCloses \/ WindowOpens \/ AppEnds \/ AppStarts \/ Clock \/ UNCHANGED vars)
  BY DEF TickBegins, Skips, Dispatches, Settles, PageReads, Mounts, Reloads, WindowCloses,
         WindowOpens, AppEnds, AppStarts, Clock, vars, store
<1> QED
  BY <1>1, <1>2, <1>3, <1>4 DEF Next, TickStep

\* A new run is new in every respect.
LEMMA NewIsFresh ==
  ASSUME Sound, [Next]_vars, NEW r \in DOMAIN runs', r \notin DOMAIN runs
  PROVE  /\ r = made + 1 /\ made' # made /\ r \in RunId
         /\ disp[r] = "none" /\ started[r] = 0 /\ started'[r] = 0
         /\ disp'[r] = "none" \/ runs'[r].scheduledFor = Manual
<1>1. StoreStep /\ StoreOK'
  BY SoundStep, StoreStepIs DEF Sound, Typed
<1>2. r = made + 1 /\ made' = made + 1
  <2>1. PICK a \in Automation, at \in Int : Made(a, at)
    BY <1>1 DEF StoreStep, Unmoved, Rewritten, Removed, Plans, Switches, AdvancesTo, Becomes
  <2> QED
    BY <2>1 DEF Made, Adds
<1>3. r \in RunId /\ r > made /\ made' # made
  BY <1>1, <1>2, RowType, Constants DEF StoreOK, RunId
<1>4. disp[r] = "none" /\ started[r] = 0
  BY <1>3 DEF Sound, PastOK
<1>5. started'[r] = 0
  BY <1>3, <1>4, AskedOnce DEF Sound, Unlaunched
<1>6. ASSUME NEW a \in Automation, Creates(a)
      PROVE  disp' = disp
  BY <1>6 DEF Creates, window
<1>7. ASSUME NEW a \in Automation, RunNow(a)
      PROVE  runs'[r].scheduledFor = Manual
  <2>1. PICK status \in Status :
          runs' = [WithRun(NewRun(a, Manual)) EXCEPT ![made + 1].status = status]
    BY <1>7, StatusType DEF RunNow, Request
  <2>2. WithRun(NewRun(a, Manual))[r] = NewRun(a, Manual) /\ r \in DOMAIN WithRun(NewRun(a, Manual))
    BY <1>2 DEF WithRun
  <2>3. runs'[r] = [NewRun(a, Manual) EXCEPT !.status = status]
    BY <1>2, <2>1, <2>2
  <2> QED
    BY <2>3 DEF NewRun
<1> QED
  BY <1>2, <1>3, <1>4, <1>5, <1>6, <1>7, MadeBy

LEMMA StartsStep ==
  ASSUME Sound, Starts, [Next]_vars
  PROVE  Starts'
<1> SUFFICES ASSUME NEW r \in DOMAIN runs', ~Superseded(r)'
             PROVE  /\ started'[r] <= 1
                    /\ Unlaunched(r)' => started'[r] = 0
                    /\ \/ Handled(r)' \/ runs'[r].scheduledFor = Manual
                       \/ started'[r] = 0 /\ disp'[r] = "none"
                       \/ started'[r] = 0 /\ tick'.pc = "settled" /\ tick'.run = r
  BY DEF Starts, StartsAt
<1>0. StoreStep
  BY StoreStepIs DEF Sound
<1>1. CASE r \notin DOMAIN runs
  BY <1>1, NewIsFresh
<1>2. CASE r \in DOMAIN runs
  <2>0. /\ r \in RunId /\ r # made + 1
        /\ started \in [RunId -> Nat]
    BY <1>2, RowType DEF Sound, Typed, HandlersOK
  <2>1. /\ ~Superseded(r) /\ runs'[r].scheduledFor = runs[r].scheduledFor
        /\ Handled(r) => Handled(r)' \/ runs'[r].scheduledFor = Manual
    BY <1>0, <1>2, HandledStays
  <2>2. /\ started[r] <= 1
        /\ Unlaunched(r) => started[r] = 0
        /\ \/ Handled(r) \/ runs[r].scheduledFor = Manual
           \/ started[r] = 0 /\ disp[r] = "none"
           \/ started[r] = 0 /\ tick.pc = "settled" /\ tick.run = r
    BY <1>2, <2>1 DEF Starts, StartsAt
  <2>3. /\ Unlaunched(r)' => Unlaunched(r) \/ AskedNow(r)
        /\ disp[r] = "none" => disp'[r] = "none" \/ AskedNow(r)
        /\ \/ started'[r] = started[r]
           \/ Unlaunched(r) /\ ~Unlaunched(r)' /\ started'[r] = started[r] + 1
    BY <2>0, AskedOnce DEF Sound
  <2>4. ASSUME AskedNow(r)
        PROVE  /\ ~Handled(r) /\ runs[r].scheduledFor # Manual
               /\ tick.pc = "created" /\ tick'.pc = "settled" /\ tick'.run = r
    <3>1. tick.pc = "created" /\ r = tick.run /\ tick' = [tick EXCEPT !.pc = "settled"]
      BY <2>0, <2>4 DEF AskedNow
    <3>2. tick = [pc |-> tick.pc, todo |-> tick.todo, now |-> now, auto |-> tick.auto,
                  run |-> tick.run, at |-> tick.at]
          /\ OnRun(tick.auto, tick.run, tick.at)
      BY <3>1, TickIs DEF Sound
    <3>3. tick'.pc = "settled" /\ tick'.run = r
      BY <3>1, <3>2
    <3>4. ~Handled(r) /\ runs[r].scheduledFor # Manual
      BY <1>2, <3>1, <3>2, DueIsNew DEF OnRun
    <3> QED
      BY <3>1, <3>3, <3>4
  <2>5. started'[r] <= 1
    BY <2>0, <2>2, <2>3
  <2>6. Unlaunched(r)' => started'[r] = 0
    BY <2>2, <2>3, <2>4
  <2>7. CASE Handled(r) \/ runs[r].scheduledFor = Manual
    BY <2>1, <2>5, <2>6, <2>7
  <2>8. CASE started[r] = 0 /\ disp[r] = "none"
    BY <2>3, <2>4, <2>5, <2>6, <2>8 DEF Unlaunched
  <2>9. CASE started[r] = 0 /\ tick.pc = "settled" /\ tick.run = r
    <3>1. started'[r] = 0 /\ (Handled(r)' \/ disp'[r] = "none" \/ UNCHANGED vars)
      BY <2>0, <2>9, SettlesOrEnds
    <3>2. CASE UNCHANGED vars
      BY <2>5, <2>6, <2>9, <3>1, <3>2 DEF vars
    <3> QED
      BY <2>5, <2>6, <3>1, <3>2
  <2> QED
    BY <2>2, <2>7, <2>8, <2>9
<1> QED
  BY <1>1, <1>2

LEMMA InitStarts == Init => Starts
<1> SUFFICES ASSUME Init
             PROVE  Starts
  OBVIOUS
<1>1. DOMAIN runs = {}
  BY DEF Init
<1> QED
  BY <1>1 DEF Starts

\* No run starts two agents, also when the process ends between the writes of its
\* tick, unless the schedule was edited after its occurrence.
THEOREM StartedOnce == FairSpec => []StartsOnce
<1>1. Init => Sound /\ Starts
  BY InitSound, InitStarts
<1>2. Sound /\ Starts /\ [Next]_vars => (Sound /\ Starts)'
  BY SoundStep, StartsStep
<1>3. Sound /\ Starts => StartsOnce
  BY DEF Starts, StartsAt, StartsOnce
<1> QED
  BY <1>1, <1>2, <1>3, PTL DEF FairSpec

-----------------------------------------------------------------------------
(* A final status stands.                                                   *)

\* The handler of r was asked and has not written "dispatched".
Starting(r) == disp[r] \in {"asked", "launching", "launched"}

AtRun(r) == tick.pc \in {"created", "settled"} /\ tick.run = r

Collecting(r) == \E c \in collecting : c.run = r

FinalAt(r) ==
  r \notin torn /\ ~Superseded(r) =>
    /\ Handled(r) \/ runs[r].scheduledFor = Manual \/ AtRun(r)
    /\ tick.pc = "created" /\ tick.run = r => runs[r].status = "pending"
    /\ Starting(r) => runs[r].status = "dispatching"
    /\ r \in page => runs[r].status \notin {"pending", "dispatching"}
    /\ Collecting(r) => runs[r].status \in FinalStatus

Finals == \A r \in DOMAIN runs : FinalAt(r)

\* What a step makes of the status of a run.
Outcome(r) ==
  \/ runs'[r].status = runs[r].status /\ (Starting(r)' => Starting(r))
  \/ /\ runs'[r].status \in FinalStatus
     /\ Starting(r)' => Starting(r) /\ (r \in page \/ Collecting(r))
  \/ runs'[r].status = "dispatched" /\ disp[r] = "launched" /\ ~Starting(r)'
  \/ /\ tick.pc = "created" /\ tick.run = r
     /\ \/ runs'[r].status = "dispatching"
        \/ runs'[r].status = "skipped" /\ disp'[r] = disp[r]

LEMMA StatusOfMark ==
  ASSUME NEW r, NEW s \in DOMAIN runs, NEW status, NEW by, Mark(r, status, by),
         runs[s] \in RunRec
  PROVE  /\ r # s => runs'[s] = runs[s]
         /\ r = s => runs'[s].status = status
         /\ \A c \in collecting' : \/ c \in collecting
                                   \/ /\ c.run = r /\ r \in DOMAIN runs
                                      /\ status = "completed"
<1>1. r = s => runs'[s].status = status
  BY DEF Mark, RunRec
<1>2. r # s => runs'[s] = runs[s]
  BY DEF Mark
<1>3. \A c \in collecting' : \/ c \in collecting
                             \/ c.run = r /\ r \in DOMAIN runs /\ status = "completed"
  BY DEF Mark
<1> QED
  BY <1>1, <1>2, <1>3

LEMMA OutcomeOfMark ==
  ASSUME Sound, NEW r \in DOMAIN runs, NEW s \in RunId, NEW status \in FinalStatus, NEW by,
         Mark(s, status, by),
         \/ \E to \in {"none", "watching"} : disp' = [disp EXCEPT ![s] = to]
         \/ disp' = disp /\ (disp[s] \in {"replying", "watching"} \/ s \in page)
  PROVE  Outcome(r)
<1>1. runs[r] \in RunRec /\ disp \in [RunId -> {"none", "asked", "launching", "launched", "replying", "watching"}]
      /\ r \in RunId
  BY RowType DEF Sound, Typed, StoreOK, HandlersOK
<1>2. /\ s # r => runs'[r] = runs[r]
      /\ s = r => runs'[r].status = status
  BY <1>1, StatusOfMark
<1>3. s # r => disp'[r] = disp[r]
  BY <1>1
<1>4. CASE s # r
  BY <1>2, <1>3, <1>4 DEF Outcome, Starting
<1>5. CASE s = r
  BY <1>1, <1>2, <1>5 DEF Outcome, Starting
<1> QED
  BY <1>4, <1>5

LEMMA OutcomeIs ==
  ASSUME Sound, [Next]_vars, NEW r \in DOMAIN runs, r \in DOMAIN runs'
  PROVE  Outcome(r)
<1>0. /\ runs[r] \in RunRec /\ r \in RunId /\ r # made + 1 /\ made + 1 \notin DOMAIN runs
      /\ disp \in [RunId -> {"none", "asked", "launching", "launched", "replying", "watching"}]
      /\ pending \in [RunId -> Heard]
  BY RowType DEF Sound, Typed, StoreOK, HandlersOK
<1>f. {"completed", "dispatch_failed", "skipped"} = FinalStatus
  BY DEF FinalStatus
<1>1. CASE runs'[r] = runs[r] /\ (disp'[r] = disp[r] \/ disp'[r] = "none")
  BY <1>1 DEF Outcome, Starting
<1>2. ASSUME NEW a \in Automation,
             \/ CreateAutomation(a) \/ Reschedule(a) \/ Toggle(a) \/ NoOccurrence(a)
      PROVE  runs' = runs /\ disp' = disp
  BY <1>2 DEF CreateAutomation, Reschedule, Toggle, NoOccurrence, window
<1>3. ASSUME NEW a \in Automation, DeleteAutomation(a)
      PROVE  runs'[r] = runs[r] /\ disp' = disp
  BY <1>3 DEF DeleteAutomation, Restrict, window
<1>4. ASSUME NEW a \in Automation, RunNow(a)
      PROVE  runs'[r] = runs[r] /\ disp'[r] = disp[r]
  <2>1. PICK status : runs' = [WithRun(NewRun(a, Manual)) EXCEPT ![made + 1].status = status]
    BY <1>4 DEF RunNow, Request
  <2>2. runs'[r] = runs[r]
    BY <1>0, <2>1 DEF WithRun
  <2>3. disp' = disp \/ disp' = [disp EXCEPT ![made + 1] = "asked"]
    BY <1>4 DEF RunNow, Request
  <2> QED
    BY <1>0, <2>2, <2>3
<1>5. ASSUME NEW a \in Automation, Creates(a)
      PROVE  runs'[r] = runs[r] /\ disp' = disp
  <2>1. disp' = disp /\ \E at : CreateRun(a, at)
    BY <1>5 DEF Creates, window
  <2> QED
    BY <1>0, <2>1 DEF CreateRun, WithRun
<1>6. CASE \/ TickBegins \/ Settles \/ PageReads \/ Mounts \/ WindowOpens \/ AppStarts \/ Clock
           \/ UNCHANGED vars
  <2>1. runs' = runs /\ disp' = disp
    BY <1>6 DEF TickBegins, Settles, PageReads, Mounts, WindowOpens, AppStarts, Clock, vars, window,
                store
  <2> QED
    BY <1>1, <2>1
<1>7. CASE Reloads \/ WindowCloses \/ AppEnds
  <2>1. runs' = runs /\ disp'[r] = "none"
    BY <1>0, <1>7 DEF Reloads, WindowCloses, AppEnds, RendererGone, store
  <2> QED
    BY <1>1, <2>1
<1>8. CASE Skips
  <2>1. tick.pc = "created" /\ disp' = disp /\ runs' = [runs EXCEPT ![tick.run].status = "skipped"]
    BY <1>8 DEF Skips, window
  <2>2. CASE tick.run = r
    <3>1. runs'[r].status = "skipped"
      BY <1>0, <2>1, <2>2 DEF RunRec
    <3> QED
      BY <2>1, <2>2, <3>1 DEF Outcome
  <2>3. CASE tick.run # r
    BY <1>1, <2>1, <2>3
  <2> QED
    BY <2>2, <2>3
<1>9. CASE Dispatches
  <2>1. /\ tick.pc = "created"
        /\ \/ /\ runs' = [runs EXCEPT ![tick.run].status = "dispatching"]
              /\ disp' = disp \/ disp' = [disp EXCEPT ![tick.run] = "asked"]
           \/ runs' = [runs EXCEPT ![tick.run].status = "skipped"] /\ disp' = disp
    BY <1>9 DEF Dispatches, Request
  <2>2. CASE tick.run = r
    <3>1. \/ runs'[r].status = "dispatching"
          \/ runs'[r].status = "skipped" /\ disp'[r] = disp[r]
      BY <1>0, <2>1, <2>2 DEF RunRec
    <3> QED
      BY <2>1, <2>2, <3>1 DEF Outcome
  <2>3. CASE tick.run # r
    <3>1. runs'[r] = runs[r] /\ disp'[r] = disp[r]
      BY <1>0, <2>1, <2>3
    <3> QED
      BY <1>1, <3>1
  <2> QED
    BY <2>2, <2>3
<1>10. ASSUME NEW s \in RunId, Refuses(s) \/ LaunchFails(s)
       PROVE  Outcome(r)
  <2>1. disp' = [disp EXCEPT ![s] = "none"] /\ \E status \in FinalStatus : Mark(s, status, "handler")
    BY <1>10, <1>f DEF Refuses, LaunchFails
  <2> QED
    BY <2>1, OutcomeOfMark
<1>11. ASSUME NEW s \in RunId, Throws(s) \/ Passes(s) \/ Launches(s)
       PROVE  Outcome(r)
  <2>1. /\ runs' = runs
        /\ \/ disp' = [disp EXCEPT ![s] = "none"]
           \/ disp[s] = "asked" /\ disp' = [disp EXCEPT ![s] = "launching"]
           \/ disp[s] = "launching" /\ disp' = [disp EXCEPT ![s] = "launched"]
    BY <1>11 DEF Throws, Passes, Launches, store
  <2> QED
    BY <1>0, <2>1 DEF Outcome, Starting
<1>12. ASSUME NEW s \in RunId, MarkDispatched(s)
       PROVE  Outcome(r)
  <2>1. /\ disp[s] = "launched" /\ Mark(s, "dispatched", "handler")
        /\ \E to \in {"none", "replying"} : disp' = [disp EXCEPT ![s] = to]
    BY <1>12 DEF MarkDispatched
  <2>2. /\ s # r => runs'[r] = runs[r]
        /\ s = r => runs'[r].status = "dispatched"
    <3>1. Mark(s, "dispatched", "handler") /\ runs[r] \in RunRec
      BY <1>0, <2>1
    <3>2. CASE s = r
      <4>1. Mark(r, "dispatched", "handler")
        BY <3>1, <3>2
      <4> QED
        BY <3>1, <3>2, <4>1, StatusOfMark
    <3>3. CASE s # r
      BY <3>1, <3>3, StatusOfMark
    <3> QED
      BY <3>2, <3>3
  <2>3. CASE s = r
    BY <1>0, <2>1, <2>2, <2>3 DEF Outcome, Starting
  <2>4. CASE s # r
    BY <1>0, <1>1, <2>1, <2>2, <2>4
  <2> QED
    BY <2>3, <2>4
<1>13. ASSUME NEW s \in RunId, Replied(s)
       PROVE  Outcome(r)
  <2>1. CASE pending[s] = "none"
    <3>1. runs' = runs /\ disp' = [disp EXCEPT ![s] = "watching"]
      BY <1>13, <2>1 DEF Replied
    <3> QED
      BY <1>0, <3>1 DEF Outcome, Starting
  <2>2. CASE pending[s] # "none"
    <3>1. pending[s] \in FinalStatus
      BY <1>0, <1>f, <2>2 DEF Heard
    <3>2. disp' = [disp EXCEPT ![s] = "none"] /\ Mark(s, pending[s], "handler")
      BY <1>13, <2>2 DEF Replied
    <3> QED
      BY <3>1, <3>2, OutcomeOfMark
  <2> QED
    BY <2>1, <2>2
<1>14. ASSUME NEW s \in RunId, NEW status \in FinalStatus, Hears(s, status)
       PROVE  Outcome(r)
  <2>1. CASE disp[s] = "watching"
    <3>1. disp' = [disp EXCEPT ![s] = "none"] /\ Mark(s, status, "handler")
      BY <1>14, <2>1 DEF Hears
    <3> QED
      BY <3>1, OutcomeOfMark
  <2>2. CASE disp[s] # "watching"
    <3>1. runs' = runs /\ disp' = disp
      BY <1>14, <2>2 DEF Hears
    <3> QED
      BY <1>1, <3>1
  <2> QED
    BY <2>1, <2>2
<1>15. ASSUME NEW s \in RunId, AgentDone(s) \/ AgentExits(s)
       PROVE  Outcome(r)
  BY <1>f, <1>14, <1>15 DEF AgentDone, AgentExits
<1>16. ASSUME NEW s \in RunId, PageCompletes(s)
       PROVE  Outcome(r)
  <2>1. s \in page /\ disp' = disp /\ Mark(s, "completed", "page")
    BY <1>16 DEF PageCompletes
  <2> QED
    BY <1>f, <2>1, OutcomeOfMark
<1>17. ASSUME NEW c \in collecting, Collected(c)
       PROVE  Outcome(r)
  <2>1. disp' = disp /\ \/ runs' = runs
                        \/ runs' = [runs EXCEPT ![c.run].status = "completed", ![c.run].usage = TRUE]
    BY <1>17 DEF Collected, window
  <2>2. CASE c.run = r
    <3>1. runs'[r].status = "completed" \/ runs'[r] = runs[r]
      BY <1>0, <2>1, <2>2 DEF RunRec
    <3> QED
      BY <1>f, <2>1, <2>2, <3>1 DEF Outcome, Starting, Collecting
  <2>3. CASE c.run # r
    BY <1>0, <1>1, <2>1, <2>3
  <2> QED
    BY <2>2, <2>3
<1> QED
  BY <1>1, <1>2, <1>3, <1>4, <1>5, <1>6, <1>7, <1>8, <1>9, <1>10, <1>11, <1>12, <1>13, <1>15,
     <1>16, <1>17 DEF Next, TickStep, Handles

\* What the page shows, it read as dispatched; what is collected is completed.
LEMMA MarksStep ==
  ASSUME Sound, [Next]_vars, NEW r \in DOMAIN runs, r \in DOMAIN runs'
  PROVE  /\ r \in page' => r \in page \/ runs'[r].status = "dispatched"
         /\ Collecting(r)' => Collecting(r) \/ runs'[r].status = "completed"
         /\ torn \subseteq torn'
<1>0. runs[r] \in RunRec
  BY DEF Sound, Typed, StoreOK
<1>1. CASE page' \subseteq page /\ collecting' \subseteq collecting /\ torn' = torn
  BY <1>1 DEF Collecting
<1>2. ASSUME NEW s \in RunId, NEW status, NEW by, Mark(s, status, by),
             page' \subseteq page, torn' = torn
      PROVE  /\ r \in page' => r \in page
             /\ Collecting(r)' => Collecting(r) \/ runs'[r].status = "completed"
             /\ torn \subseteq torn'
  <2>1. /\ s = r => runs'[r].status = status
        /\ \A c \in collecting' : c \in collecting \/ (c.run = s /\ status = "completed")
    BY <1>0, <1>2 DEF Mark, RunRec
  <2>2. ASSUME Collecting(r)', ~ Collecting(r)
        PROVE  runs'[r].status = "completed"
    <3>1. PICK c \in collecting' : c.run = r
      BY <2>2 DEF Collecting
    <3>2. c \notin collecting
      BY <2>2, <3>1 DEF Collecting
    <3> QED
      BY <2>1, <3>1, <3>2
  <2>3. (r \in page' => r \in page) /\ torn \subseteq torn'
    BY <1>2
  <2> QED
    BY <2>2, <2>3
<1>3. ASSUME NEW a \in Automation,
             \/ CreateAutomation(a) \/ Reschedule(a) \/ Toggle(a) \/ DeleteAutomation(a)
             \/ RunNow(a) \/ Creates(a) \/ NoOccurrence(a)
      PROVE  page' = page /\ collecting' = collecting /\ torn' = torn
  BY <1>3 DEF CreateAutomation, Reschedule, Toggle, DeleteAutomation, RunNow, Creates,
              NoOccurrence, window, history
<1>4. CASE TickBegins \/ Skips \/ Dispatches \/ Settles
  BY <1>1, <1>4 DEF TickBegins, Skips, Dispatches, Settles, window, history
<1>5. ASSUME NEW s \in RunId, Handles(s) \/ AgentDone(s) \/ AgentExits(s) \/ PageCompletes(s)
      PROVE  /\ page' \subseteq page /\ torn' = torn
             /\ collecting' = collecting \/ \E status, by : Mark(s, status, by)
  <2>1. CASE \/ Refuses(s) \/ Throws(s) \/ Passes(s) \/ LaunchFails(s) \/ Launches(s)
             \/ MarkDispatched(s) \/ PageCompletes(s)
    BY <2>1 DEF Refuses, Throws, Passes, LaunchFails, Launches, MarkDispatched, PageCompletes,
                store, history
  <2>2. CASE Replied(s)
    BY <2>2 DEF Replied, history
  <2>3. ASSUME NEW status, Hears(s, status)
        PROVE  collecting' = collecting \/ Mark(s, status, "handler")
    BY <2>3 DEF Hears
  <2>4. CASE AgentDone(s) \/ AgentExits(s)
    BY <2>3, <2>4 DEF AgentDone, AgentExits, history
  <2> QED
    BY <1>5, <2>1, <2>2, <2>4 DEF Handles
<1>6. ASSUME NEW s \in RunId, Handles(s) \/ AgentDone(s) \/ AgentExits(s) \/ PageCompletes(s)
      PROVE  /\ r \in page' => r \in page
             /\ Collecting(r)' => Collecting(r) \/ runs'[r].status = "completed"
             /\ torn \subseteq torn'
  BY <1>1, <1>2, <1>5, <1>6
<1>7. ASSUME NEW c \in collecting, Collected(c)
      PROVE  page' = page /\ collecting' \subseteq collecting /\ torn' = torn
  BY <1>7 DEF Collected, window, history
<1>8. CASE PageReads
  BY <1>8 DEF PageReads, Collecting, store, history
<1>9. CASE Mounts \/ Reloads \/ WindowCloses \/ WindowOpens \/ AppStarts \/ Clock \/ UNCHANGED vars
  BY <1>1, <1>9 DEF Mounts, Reloads, WindowCloses, WindowOpens, AppStarts, Clock, vars, window,
                    history, RendererGone
<1>10. CASE AppEnds
  BY <1>10 DEF AppEnds, RendererGone, Collecting
<1> QED
  BY <1>1, <1>3, <1>4, <1>6, <1>7, <1>8, <1>9, <1>10 DEF Next, TickStep

\* The tick takes up a run by Creates alone.
LEMMA CreatedBy ==
  ASSUME Sound, [Next]_vars, tick'.pc = "created"
  PROVE  UNCHANGED vars \/ \E a \in Automation : Creates(a)
<1>1. tick' # Idle
  BY DEF Idle
<1>2. CASE TickBegins \/ Settles
  BY <1>2 DEF TickBegins, Settles, Remaining, Idle
<1>3. ASSUME NEW a \in Automation, NoOccurrence(a)
      PROVE  FALSE
  BY <1>3 DEF NoOccurrence, Remaining, Idle
<1>4. CASE Skips \/ Dispatches
  <2>1. tick.pc = "created" /\ tick' = [tick EXCEPT !.pc = "settled"]
    BY <1>4 DEF Skips, Dispatches
  <2>2. tick = [pc |-> tick.pc, todo |-> tick.todo, now |-> now, auto |-> tick.auto,
                run |-> tick.run, at |-> tick.at]
    BY <2>1, TickIs DEF Sound
  <2> QED
    BY <2>1, <2>2
<1> QED
  BY <1>1, <1>2, <1>3, <1>4, TickWaits DEF Sound, TickStep

\* A run in the tick stays in it until it is handled or cut short.
LEMMA AtRunStays ==
  ASSUME Sound, [Next]_vars, NEW r \in RunId, AtRun(r)
  PROVE  AtRun(r)' \/ Handled(r)' \/ r \in torn'
<1>1. Skips \/ Dispatches \/ Settles \/ AppEnds \/ UNCHANGED vars
  BY TickNext DEF AtRun
<1>2. CASE Skips \/ Dispatches
  <2>1. tick' = [tick EXCEPT !.pc = "settled"]
    BY <1>2 DEF Skips, Dispatches
  <2>2. tick = [pc |-> tick.pc, todo |-> tick.todo, now |-> now, auto |-> tick.auto,
                run |-> tick.run, at |-> tick.at]
    BY TickIs DEF Sound, AtRun
  <2>3. tick'.pc = "settled" /\ tick'.run = r
    BY <2>1, <2>2 DEF AtRun
  <2> QED
    BY <2>3 DEF AtRun
<1>3. CASE Settles
  BY <1>3, SettlesHandles DEF AtRun
<1>4. CASE AppEnds
  BY <1>4 DEF AppEnds, AtRun
<1>5. CASE UNCHANGED vars
  BY <1>5 DEF vars, AtRun
<1> QED
  BY <1>1, <1>2, <1>3, <1>4, <1>5

\* An occurrence with a run is evaluated again only if that run is cut short or
\* superseded.
LEMMA AgainOnlyIf ==
  ASSUME Sound, NEW r \in DOMAIN runs, FinalAt(r), r \notin torn, ~Superseded(r),
         NEW a \in Automation, Creates(a)
  PROVE  tick'.run # r
<1> SUFFICES ASSUME tick'.run = r
             PROVE  FALSE
  OBVIOUS
<1>1. PICK at \in Latest(autos[a]) :
        tick' = [pc |-> "created", todo |-> tick.todo \ {a}, now |-> tick.now, auto |-> a,
                 run |-> RunFor(a, at), at |-> at]
  BY DEF Creates
<1>2. r = RunFor(a, at)
  BY <1>1
<1>3. r # made + 1
  BY RowType
<1>4. r \in Existing(a, at)
  BY <1>2, <1>3 DEF RunFor
<1>5. runs[r].auto = a /\ runs[r].scheduledFor = at
  BY <1>4 DEF Existing
<1>6. tick.pc = "loop" /\ Due(a)
  BY TickFields DEF Creates, Sound, Typed
<1>7. ~Handled(r) /\ runs[r].scheduledFor # Manual
  BY <1>1, <1>5, <1>6, DueIsNew
<1>8. ~AtRun(r)
  BY <1>6 DEF AtRun
<1> QED
  BY <1>7, <1>8 DEF FinalAt

LEMMA FinalOfOld ==
  ASSUME Sound, Finals, [Next]_vars, NEW r \in DOMAIN runs, r \in DOMAIN runs'
  PROVE  FinalAt(r)'
<1> SUFFICES ASSUME r \notin torn', ~Superseded(r)'
             PROVE  /\ Handled(r)' \/ runs'[r].scheduledFor = Manual \/ AtRun(r)'
                    /\ tick'.pc = "created" /\ tick'.run = r => runs'[r].status = "pending"
                    /\ Starting(r)' => runs'[r].status = "dispatching"
                    /\ r \in page' => runs'[r].status \notin {"pending", "dispatching"}
                    /\ Collecting(r)' => runs'[r].status \in FinalStatus
  BY DEF FinalAt
<1>0. r \in RunId
  BY RowType
<1>1. /\ ~Superseded(r) /\ runs'[r].scheduledFor = runs[r].scheduledFor
      /\ Handled(r) => Handled(r)' \/ runs'[r].scheduledFor = Manual
  BY HandledStays, StoreStepIs DEF Sound
<1>2. /\ r \in page' => r \in page \/ runs'[r].status = "dispatched"
      /\ Collecting(r)' => Collecting(r) \/ runs'[r].status = "completed"
      /\ r \notin torn
  BY MarksStep
<1>3. /\ Handled(r) \/ runs[r].scheduledFor = Manual \/ AtRun(r)
      /\ tick.pc = "created" /\ tick.run = r => runs[r].status = "pending"
      /\ Starting(r) => runs[r].status = "dispatching"
      /\ r \in page => runs[r].status \notin {"pending", "dispatching"}
      /\ Collecting(r) => runs[r].status \in FinalStatus
      /\ FinalAt(r)
  BY <1>1, <1>2 DEF Finals, FinalAt
<1>4. Outcome(r)
  BY OutcomeIs
<1>5. /\ "completed" \in FinalStatus
      /\ {"pending", "dispatching", "dispatched"} \cap FinalStatus = {}
  BY DEF FinalStatus
<1>6. Handled(r)' \/ runs'[r].scheduledFor = Manual \/ AtRun(r)'
  BY <1>0, <1>1, <1>3, AtRunStays
<1>7. ASSUME tick'.pc = "created", tick'.run = r
      PROVE  runs'[r].status = "pending"
  <2>1. ASSUME NEW a \in Automation, Creates(a)
        PROVE  FALSE
    BY <1>1, <1>2, <1>3, <1>7, <2>1, AgainOnlyIf
  <2>2. UNCHANGED vars
    BY <1>7, <2>1, CreatedBy
  <2> QED
    BY <1>3, <1>7, <2>2 DEF vars
<1>8. Starting(r)' => runs'[r].status = "dispatching"
  BY <1>3, <1>4, <1>5 DEF Outcome, Starting
<1>9. r \in page' => runs'[r].status \notin {"pending", "dispatching"}
  BY <1>2, <1>3, <1>4, <1>5 DEF Outcome
<1>10. Collecting(r)' => runs'[r].status \in FinalStatus
  BY <1>2, <1>3, <1>4, <1>5 DEF Outcome, Starting
<1> QED
  BY <1>6, <1>7, <1>8, <1>9, <1>10

LEMMA FinalOfNew ==
  ASSUME Sound, [Next]_vars, NEW r \in DOMAIN runs', r \notin DOMAIN runs
  PROVE  FinalAt(r)'
<1>1. /\ r = made + 1 /\ made' # made /\ r \in RunId
      /\ disp[r] = "none"
  BY NewIsFresh
<1>2. /\ disp \in [RunId -> {"none", "asked", "launching", "launched", "replying", "watching"}]
      /\ made \in Nat /\ page \subseteq 1 .. made
      /\ collecting \subseteq [run : 1 .. made, by : {"handler", "page"}]
  BY RowType DEF Sound, Typed, HandlersOK, MarksOK
<1>3. r \notin page /\ ~Collecting(r)
  BY <1>1, <1>2 DEF Collecting
<1>4. ASSUME NEW a \in Automation, Creates(a)
      PROVE  FinalAt(r)'
  <2>1. PICK at \in Latest(autos[a]) :
          /\ CreateRun(a, at)
          /\ tick' = [pc |-> "created", todo |-> tick.todo \ {a}, now |-> tick.now, auto |-> a,
                      run |-> RunFor(a, at), at |-> at]
    BY <1>4 DEF Creates
  <2>2. Existing(a, at) = {} /\ runs' = WithRun(NewRun(a, at))
    BY <1>1, <2>1 DEF CreateRun
  <2>3. tick'.run = r /\ tick'.pc = "created"
    BY <1>1, <2>1, <2>2 DEF RunFor
  <2>4. runs'[r].status = "pending"
    BY <1>1, <2>2 DEF WithRun, NewRun
  <2>5. disp' = disp /\ page' = page /\ collecting' = collecting
    BY <1>4 DEF Creates, window
  <2>6. AtRun(r)' /\ ~Starting(r)' /\ r \notin page' /\ ~Collecting(r)'
    BY <1>1, <1>3, <2>3, <2>5 DEF AtRun, Starting, Collecting
  <2> QED
    BY <2>4, <2>6 DEF FinalAt
<1>5. ASSUME NEW a \in Automation, RunNow(a)
      PROVE  FinalAt(r)'
  <2>1. /\ tick' = Idle /\ page' = page /\ collecting' = collecting
        /\ Request(WithRun(NewRun(a, Manual)), made + 1)
    BY <1>5 DEF RunNow
  <2>2. PICK status : /\ runs' = [WithRun(NewRun(a, Manual)) EXCEPT ![made + 1].status = status]
                      /\ status = "dispatching" \/ disp' = disp
    BY <2>1 DEF Request
  <2>3. WithRun(NewRun(a, Manual))[r] = NewRun(a, Manual) /\ r \in DOMAIN WithRun(NewRun(a, Manual))
    BY <1>1 DEF WithRun
  <2>4. runs'[r] = [NewRun(a, Manual) EXCEPT !.status = status]
    BY <1>1, <2>2, <2>3
  <2>5. runs'[r].status = status /\ runs'[r].scheduledFor = Manual
    BY <2>4 DEF NewRun
  <2>6. tick'.pc # "created" /\ r \notin page' /\ ~Collecting(r)'
    BY <1>3, <2>1 DEF Idle, Collecting
  <2>7. Starting(r)' => runs'[r].status = "dispatching"
    BY <1>1, <2>2, <2>5 DEF Starting
  <2> QED
    BY <2>5, <2>6, <2>7 DEF FinalAt
<1> QED
  BY <1>1, <1>4, <1>5, MadeBy

LEMMA InitFinals == Init => Finals
<1> SUFFICES ASSUME Init
             PROVE  Finals
  OBVIOUS
<1>1. DOMAIN runs = {}
  BY DEF Init
<1> QED
  BY <1>1 DEF Finals

\* Whatever the handler of a run and the open page report, in whatever order, a
\* final status gives way to no status that is not final, unless the tick of the
\* run was cut short or its schedule edited after its occurrence.
THEOREM FinalForGood == FairSpec => FinalStands
<1> DEFINE Stands == \A r \in DOMAIN runs \cap DOMAIN runs' :
                       /\ runs[r].status \in FinalStatus
                       /\ runs'[r].status \notin FinalStatus
                       => r \in torn \/ Superseded(r)
<1>1. Init => Sound /\ Finals
  BY InitSound, InitFinals
<1>2. Sound /\ Finals /\ [Next]_vars => (Sound /\ Finals)'
  <2> SUFFICES ASSUME Sound, Finals, [Next]_vars
               PROVE  Sound' /\ Finals'
    OBVIOUS
  <2>1. Sound'
    BY SoundStep
  <2>2. ASSUME NEW r \in DOMAIN runs'
        PROVE  FinalAt(r)'
    BY <2>2, FinalOfOld, FinalOfNew
  <2> QED
    BY <2>1, <2>2 DEF Finals
<1>3. Sound /\ Finals /\ [Next]_vars => Stands
  <2> SUFFICES ASSUME Sound, Finals, [Next]_vars,
                      NEW r \in DOMAIN runs \cap DOMAIN runs',
                      runs[r].status \in FinalStatus, r \notin torn, ~Superseded(r)
               PROVE  runs'[r].status \in FinalStatus
    OBVIOUS
  <2>1. /\ tick.pc = "created" /\ tick.run = r => runs[r].status = "pending"
        /\ Starting(r) => runs[r].status = "dispatching"
    BY DEF Finals, FinalAt
  <2>2. {"pending", "dispatching"} \cap FinalStatus = {}
    BY DEF FinalStatus
  <2>3. Outcome(r)
    BY OutcomeIs
  <2> QED
    BY <2>1, <2>2, <2>3 DEF Outcome, Starting
<1> QED
  BY <1>1, <1>2, <1>3, PTL DEF FairSpec, FinalStands

=============================================================================
