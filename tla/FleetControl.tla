---------------------------- MODULE FleetControl ----------------------------
(***************************************************************************)
(* The kill switch and the circuit breaker: fleet_config and the commands  *)
(* of POST /fleet-config (platform/policy.py), enforce_autonomy in front   *)
(* of every tool, and the daily spend ledger that trips the switch         *)
(* (platform/spend.py, _run in agents/orchestrator.py).                    *)
(*                                                                         *)
(* A task is a request to /fleet-config or one agent run, on the event     *)
(* loop of its instance.  fleet_config and spend_ledger are documents of   *)
(* the shared store, always read and written whole.  A step is one store   *)
(* operation or one resumption of a coroutine; while a task is at a        *)
(* control point of Busy, no other task of its instance moves.  The        *)
(* fleet_config document exists from the start: the first get writes it.   *)
(***************************************************************************)
EXTENDS Naturals, Sequences

CONSTANTS
    Agents, Ceiling,         \* Ceiling[a]: the registered autonomy ceiling of agent a
    Cap,                     \* max_daily_token_spend
    Costs,                   \* what the model calls of a run can cost; 0 for no tokens
    Tasks, Instances, Home,  \* Home[p]: the instance that runs task p
    MaxSpend,                \* bound: no run is recorded that takes a day beyond it
    MaxDays,                 \* bound: the last day
    MaxCrashes,              \* bound: how often an instance is killed
    None                     \* an absent field of a request

Levels == 0 .. 3

AskedLevels == 0 .. 4  \* a request may name a level off the ladder

ASSUME FleetAssumption ==
    /\ Ceiling \in [Agents -> Levels]
    /\ Cap \in Nat /\ Costs \subseteq Nat
    /\ Home \in [Tasks -> Instances]
    /\ MaxSpend \in Nat /\ MaxDays \in Nat \ {0} /\ MaxCrashes \in Nat
    /\ None \notin AskedLevels /\ None \notin Agents

VARIABLES
    config,    \* fleet_config: the dial and the paused agents
    spend,     \* spend_ledger: the cost of each day
    today,     \* the date
    task,      \* task[p]: control point and local variables of task p
    crashes,   \* number of crashes so far
    recorded   \* history: the cost handed to the ledger for each day

vars == <<config, spend, today, task, crashes, recorded>>

Days == 1 .. MaxDays

Config == [level : Levels, paused : SUBSET Agents]

Default == [level |-> 3, paused |-> {}]

Command == [op : {"set"}, level : Levels] \cup [op : {"pause", "resume"}, agent : Agents]

Busy == {"look", "load", "store", "acting", "saving", "checking", "comparing"}

(* todo: the commands left; base: the config last read; list: the paused   *)
(* agents to write; agent, level: what a tool asks for; cost, spent, day:  *)
(* of a run that is being recorded.                                        *)
Local == [pc : Busy \cup {"idle", "running"}, todo : Seq(Command), base : Config,
          list : SUBSET Agents, agent : Agents \cup {None}, level : Levels,
          cost : Nat, spent : Nat, day : Days]

Idle == [pc |-> "idle", todo |-> << >>, base |-> Default, list |-> {}, agent |-> None,
         level |-> 0, cost |-> 0, spent |-> 0, day |-> 1]

(* Mutant: the handlers are plain functions, which FastAPI runs in threads. *)
ThreadPool(p) == TRUE

LoopFree(p) ==
    \A q \in Tasks \ {p} : Home[q] = Home[p] => task[q].pc \notin Busy

Become(p, local) == task' = [task EXCEPT ![p] = local]
End(p) == Become(p, Idle)

Init ==
    /\ config = Default
    /\ spend = [d \in Days |-> 0]
    /\ today = 1
    /\ task = [p \in Tasks |-> Idle]
    /\ crashes = 0
    /\ recorded = [d \in Days |-> 0]

-----------------------------------------------------------------------------
(* A "set" goes straight to FleetConfigRepo.update; pause_agent and          *)
(* resume_agent read the config themselves first, and update reads it again. *)
Begin(cmds) ==
    IF cmds = << >> THEN Idle
    ELSE [Idle EXCEPT !.pc = IF Head(cmds).op = "set" THEN "load" ELSE "look",
                      !.todo = cmds]

(* The commands of a request with level l and the agents a and b to pause *)
(* and to resume, each of which may be absent, in the handler's order.    *)
Commands(l, a, b) ==
    (IF l = None THEN << >> ELSE << [op |-> "set", level |-> l] >>)
    \o (IF a = None THEN << >> ELSE << [op |-> "pause", agent |-> a] >>)
    \o (IF b = None THEN << >> ELSE << [op |-> "resume", agent |-> b] >>)

(* Mutant: whatever level a request names is accepted. *)
AnyLevel(l) == TRUE

ValidLevel(l) == l \in Levels

(* update_fleet_config; a level off the ladder is a ValueError, before the *)
(* rest of the request is looked at.                                       *)
Request(p, l, a, b) ==
    /\ task[p].pc = "idle" /\ LoopFree(p)
    /\ l # None => ValidLevel(l)
    /\ Commands(l, a, b) # << >>
    /\ Become(p, Begin(Commands(l, a, b)))
    /\ UNCHANGED <<config, spend, today, crashes, recorded>>

(* Mutant: the agents paused before are dropped from the list. *)
LookPauseReplaces(p) ==
    LET a == Head(task[p].todo).agent IN
    /\ task[p].pc = "look" /\ Head(task[p].todo).op = "pause"
    /\ IF a \in config.paused
       THEN Become(p, Begin(Tail(task[p].todo)))
       ELSE Become(p, [task[p] EXCEPT !.pc = "load", !.list = {a}])
    /\ UNCHANGED <<config, spend, today, crashes, recorded>>

(* pause_agent writes nothing if the agent is paused already. *)
LookPause(p) ==
    LET a == Head(task[p].todo).agent IN
    /\ task[p].pc = "look" /\ Head(task[p].todo).op = "pause"
    /\ IF a \in config.paused
       THEN Become(p, Begin(Tail(task[p].todo)))
       ELSE Become(p, [task[p] EXCEPT !.pc = "load", !.list = config.paused \cup {a}])
    /\ UNCHANGED <<config, spend, today, crashes, recorded>>

LookResume(p) ==
    /\ task[p].pc = "look" /\ Head(task[p].todo).op = "resume"
    /\ Become(p, [task[p] EXCEPT !.pc = "load",
                                 !.list = config.paused \ {Head(task[p].todo).agent}])
    /\ UNCHANGED <<config, spend, today, crashes, recorded>>

(* FleetConfigRepo.update: the whole document is read ... *)
Load(p) ==
    /\ task[p].pc = "load"
    /\ Become(p, [task[p] EXCEPT !.pc = "store", !.base = config])
    /\ UNCHANGED <<config, spend, today, crashes, recorded>>

(* Mutant: update writes the patch over the defaults. *)
PatchedOverDefault(p) ==
    LET cmd == Head(task[p].todo) IN
    IF cmd.op = "set" THEN [Default EXCEPT !.level = cmd.level]
    ELSE [Default EXCEPT !.paused = task[p].list]

Patched(p) ==
    LET cmd == Head(task[p].todo) IN
    IF cmd.op = "set" THEN [task[p].base EXCEPT !.level = cmd.level]
    ELSE [task[p].base EXCEPT !.paused = task[p].list]

(* ... and the whole document is written, with the patch in it. *)
Store(p) ==
    /\ task[p].pc = "store"
    /\ config' = Patched(p)
    /\ Become(p, Begin(Tail(task[p].todo)))
    /\ UNCHANGED <<spend, today, crashes, recorded>>

-----------------------------------------------------------------------------
StartRun(p) ==
    /\ task[p].pc = "idle" /\ LoopFree(p)
    /\ Become(p, [Idle EXCEPT !.pc = "running"])
    /\ UNCHANGED <<config, spend, today, crashes, recorded>>

(* Mutant: the pause list is not looked at. *)
PermittedUnlessKilled(a, l) == l <= Ceiling[a] /\ l <= config.level

(* enforce_autonomy *)
Permitted(a, l) ==
    /\ l <= Ceiling[a]
    /\ a \notin config.paused
    /\ l <= config.level

(* A tool asks before it writes; it writes before it awaits anything. *)
CallTool(p, a, l) ==
    /\ task[p].pc = "running" /\ LoopFree(p)
    /\ Permitted(a, l)
    /\ Become(p, [task[p] EXCEPT !.pc = "acting", !.agent = a, !.level = l])
    /\ UNCHANGED <<config, spend, today, crashes, recorded>>

ToolWrites(p) ==
    /\ task[p].pc = "acting"
    /\ Become(p, [Idle EXCEPT !.pc = "running"])
    /\ UNCHANGED <<config, spend, today, crashes, recorded>>

(* AutonomyBlocked leaves the tool and the run, and so does any other      *)
(* exception of the run: whatever it cost, _run does not get to record it. *)
ToolBlocked(p, a, l) ==
    /\ task[p].pc = "running" /\ LoopFree(p)
    /\ ~Permitted(a, l)
    /\ End(p)
    /\ UNCHANGED <<config, spend, today, crashes, recorded>>

RunRaises(p) ==
    /\ task[p].pc = "running" /\ LoopFree(p)
    /\ End(p)
    /\ UNCHANGED <<config, spend, today, crashes, recorded>>

RunEndsFree(p) ==
    /\ task[p].pc = "running" /\ LoopFree(p)
    /\ 0 \in Costs
    /\ End(p)
    /\ UNCHANGED <<config, spend, today, crashes, recorded>>

(* The run is over: SpendLedger.record takes the date and reads its entry ... *)
RunEnds(p, cost) ==
    /\ task[p].pc = "running" /\ LoopFree(p)
    /\ cost > 0
    /\ spend[today] + cost <= MaxSpend
    /\ Become(p, [Idle EXCEPT !.pc = "saving", !.cost = cost, !.day = today,
                              !.spent = spend[today]])
    /\ UNCHANGED <<config, spend, today, crashes, recorded>>

(* ... and writes the sum. *)
SaveSpend(p) ==
    LET t == task[p] IN
    /\ t.pc = "saving"
    /\ spend' = [spend EXCEPT ![t.day] = t.spent + t.cost]
    /\ recorded' = [recorded EXCEPT ![t.day] = @ + t.cost]
    /\ Become(p, [t EXCEPT !.pc = "checking"])
    /\ UNCHANGED <<config, today, crashes>>

(* check_circuit_breaker reads the config ... *)
CheckConfig(p) ==
    /\ task[p].pc = "checking"
    /\ Become(p, [task[p] EXCEPT !.pc = "comparing", !.base = config])
    /\ UNCHANGED <<config, spend, today, crashes, recorded>>

(* Mutant: the breaker trips beyond the cap, not at it. *)
BreachedBeyond(p) == spend[today] > Cap

Breached(p) == spend[today] >= Cap

(* Mutant: the breach is logged, and the switch left where it is. *)
CompareUnheeded(p) ==
    /\ task[p].pc = "comparing"
    /\ End(p)
    /\ UNCHANGED <<config, spend, today, crashes, recorded>>

(* ... and today's spend: at the cap, unless the dial stood at 0, it goes on *)
(* to set_global_autonomy(0), the code of the manual switch.                 *)
Compare(p) ==
    /\ task[p].pc = "comparing"
    /\ IF Breached(p) /\ task[p].base.level # 0
       THEN Become(p, Begin(Commands(0, None, None)))
       ELSE End(p)
    /\ UNCHANGED <<config, spend, today, crashes, recorded>>

-----------------------------------------------------------------------------
Midnight ==
    /\ today < MaxDays
    /\ today' = today + 1
    /\ UNCHANGED <<config, spend, task, crashes, recorded>>

(* The platform kills an instance; its tasks are gone, the store stays. *)
Crash(i) ==
    /\ crashes < MaxCrashes
    /\ crashes' = crashes + 1
    /\ task' = [p \in Tasks |-> IF Home[p] = i THEN Idle ELSE task[p]]
    /\ UNCHANGED <<config, spend, today, recorded>>

(* What runs on to its end without an await. *)
Continue(p) ==
    \/ LookPause(p) \/ LookResume(p) \/ Load(p) \/ Store(p)
    \/ ToolWrites(p) \/ SaveSpend(p) \/ CheckConfig(p) \/ Compare(p)

Next ==
    \/ \E p \in Tasks :
        \/ \E l \in AskedLevels \cup {None}, a, b \in Agents \cup {None} : Request(p, l, a, b)
        \/ \E a \in Agents, l \in Levels \ {0} : CallTool(p, a, l) \/ ToolBlocked(p, a, l)
        \/ \E cost \in Costs : RunEnds(p, cost)
        \/ StartRun(p) \/ RunRaises(p) \/ RunEndsFree(p) \/ Continue(p)
    \/ Midnight
    \/ \E i \in Instances : Crash(i)

(* An event loop finishes the code it is in; no request has to come, no *)
(* model has to answer.                                                 *)
Spec == Init /\ [][Next]_vars /\ \A p \in Tasks : WF_vars(Continue(p))

Switch == INSTANCE FleetSwitch WITH dial <- config.level, held <- config.paused

-----------------------------------------------------------------------------
TypeOK ==
    /\ config \in Config
    /\ spend \in [Days -> Nat]
    /\ today \in Days
    /\ task \in [Tasks -> Local]
    /\ crashes \in 0 .. MaxCrashes
    /\ recorded \in [Days -> Nat]

(* The kill switch and the pause list hold at the moment a tool writes, not *)
(* only when enforce_autonomy looked ("live, without redeploying anything", *)
(* platform/policy.py).                                                     *)
PermittedAtWrite ==
    \A p \in Tasks :
        task[p].pc = "acting" =>
            task[p].level <= config.level /\ task[p].agent \notin config.paused

(* The ledger holds the sum of what the runs recorded: no run's cost is     *)
(* lost when runs end together or the day changes while one is recorded     *)
(* (SpendLedger.record).                                                    *)
NoLostSpend == spend = recorded

(* Once the dial is at 0, by hand or by the breaker, only a command that    *)
(* raises the dial lifts it: no pause, no resume and no run's end does.     *)
KillSwitchSticks ==
    [][config.level = 0 /\ config'.level # 0 =>
        \E p \in Tasks :
            /\ task[p].pc = "store"
            /\ Head(task[p].todo) = [op |-> "set", level |-> config'.level]]_vars

(* The run that reaches the cap does not end before the dial is at 0: when  *)
(* it leaves check_circuit_breaker, the day is below the cap or the fleet   *)
(* is at L0 (_run, "Breach -> all agents drop to L0").                      *)
BreachDropsFleet ==
    [][\A p \in Tasks :
        task[p].pc \in {"comparing", "store"} /\ task[p].todo \in {<< >>, Commands(0, None, None)}
          /\ task'[p].pc = "idle" /\ crashes' = crashes
            => spend[today] < Cap \/ config'.level = 0]_vars

(* A recorded breach always reaches the switch: once a run has added to a   *)
(* day that is at its cap, the dial goes to 0 unless that day ends first or *)
(* the instance dies between the two.                                       *)
BreachTrips ==
    \A d \in Days :
        (\E p \in Tasks : task[p].pc = "checking") /\ today = d /\ spend[d] >= Cap
            ~> config.level = 0 \/ today # d \/ crashes > 0

(* The commands of all tasks together act on the switch one at a time, each *)
(* changing its own part and nothing else.                                  *)
ActsAsSwitch == Switch!Spec
=============================================================================
