------------------------- MODULE FleetControl_proofs --------------------------
(***************************************************************************)
(* What the kill switch, the ledger and the circuit breaker guarantee in   *)
(* one process, for every number of agents, tasks, days and crashes, every *)
(* cap and every cost of a run.                                            *)
(***************************************************************************)
EXTENDS FleetSingle, TLAPS

(* The code between two awaits is entered by one task at a time. *)
OneBusy == \A p, q \in Tasks : task[p].pc \in Busy /\ task[q].pc \in Busy => p = q

(* A task that has a command to carry out holds it, and what it has read of *)
(* the config for it is what is there.                                      *)
Listed(p) ==
    LET t == task[p] cmd == Head(t.todo) IN
    t.pc \in {"load", "store"} =>
        /\ cmd.op = "pause" => t.list = config.paused \cup {cmd.agent}
        /\ cmd.op = "resume" => t.list = config.paused \ {cmd.agent}

(* What a task has read, and is going to use, is what the store holds. *)
Steady(p) ==
    LET t == task[p] IN
    /\ t.pc \in {"look", "load", "store"} => t.todo # << >>
    /\ Listed(p)
    /\ t.pc \in {"store", "comparing"} => t.base = config
    /\ t.pc = "acting" => t.level <= config.level /\ t.agent \notin config.paused
    /\ t.pc = "saving" => t.spent = spend[t.day]

FleetInv ==
    /\ TypeOK
    /\ OneBusy
    /\ \A p \in Tasks : Steady(p)
    /\ NoLostSpend

-----------------------------------------------------------------------------
(* One command is a list of commands. *)
LEMMA OneCommand == \A cmd \in Command : << cmd >> \in Seq(Command)
OBVIOUS

(* A request's commands, level off the ladder excluded, are commands. *)
LEMMA CommandsType ==
    ASSUME NEW l \in Levels \cup {None}, NEW a \in Agents \cup {None},
           NEW b \in Agents \cup {None}
    PROVE  Commands(l, a, b) \in Seq(Command)
<1> DEFINE set == IF l = None THEN << >> ELSE << [op |-> "set", level |-> l] >>
           pause == IF a = None THEN << >> ELSE << [op |-> "pause", agent |-> a] >>
           resume == IF b = None THEN << >> ELSE << [op |-> "resume", agent |-> b] >>
<1>1. set \in Seq(Command)
  <2>1. l # None => [op |-> "set", level |-> l] \in Command
    BY DEF Command
  <2> QED
    BY <2>1, OneCommand
<1>2. pause \in Seq(Command)
  <2>1. a # None => [op |-> "pause", agent |-> a] \in Command
    BY DEF Command
  <2> QED
    BY <2>1, OneCommand
<1>3. resume \in Seq(Command)
  <2>1. b # None => [op |-> "resume", agent |-> b] \in Command
    BY DEF Command
  <2> QED
    BY <2>1, OneCommand
<1> HIDE DEF set, pause, resume
<1>4. (set \o pause) \o resume \in Seq(Command)
  BY <1>1, <1>2, <1>3
<1> QED
  BY <1>4 DEF Commands, set, pause, resume

(* The breaker's only command is to set the dial to 0. *)
LEMMA BreakerCommands ==
    Commands(0, None, None) = << [op |-> "set", level |-> 0] >>
<1>1. 0 # None
  BY FleetAssumption DEF AskedLevels
<1>2. Commands(0, None, None) = (<< [op |-> "set", level |-> 0] >> \o << >>) \o << >>
  BY <1>1 DEF Commands
<1> QED
  BY <1>2

(* A task without work is a local state. *)
LEMMA IdleType == Idle \in Local /\ Idle.pc = "idle"
<1>1. 1 \in Days
  BY FleetAssumption DEF Days
<1>2. << >> \in Seq(Command)
  OBVIOUS
<1> QED
  BY <1>1, <1>2 DEF Idle, Local, Busy, Default, Config, Levels

(* A task that goes on to its commands holds the first of them. *)
LEMMA BeginType ==
    ASSUME NEW cmds \in Seq(Command)
    PROVE  /\ Begin(cmds) \in Local
           /\ Begin(cmds).pc \in {"idle", "look", "load"}
           /\ Begin(cmds).pc \in {"look", "load"} => cmds # << >> /\ Begin(cmds).todo = cmds
           /\ Begin(cmds).pc = "load" => Head(cmds).op = "set"
<1>1. CASE cmds = << >>
  BY <1>1, IdleType DEF Begin
<1>2. CASE cmds # << >>
  BY <1>2, IdleType DEF Begin, Local, Busy, Idle
<1> QED
  BY <1>1, <1>2

(* The step of a task is about that task only. *)
LEMMA BecomeType ==
    ASSUME TypeOK, NEW p \in Tasks, NEW local \in Local, Become(p, local)
    PROVE  /\ task' \in [Tasks -> Local]
           /\ task'[p] = local
           /\ \A q \in Tasks \ {p} : task'[q] = task[q]
BY DEF TypeOK, Become

(* The command a task is at, and its rest. *)
LEMMA FirstCommand ==
    ASSUME NEW cmds \in Seq(Command), cmds # << >>
    PROVE  /\ Head(cmds) \in Command
           /\ Tail(cmds) \in Seq(Command)
           /\ Head(cmds).op \in {"set", "pause", "resume"}
           /\ Head(cmds).op = "set" => Head(cmds).level \in Levels
                 /\ Head(cmds) = [op |-> "set", level |-> Head(cmds).level]
           /\ Head(cmds).op \in {"pause", "resume"} => Head(cmds).agent \in Agents
<1>1. Head(cmds) \in Command /\ Tail(cmds) \in Seq(Command)
  OBVIOUS
<1> QED
  BY <1>1 DEF Command
-----------------------------------------------------------------------------
(* The invariant holds at the start. *)
LEMMA InvInit == Init => FleetInv
<1> SUFFICES ASSUME Init
             PROVE  FleetInv
  OBVIOUS
<1>1. TypeOK
  BY IdleType, FleetAssumption DEF Init, TypeOK, Default, Config, Levels, Days
<1>2. OneBusy /\ \A p \in Tasks : Steady(p)
  BY DEF Init, OneBusy, Steady, Listed, Busy, Idle
<1> QED
  BY <1>1, <1>2 DEF Init, FleetInv, NoLostSpend

(* Every step keeps the types; that the head of a task's commands is one    *)
(* takes Steady.                                                            *)
LEMMA TypeStep == FleetInv /\ [Next]_vars => TypeOK'
<1> SUFFICES ASSUME FleetInv, [Next]_vars
             PROVE  TypeOK'
  OBVIOUS
<1> TypeOK
  BY DEF FleetInv
<1>1. ASSUME NEW p \in Tasks, NEW local \in Local, Become(p, local),
             UNCHANGED <<config, spend, today, crashes, recorded>>
      PROVE  TypeOK'
  BY <1>1, BecomeType DEF TypeOK
<1>2. \A p \in Tasks : task[p] \in Local
  BY DEF TypeOK
<1>3. ASSUME NEW p \in Tasks, task[p].pc \in {"look", "load", "store"}
      PROVE  task[p].todo \in Seq(Command) /\ task[p].todo # << >>
  BY <1>2, <1>3 DEF FleetInv, Steady, Local
<1>4. ASSUME NEW p \in Tasks,
             NEW l \in AskedLevels \cup {None}, NEW a \in Agents \cup {None},
             NEW b \in Agents \cup {None}, Request(p, l, a, b)
      PROVE  TypeOK'
  <2>1. Commands(l, a, b) \in Seq(Command)
    BY <1>4, CommandsType DEF Request, ValidLevel
  <2>2. Begin(Commands(l, a, b)) \in Local
    BY <2>1, BeginType
  <2> QED
    BY <1>1, <1>4, <2>2 DEF Request
<1>5. ASSUME NEW p \in Tasks, NEW a \in Agents, NEW l \in Levels \ {0}, CallTool(p, a, l)
      PROVE  TypeOK'
  <2>1. [task[p] EXCEPT !.pc = "acting", !.agent = a, !.level = l] \in Local
    BY <1>2 DEF Local, Busy
  <2> QED
    BY <1>1, <1>5, <2>1 DEF CallTool
<1>6. ASSUME NEW p \in Tasks, NEW a \in Agents, NEW l \in Levels \ {0}, ToolBlocked(p, a, l)
      PROVE  TypeOK'
  BY <1>1, <1>6, IdleType DEF ToolBlocked, End
<1>7. ASSUME NEW p \in Tasks, NEW cost \in Costs, RunEnds(p, cost)
      PROVE  TypeOK'
  <2>1. cost \in Nat /\ spend[today] \in Nat /\ today \in Days
    BY FleetAssumption DEF TypeOK
  <2>2. [Idle EXCEPT !.pc = "saving", !.cost = cost, !.day = today, !.spent = spend[today]]
          \in Local
    BY <2>1, IdleType DEF Local, Busy
  <2> QED
    BY <1>1, <1>7, <2>2 DEF RunEnds
<1>8. ASSUME NEW p \in Tasks, StartRun(p) \/ ToolWrites(p)
      PROVE  TypeOK'
  <2>1. [Idle EXCEPT !.pc = "running"] \in Local
    BY IdleType DEF Local, Busy
  <2> QED
    BY <1>1, <1>8, <2>1 DEF StartRun, ToolWrites
<1>9. ASSUME NEW p \in Tasks, RunRaises(p) \/ RunEndsFree(p)
      PROVE  TypeOK'
  BY <1>1, <1>9, IdleType DEF RunRaises, RunEndsFree, End
<1>10. ASSUME NEW p \in Tasks, LookPause(p)
       PROVE  TypeOK'
  <2> DEFINE a == Head(task[p].todo).agent
  <2>1. task[p].todo \in Seq(Command) /\ task[p].todo # << >>
    BY <1>3, <1>10 DEF LookPause
  <2>2. a \in Agents /\ Begin(Tail(task[p].todo)) \in Local
    BY <1>10, <2>1, FirstCommand, BeginType DEF LookPause
  <2>3. [task[p] EXCEPT !.pc = "load", !.list = config.paused \cup {a}] \in Local
    BY <1>2, <2>2 DEF Local, Busy, TypeOK, Config
  <2> QED
    BY <1>1, <1>10, <2>2, <2>3 DEF LookPause
<1>11. ASSUME NEW p \in Tasks, LookResume(p)
       PROVE  TypeOK'
  <2>1. [task[p] EXCEPT !.pc = "load", !.list = config.paused \ {Head(task[p].todo).agent}]
          \in Local
    BY <1>2 DEF Local, Busy, TypeOK, Config
  <2> QED
    BY <1>1, <1>11, <2>1 DEF LookResume
<1>12. ASSUME NEW p \in Tasks, Load(p)
       PROVE  TypeOK'
  <2>1. [task[p] EXCEPT !.pc = "store", !.base = config] \in Local
    BY <1>2 DEF Local, Busy, TypeOK
  <2> QED
    BY <1>1, <1>12, <2>1 DEF Load
<1>13. ASSUME NEW p \in Tasks, Store(p)
       PROVE  TypeOK'
  <2>1. task[p].todo \in Seq(Command) /\ task[p].todo # << >>
    BY <1>3, <1>13 DEF Store
  <2>2. task'  \in [Tasks -> Local]
    BY <1>13, <2>1, FirstCommand, BeginType, BecomeType DEF Store
  <2>3. task[p].base \in Config /\ task[p].list \in SUBSET Agents
    BY <1>2 DEF Local
  <2>4. Patched(p) \in Config
    BY <2>1, <2>3, FirstCommand DEF Patched, Config
  <2> QED
    BY <1>13, <2>2, <2>4 DEF Store, TypeOK
<1>14. ASSUME NEW p \in Tasks, SaveSpend(p)
       PROVE  TypeOK'
  <2>1. task[p].day \in Days /\ task[p].spent \in Nat /\ task[p].cost \in Nat
    BY <1>2 DEF Local
  <2>2. [task[p] EXCEPT !.pc = "checking"] \in Local
    BY <1>2 DEF Local, Busy
  <2>3. task' \in [Tasks -> Local]
    BY <1>14, <2>2, BecomeType DEF SaveSpend
  <2>4. spend' \in [Days -> Nat] /\ recorded' \in [Days -> Nat]
    BY <1>14, <2>1 DEF SaveSpend, TypeOK
  <2> QED
    BY <1>14, <2>3, <2>4 DEF SaveSpend, TypeOK
<1>15. ASSUME NEW p \in Tasks, CheckConfig(p)
       PROVE  TypeOK'
  <2>1. [task[p] EXCEPT !.pc = "comparing", !.base = config] \in Local
    BY <1>2 DEF Local, Busy, TypeOK
  <2> QED
    BY <1>1, <1>15, <2>1 DEF CheckConfig
<1>16. ASSUME NEW p \in Tasks, Compare(p)
       PROVE  TypeOK'
  <2>1. Commands(0, None, None) \in Seq(Command)
    BY CommandsType DEF Levels
  <2>2. Begin(Commands(0, None, None)) \in Local
    BY <2>1, BeginType
  <2> QED
    BY <1>1, <1>16, <2>2, IdleType DEF Compare, End
<1>17. CASE Midnight
  BY <1>17, FleetAssumption DEF Midnight, TypeOK, Days
<1>18. ASSUME NEW i \in Instances, Crash(i)
       PROVE  TypeOK'
  BY <1>18, IdleType, FleetAssumption DEF Crash, TypeOK
<1>19. CASE UNCHANGED vars
  BY <1>19 DEF vars, TypeOK
<1> QED
  BY <1>4, <1>5, <1>6, <1>7, <1>8, <1>9, <1>10, <1>11, <1>12, <1>13, <1>14, <1>15, <1>16,
     <1>17, <1>18, <1>19 DEF Next, Continue

(* In one process a task moves only when no other is between two awaits. *)
LEMMA Alone ==
    ASSUME OneBusy, NEW p \in Tasks, task[p].pc \in Busy \/ LoopFree(p)
    PROVE  \A q \in Tasks \ {p} : task[q].pc \notin Busy
BY OneInstance DEF OneBusy, LoopFree

(* So what it changes disturbs no other task, and the invariant is about    *)
(* this task only.                                                          *)
LEMMA OneMoves ==
    ASSUME FleetInv, NEW p \in Tasks, task[p].pc \in Busy \/ LoopFree(p),
           \A q \in Tasks \ {p} : task'[q] = task[q], Steady(p)'
    PROVE  OneBusy' /\ \A q \in Tasks : Steady(q)'
<1>1. \A q \in Tasks \ {p} : task'[q].pc \notin Busy
  BY Alone DEF FleetInv
<1>2. OneBusy'
  BY <1>1 DEF OneBusy
<1>3. \A q \in Tasks \ {p} : Steady(q)'
  BY <1>1 DEF Steady, Listed, Busy
<1> QED
  BY <1>2, <1>3

(* Every step keeps the tasks apart, and what they have read up to date. *)
LEMMA SteadyStep ==
    FleetInv /\ [Next]_vars => OneBusy' /\ \A p \in Tasks : Steady(p)'
<1> SUFFICES ASSUME FleetInv, [Next]_vars
             PROVE  OneBusy' /\ \A p \in Tasks : Steady(p)'
  OBVIOUS
<1> TypeOK /\ OneBusy /\ \A p \in Tasks : Steady(p) /\ task[p] \in Local
  BY DEF FleetInv, TypeOK
<1>1. ASSUME NEW p \in Tasks, NEW local \in Local, Become(p, local),
             task[p].pc \in Busy \/ LoopFree(p), Steady(p)'
      PROVE  OneBusy' /\ \A q \in Tasks : Steady(q)'
  <2>1. \A q \in Tasks \ {p} : task'[q] = task[q]
    BY <1>1, BecomeType
  <2> QED
    BY <1>1, <2>1, OneMoves
<1>2. ASSUME NEW p \in Tasks, NEW local \in Local, Become(p, local),
             local.pc \in {"idle", "running", "checking"}
      PROVE  Steady(p)'
  BY <1>2, BecomeType DEF Steady, Listed
<1>3. ASSUME NEW p \in Tasks, NEW cmds \in Seq(Command), Become(p, Begin(cmds))
      PROVE  Steady(p)'
  <2>1. task'[p] = Begin(cmds) /\ Begin(cmds) \in Local
    BY <1>3, BecomeType, BeginType
  <2>2. Listed(p)'
    BY <2>1, BeginType DEF Listed
  <2> QED
    BY <2>1, <2>2, BeginType DEF Steady
<1>4. ASSUME NEW p \in Tasks, task[p].pc \in {"look", "load", "store"}
      PROVE  task[p].todo \in Seq(Command) /\ task[p].todo # << >>
  BY <1>4 DEF Steady, Local
<1>5. ASSUME NEW p \in Tasks,
             NEW l \in AskedLevels \cup {None}, NEW a \in Agents \cup {None},
             NEW b \in Agents \cup {None}, Request(p, l, a, b)
      PROVE  OneBusy' /\ \A q \in Tasks : Steady(q)'
  <2>1. Commands(l, a, b) \in Seq(Command)
    BY <1>5, CommandsType DEF Request, ValidLevel
  <2> QED
    BY <1>1, <1>3, <1>5, <2>1, BeginType DEF Request
<1>6. ASSUME NEW p \in Tasks, NEW a \in Agents, NEW l \in Levels \ {0}, CallTool(p, a, l)
      PROVE  OneBusy' /\ \A q \in Tasks : Steady(q)'
  <2> DEFINE local == [task[p] EXCEPT !.pc = "acting", !.agent = a, !.level = l]
  <2>1. local \in Local /\ local.pc = "acting" /\ local.agent = a /\ local.level = l
    BY DEF Local, Busy
  <2>2. Become(p, local)
    BY <1>6 DEF CallTool
  <2> HIDE DEF local
  <2>3. task'[p] = local
    BY <2>1, <2>2, BecomeType
  <2>4. Steady(p)'
    BY <1>6, <2>1, <2>3 DEF Steady, Listed, CallTool, Permitted
  <2> QED
    BY <1>1, <1>6, <2>1, <2>2, <2>4 DEF CallTool
<1>7. ASSUME NEW p \in Tasks, NEW a \in Agents, NEW l \in Levels \ {0}, ToolBlocked(p, a, l)
      PROVE  OneBusy' /\ \A q \in Tasks : Steady(q)'
  BY <1>1, <1>2, <1>7, IdleType DEF ToolBlocked, End
<1>8. ASSUME NEW p \in Tasks, NEW cost \in Costs, RunEnds(p, cost)
      PROVE  OneBusy' /\ \A q \in Tasks : Steady(q)'
  <2> DEFINE local == [Idle EXCEPT !.pc = "saving", !.cost = cost, !.day = today,
                                   !.spent = spend[today]]
  <2>1. cost \in Nat /\ spend[today] \in Nat /\ today \in Days
    BY FleetAssumption DEF TypeOK
  <2>2. local \in Local /\ local.pc = "saving" /\ local.spent = spend[today]
          /\ local.day = today
    BY <2>1, IdleType DEF Local, Busy
  <2>3. Become(p, local)
    BY <1>8 DEF RunEnds
  <2> HIDE DEF local
  <2>4. task'[p] = local
    BY <2>2, <2>3, BecomeType
  <2>5. Steady(p)'
    BY <1>8, <2>2, <2>4 DEF Steady, Listed, RunEnds
  <2> QED
    BY <1>1, <1>8, <2>2, <2>3, <2>5 DEF RunEnds
<1>9. ASSUME NEW p \in Tasks, StartRun(p) \/ ToolWrites(p)
      PROVE  OneBusy' /\ \A q \in Tasks : Steady(q)'
  <2> DEFINE local == [Idle EXCEPT !.pc = "running"]
  <2>1. local \in Local /\ local.pc = "running"
    BY IdleType DEF Local, Busy
  <2>2. Become(p, local) /\ (task[p].pc \in Busy \/ LoopFree(p))
    BY <1>9 DEF StartRun, ToolWrites, Busy
  <2> HIDE DEF local
  <2> QED
    BY <1>1, <1>2, <2>1, <2>2
<1>10. ASSUME NEW p \in Tasks, RunRaises(p) \/ RunEndsFree(p)
       PROVE  OneBusy' /\ \A q \in Tasks : Steady(q)'
  BY <1>1, <1>2, <1>10, IdleType DEF RunRaises, RunEndsFree, End
<1>11. ASSUME NEW p \in Tasks, LookPause(p)
       PROVE  OneBusy' /\ \A q \in Tasks : Steady(q)'
  <2> DEFINE a == Head(task[p].todo).agent
             local == [task[p] EXCEPT !.pc = "load", !.list = config.paused \cup {a}]
  <2>1. task[p].pc \in Busy /\ Head(task[p].todo).op = "pause"
    BY <1>11 DEF LookPause, Busy
  <2>2. task[p].todo \in Seq(Command) /\ task[p].todo # << >>
    BY <1>4, <1>11 DEF LookPause
  <2>3. CASE Become(p, Begin(Tail(task[p].todo)))
    <3>1. Tail(task[p].todo) \in Seq(Command)
      BY <2>2, FirstCommand
    <3>2. Begin(Tail(task[p].todo)) \in Local
      BY <3>1, BeginType
    <3>3. Steady(p)'
      BY <1>3, <2>3, <3>1
    <3> QED
      BY <1>1, <2>1, <2>3, <3>2, <3>3
  <2>4. CASE Become(p, local)
    <3>1. a \in Agents
      BY <2>1, <2>2, FirstCommand
    <3>2. local \in Local /\ local.pc = "load" /\ local.list = config.paused \cup {a}
            /\ local.todo = task[p].todo
      BY <3>1 DEF Local, Busy, TypeOK, Config
    <3> HIDE DEF local
    <3>3. task'[p] = local
      BY <2>4, <3>2, BecomeType
    <3>4. config' = config
      BY <1>11 DEF LookPause
    <3>5. Steady(p)'
      BY <2>1, <2>2, <3>2, <3>3, <3>4 DEF Steady, Listed
    <3> QED
      BY <1>1, <2>1, <2>4, <3>2, <3>5
  <2> QED
    BY <1>11, <2>3, <2>4 DEF LookPause
<1>12. ASSUME NEW p \in Tasks, LookResume(p)
       PROVE  OneBusy' /\ \A q \in Tasks : Steady(q)'
  <2> DEFINE a == Head(task[p].todo).agent
             local == [task[p] EXCEPT !.pc = "load", !.list = config.paused \ {a}]
  <2>1. task[p].pc \in Busy /\ Head(task[p].todo).op = "resume" /\ Become(p, local)
    BY <1>12 DEF LookResume, Busy
  <2>2. task[p].todo # << >>
    BY <1>4, <1>12 DEF LookResume
  <2>3. local \in Local /\ local.pc = "load" /\ local.list = config.paused \ {a}
          /\ local.todo = task[p].todo
    BY DEF Local, Busy, TypeOK, Config
  <2> HIDE DEF local
  <2>4. task'[p] = local
    BY <2>1, <2>3, BecomeType
  <2>5. config' = config
    BY <1>12 DEF LookResume
  <2>6. Steady(p)'
    BY <2>1, <2>2, <2>3, <2>4, <2>5 DEF Steady, Listed
  <2> QED
    BY <1>1, <2>1, <2>3, <2>6
<1>13. ASSUME NEW p \in Tasks, Load(p)
       PROVE  OneBusy' /\ \A q \in Tasks : Steady(q)'
  <2> DEFINE local == [task[p] EXCEPT !.pc = "store", !.base = config]
  <2>1. task[p].pc = "load" /\ task[p].pc \in Busy /\ Become(p, local) /\ config' = config
    BY <1>13 DEF Load, Busy
  <2>2. local \in Local /\ local.pc = "store" /\ local.base = config
          /\ local.todo = task[p].todo /\ local.list = task[p].list
    BY DEF Local, Busy, TypeOK
  <2> HIDE DEF local
  <2>3. task'[p] = local
    BY <2>1, <2>2, BecomeType
  <2>4. Steady(p)'
    BY <2>1, <2>2, <2>3 DEF Steady, Listed
  <2> QED
    BY <1>1, <2>1, <2>2, <2>4
<1>14. ASSUME NEW p \in Tasks, Store(p)
       PROVE  OneBusy' /\ \A q \in Tasks : Steady(q)'
  <2>1. Tail(task[p].todo) \in Seq(Command)
    BY <1>4, <1>14, FirstCommand DEF Store
  <2>2. Begin(Tail(task[p].todo)) \in Local
    BY <2>1, BeginType
  <2>3. Steady(p)'
    BY <1>3, <1>14, <2>1 DEF Store
  <2> QED
    BY <1>1, <1>14, <2>2, <2>3 DEF Store, Busy
<1>15. ASSUME NEW p \in Tasks, SaveSpend(p)
       PROVE  OneBusy' /\ \A q \in Tasks : Steady(q)'
  <2> DEFINE local == [task[p] EXCEPT !.pc = "checking"]
  <2>1. task[p].pc \in Busy /\ Become(p, local)
    BY <1>15 DEF SaveSpend, Busy
  <2>2. local \in Local /\ local.pc = "checking"
    BY DEF Local, Busy
  <2> HIDE DEF local
  <2> QED
    BY <1>1, <1>2, <2>1, <2>2
<1>16. ASSUME NEW p \in Tasks, CheckConfig(p)
       PROVE  OneBusy' /\ \A q \in Tasks : Steady(q)'
  <2> DEFINE local == [task[p] EXCEPT !.pc = "comparing", !.base = config]
  <2>1. task[p].pc \in Busy /\ Become(p, local) /\ config' = config
    BY <1>16 DEF CheckConfig, Busy
  <2>2. local \in Local /\ local.pc = "comparing" /\ local.base = config
    BY DEF Local, Busy, TypeOK
  <2> HIDE DEF local
  <2>3. task'[p] = local
    BY <2>1, <2>2, BecomeType
  <2>4. Steady(p)'
    BY <2>1, <2>2, <2>3 DEF Steady, Listed
  <2> QED
    BY <1>1, <2>1, <2>2, <2>4
<1>17. ASSUME NEW p \in Tasks, Compare(p)
       PROVE  OneBusy' /\ \A q \in Tasks : Steady(q)'
  <2>1. Commands(0, None, None) \in Seq(Command)
    BY CommandsType DEF Levels
  <2>2. Begin(Commands(0, None, None)) \in Local
    BY <2>1, BeginType
  <2>3. Steady(p)'
    BY <1>2, <1>3, <1>17, <2>1, IdleType DEF Compare, End
  <2> QED
    BY <1>1, <1>17, <2>2, <2>3, IdleType DEF Compare, End, Busy
<1>18. CASE UNCHANGED <<config, spend, task>>
  BY <1>18 DEF Steady, Listed, OneBusy
<1>19. ASSUME NEW i \in Instances, Crash(i)
       PROVE  OneBusy' /\ \A q \in Tasks : Steady(q)'
  <2>1. config' = config /\ spend' = spend
          /\ \A q \in Tasks : task'[q] = task[q] \/ task'[q] = Idle
    BY <1>19 DEF Crash
  <2>2. OneBusy'
    BY <2>1, IdleType DEF OneBusy, Busy
  <2>3. ASSUME NEW q \in Tasks
        PROVE  Steady(q)'
    <3>1. CASE task'[q] = Idle
      BY <3>1, IdleType DEF Steady, Listed
    <3>2. CASE task'[q] = task[q]
      BY <2>1, <3>2 DEF Steady, Listed
    <3> QED
      BY <2>1, <3>1, <3>2
  <2> QED
    BY <2>2, <2>3
<1> QED
  BY <1>5, <1>6, <1>7, <1>8, <1>9, <1>10, <1>11, <1>12, <1>13, <1>14, <1>15, <1>16, <1>17,
     <1>18, <1>19 DEF Next, Continue, Midnight, vars

(* What is read before it is written is what the ledger holds, so the sum   *)
(* is complete.                                                             *)
LEMMA SpendStep == FleetInv /\ [Next]_vars => NoLostSpend'
<1> SUFFICES ASSUME FleetInv, [Next]_vars
             PROVE  NoLostSpend'
  OBVIOUS
<1>1. ASSUME NEW p \in Tasks, SaveSpend(p)
      PROVE  NoLostSpend'
  <2>1. task[p].day \in Days /\ task[p].spent = recorded[task[p].day]
    BY <1>1 DEF FleetInv, TypeOK, Local, Steady, NoLostSpend, SaveSpend
  <2>2. spend' = recorded'
    BY <1>1, <2>1 DEF SaveSpend, FleetInv, NoLostSpend
  <2> QED
    BY <2>2 DEF NoLostSpend
<1>2. CASE UNCHANGED <<spend, recorded>>
  BY <1>2 DEF FleetInv, NoLostSpend
<1> QED
  BY <1>1, <1>2 DEF Next, Continue, Request, CallTool, ToolBlocked, RunEnds, StartRun,
     RunRaises, RunEndsFree, LookPause, LookResume, Load, Store, ToolWrites, CheckConfig,
     Compare, Midnight, Crash, vars

(* Only Store writes the config. *)
LEMMA OnlyStoreWrites ==
    [Next]_vars => config' = config \/ \E p \in Tasks : Store(p)
BY DEF Next, Continue, Request, CallTool, ToolBlocked, RunEnds, StartRun, RunRaises,
       RunEndsFree, LookPause, LookResume, Load, ToolWrites, SaveSpend, CheckConfig,
       Compare, Midnight, Crash, vars

(* Store carries out the command it is at on the config that is there, and  *)
(* nothing else.                                                            *)
LEMMA StoreActs ==
    ASSUME FleetInv, NEW p \in Tasks, Store(p)
    PROVE  LET cmd == Head(task[p].todo) IN
           /\ task[p].pc = "store" /\ task[p].todo # << >>
           /\ cmd \in Command /\ config \in Config /\ config' \in Config
           /\ \/ /\ cmd.op = "set" /\ cmd.level \in Levels
                 /\ config'.level = cmd.level /\ config'.paused = config.paused
                 /\ cmd = [op |-> "set", level |-> config'.level]
              \/ /\ cmd.op = "pause" /\ cmd.agent \in Agents
                 /\ config'.level = config.level
                 /\ config'.paused = config.paused \cup {cmd.agent}
              \/ /\ cmd.op = "resume" /\ cmd.agent \in Agents
                 /\ config'.level = config.level
                 /\ config'.paused = config.paused \ {cmd.agent}
<1> DEFINE cmd == Head(task[p].todo)
<1>1. task[p] \in Local /\ Steady(p) /\ config \in Config
  BY DEF FleetInv, TypeOK
<1>2. task[p].pc = "store" /\ config' = Patched(p)
  BY DEF Store
<1>3. task[p].todo # << >> /\ task[p].base = config /\ Listed(p)
  BY <1>1, <1>2 DEF Steady
<1>4. task[p].todo \in Seq(Command)
  BY <1>1 DEF Local
<1>5. /\ cmd \in Command /\ cmd.op \in {"set", "pause", "resume"}
      /\ cmd.op = "set" => cmd.level \in Levels /\ cmd = [op |-> "set", level |-> cmd.level]
      /\ cmd.op \in {"pause", "resume"} => cmd.agent \in Agents
  BY <1>3, <1>4, FirstCommand
<1>6. config' \in Config
  BY TypeStep DEF Next, Continue, TypeOK
<1>7. CASE cmd.op = "set"
  <2>1. config' = [config EXCEPT !.level = cmd.level]
    BY <1>2, <1>3, <1>7 DEF Patched
  <2>2. config'.level = cmd.level /\ config'.paused = config.paused
    BY <1>1, <2>1 DEF Config
  <2> QED
    BY <1>1, <1>2, <1>3, <1>5, <1>6, <1>7, <2>2
<1>8. CASE cmd.op \in {"pause", "resume"}
  <2>1. config' = [config EXCEPT !.paused = task[p].list]
    BY <1>2, <1>3, <1>8 DEF Patched
  <2>2. config'.level = config.level /\ config'.paused = task[p].list
    BY <1>1, <2>1 DEF Config
  <2> QED
    BY <1>1, <1>2, <1>3, <1>5, <1>6, <1>8, <2>2 DEF Listed
<1> QED
  BY <1>5, <1>7, <1>8

-----------------------------------------------------------------------------
(* The inductive invariant: the argument behind all that follows. *)
THEOREM FleetInvariant == Spec => []FleetInv
<1>1. FleetInv /\ [Next]_vars => FleetInv'
  BY TypeStep, SteadyStep, SpendStep DEF FleetInv
<1> QED
  BY <1>1, InvInit, PTL DEF Spec

(* Type correctness of fleet_config, the ledger and the tasks. *)
THEOREM FleetTypeCorrect == Spec => []TypeOK
<1>1. FleetInv => TypeOK
  BY DEF FleetInv
<1> QED
  BY <1>1, FleetInvariant, PTL

(* What enforce_autonomy allowed is still allowed when the tool writes. *)
THEOREM FleetPermittedAtWrite == Spec => []PermittedAtWrite
<1>1. FleetInv => PermittedAtWrite
  BY DEF FleetInv, Steady, PermittedAtWrite
<1> QED
  BY <1>1, FleetInvariant, PTL

(* The ledger holds what was handed to SpendLedger.record, whatever runs end *)
(* together, at midnight or with a crash.                                   *)
THEOREM FleetNoLostSpend == Spec => []NoLostSpend
<1>1. FleetInv => NoLostSpend
  BY DEF FleetInv
<1> QED
  BY <1>1, FleetInvariant, PTL

(* Only a command that raises the dial lifts a kill. *)
THEOREM FleetKillSticks == Spec => KillSwitchSticks
<1>1. FleetInv /\ [Next]_vars =>
        (config.level = 0 /\ config'.level # 0 =>
            \E p \in Tasks :
                /\ task[p].pc = "store"
                /\ Head(task[p].todo) = [op |-> "set", level |-> config'.level])
  <2> SUFFICES ASSUME FleetInv, [Next]_vars, config.level = 0, config'.level # 0
               PROVE  \E p \in Tasks :
                          /\ task[p].pc = "store"
                          /\ Head(task[p].todo) = [op |-> "set", level |-> config'.level]
    OBVIOUS
  <2>1. PICK p \in Tasks : Store(p)
    BY OnlyStoreWrites
  <2> QED
    BY <2>1, StoreActs
<1> QED
  BY <1>1, FleetInvariant, PTL DEF Spec, KillSwitchSticks

(* A task at the end of a run's recording, or at the write of a command, goes *)
(* on by its own step, unless an instance is killed.                          *)
LEMMA OwnStep ==
    ASSUME TypeOK, [Next]_vars, NEW p \in Tasks, crashes' = crashes, task'[p] # task[p],
           task[p].pc \in {"comparing", "store"}
    PROVE  IF task[p].pc = "store" THEN Store(p) ELSE Compare(p)
<1> DEFINE Moves(q) == \A r \in Tasks \ {q} : task'[r] = task[r]
<1>1. ASSUME NEW q \in Tasks,
             NEW l \in AskedLevels \cup {None}, NEW a \in Agents \cup {None},
             NEW b \in Agents \cup {None}, Request(q, l, a, b)
      PROVE  Moves(q) /\ task[q].pc = "idle"
  BY <1>1 DEF Request, Become, TypeOK
<1>2. ASSUME NEW q \in Tasks, NEW a \in Agents, NEW l \in Levels \ {0},
             CallTool(q, a, l) \/ ToolBlocked(q, a, l)
      PROVE  Moves(q) /\ task[q].pc = "running"
  BY <1>2 DEF CallTool, ToolBlocked, End, Become, TypeOK
<1>3. ASSUME NEW q \in Tasks, NEW cost \in Costs, RunEnds(q, cost)
      PROVE  Moves(q) /\ task[q].pc = "running"
  BY <1>3 DEF RunEnds, Become, TypeOK
<1>4. ASSUME NEW q \in Tasks, StartRun(q) \/ RunRaises(q) \/ RunEndsFree(q)
      PROVE  Moves(q) /\ task[q].pc \in {"idle", "running"}
  BY <1>4 DEF StartRun, RunRaises, RunEndsFree, End, Become, TypeOK
<1>5. ASSUME NEW q \in Tasks, LookPause(q) \/ LookResume(q) \/ Load(q)
      PROVE  Moves(q) /\ task[q].pc \in {"look", "load"}
  BY <1>5 DEF LookPause, LookResume, Load, Become, TypeOK
<1>6. ASSUME NEW q \in Tasks, ToolWrites(q) \/ SaveSpend(q) \/ CheckConfig(q)
      PROVE  Moves(q) /\ task[q].pc \in {"acting", "saving", "checking"}
  BY <1>6 DEF ToolWrites, SaveSpend, CheckConfig, Become, TypeOK
<1>7. ASSUME NEW q \in Tasks, Store(q) \/ Compare(q)
      PROVE  Moves(q) /\ task[q].pc = IF Store(q) THEN "store" ELSE "comparing"
  BY <1>7 DEF Store, Compare, End, Become, TypeOK
<1>8. ~Midnight /\ ~UNCHANGED vars
  BY DEF Midnight, vars
<1>9. \A i \in Instances : ~Crash(i)
  BY DEF Crash, TypeOK
<1> QED
  BY <1>1, <1>2, <1>3, <1>4, <1>5, <1>6, <1>7, <1>8, <1>9 DEF Next, Continue

(* A run that leaves check_circuit_breaker leaves the day below the cap, or *)
(* the fleet at L0.                                                         *)
THEOREM FleetBreachDrops == Spec => BreachDropsFleet
<1>1. FleetInv /\ [Next]_vars =>
        \A p \in Tasks :
            task[p].pc \in {"comparing", "store"}
              /\ task[p].todo \in {<< >>, Commands(0, None, None)}
              /\ task'[p].pc = "idle" /\ crashes' = crashes
                => spend[today] < Cap \/ config'.level = 0
  <2> SUFFICES ASSUME FleetInv, [Next]_vars, NEW p \in Tasks,
                      task[p].pc \in {"comparing", "store"},
                      task[p].todo \in {<< >>, Commands(0, None, None)},
                      task'[p].pc = "idle", crashes' = crashes
               PROVE  spend[today] < Cap \/ config'.level = 0
    OBVIOUS
  <2>1. TypeOK /\ Steady(p) /\ spend[today] \in Nat /\ Cap \in Nat
    BY FleetAssumption DEF FleetInv, TypeOK
  <2>2. IF task[p].pc = "store" THEN Store(p) ELSE Compare(p)
    BY <2>1, OwnStep
  <2>3. CASE task[p].pc = "comparing"
    <3>1. Compare(p) /\ task[p].base = config /\ config' = config
      BY <2>1, <2>2, <2>3 DEF Steady, Compare
    <3>2. CASE Become(p, Begin(Commands(0, None, None)))
      <4>1. task'[p] = Begin(Commands(0, None, None))
        BY <2>1, <3>2 DEF Become, TypeOK
      <4>2. Commands(0, None, None) # << >> /\ Head(Commands(0, None, None)).op = "set"
        BY BreakerCommands
      <4>3. task'[p].pc = "load"
        BY <4>1, <4>2 DEF Begin, Idle
      <4> QED
        BY <4>3
    <3>3. CASE ~Breached(p)
      BY <2>1, <3>3 DEF Breached
    <3>4. CASE task[p].base.level = 0
      BY <3>1, <3>4
    <3> QED
      BY <3>1, <3>2, <3>3, <3>4 DEF Compare
  <2>4. CASE task[p].pc = "store"
    <3>1. Head(task[p].todo) = [op |-> "set", level |-> 0]
      BY <2>1, <2>4, BreakerCommands DEF Steady
    <3> QED
      BY <2>2, <2>4, <3>1, StoreActs
  <2> QED
    BY <2>3, <2>4
<1> QED
  BY <1>1, FleetInvariant, PTL DEF Spec, BreachDropsFleet

(* POST /fleet-config and the breaker implement FleetSwitch: Store is its    *)
(* SetDial, Pause or Resume, every other step a stutter.                     *)
THEOREM FleetActsAsSwitch == Spec => ActsAsSwitch
<1>1. Init => Switch!Init
  BY DEF Init, Switch!Init, Default, Levels
<1>2. FleetInv /\ [Next]_vars => [Switch!Next]_(Switch!vars)
  <2> SUFFICES ASSUME FleetInv, [Next]_vars
               PROVE  Switch!Next \/ UNCHANGED Switch!vars
    OBVIOUS
  <2>1. CASE config' = config
    BY <2>1 DEF Switch!vars
  <2>2. ASSUME NEW p \in Tasks, Store(p)
        PROVE  Switch!Next
    BY <2>2, StoreActs DEF Switch!Next, Switch!SetDial, Switch!Pause, Switch!Resume
  <2> QED
    BY <2>1, <2>2, OnlyStoreWrites
<1> QED
  BY <1>1, <1>2, FleetInvariant, PTL DEF Spec, ActsAsSwitch, Switch!Spec
=============================================================================
