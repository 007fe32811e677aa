----------------------------- MODULE AgentService -----------------------------
(***************************************************************************)
(* The agent as a background service: `agent install`, `agent uninstall`   *)
(* and `agent run`, over the three supervisors a platform may have         *)
(* (crates/atlasctl/src/service.rs, service/plan.rs, commands/service.rs,  *)
(* commands/agent.rs).  One install or uninstall runs at a time; the       *)
(* supervisor starts, ends and restarts agents of its own accord, and an   *)
(* agent may be running that was started by hand.                          *)
(*                                                                         *)
(* What the supervisors do with a step is external to the repository and   *)
(* modelled as the comments of the plans describe it.                      *)
(***************************************************************************)
EXTENDS Naturals, Sequences, FiniteSets, SequencesExt

CONSTANTS None,      \* no value
          Supervisor, \* "systemd", "launchd", "task": the platforms considered
          Port,      \* ports an agent may be given
          Dir,       \* config directories
          Home,      \* the one an agent uses that is told of none
          MaxCommands, MaxFailures   \* BOUNDS

ServiceAssumption ==
  /\ Supervisor \subseteq {"systemd", "launchd", "task"}
  /\ Home \in Dir
  /\ None \notin Dir \cup {"install", "uninstall", "installed", "removed"}
  /\ None \notin [port : Port \cup {None}, dir : Dir \cup {None}]
  /\ MaxCommands \in Nat /\ MaxFailures \in Nat

VARIABLES
  kind,     \* the platform's supervisor
  unit,     \* the unit file: the invocation written in it, or None
  loaded,   \* the definition the supervisor holds, or None
  enabled,  \* systemd: started with the session
  linger,   \* systemd: there is a session without a login
  session,  \* the user is logged in
  agents,   \* agents that run: who started them, with what, and how far they are
  again,    \* the supervisor means to restart the agent, which has failed
  usable,   \* the config directories an agent can write
  cmd,      \* the command: its verb, the steps left, what it has to say
  told,     \* history: what the last command reported, while it stands
  count     \* commands begun, steps that failed, and whether one of them did that
            \* had something to do and whose failure the code ignores (`deaf`)

svc  == <<unit, loaded, enabled, linger>>
vars == <<kind, svc, session, agents, again, usable, cmd, told, count>>

\* plan::AgentInvocation; the directory only when the operator named one.
Invocation == [port : Port \cup {None}, dir : Dir \cup {None}]

\* configdir::resolve, in a shell that names a directory and in one that does not.
Resolve(named) == IF named = None THEN Home ELSE named

EnsureUsable(dir) == dir \in usable

Idle == [verb |-> None, inv |-> None, join |-> FALSE, dir |-> None,
         todo |-> <<>>]
Nothing == [what |-> None, inv |-> None, joined |-> None, lingers |-> FALSE]

Agent(by, inv) == [by |-> by, inv |-> inv, at |-> "checks"]
Served == {a \in agents : a.by = "service"}

Init ==
  /\ kind \in Supervisor
  /\ unit = None /\ loaded = None /\ enabled = FALSE /\ linger = FALSE
  /\ session = TRUE
  /\ agents = {} /\ again = FALSE
  /\ usable \in SUBSET Dir
  /\ cmd = Idle /\ told = Nothing
  /\ count = [commands |-> 0, failures |-> 0, deaf |-> FALSE]

-----------------------------------------------------------------------------
(* The plans: service/plan.rs, plan/windows.rs *)

\* A step and what its failure means: the end of the command, a note, nothing.
Must(step)  == [step |-> step, fails |-> "ends"]
Noted(step) == [step |-> step, fails |-> "noted"]
Deaf(step)  == [step |-> step, fails |-> "nothing"]

\* Activation, and what is only wished for.
SystemdPlan == <<Must("reload"), Must("enable_now"), Must("restart"), Noted("linger")>>

\* What it is to replace goes first.
LaunchdPlan == <<Deaf("bootout"), Must("bootstrap")>>
TaskPlan    == <<Deaf("stop"), Must("register"), Must("start")>>

\* Mutant: enable --now is taken for a start.
InstallPlanWithoutRestart ==
  CASE kind = "systemd" -> SelectSeq(SystemdPlan, LAMBDA s : s.step # "restart")
    [] kind = "launchd" -> LaunchdPlan
    [] kind = "task"    -> TaskPlan

InstallPlan ==
  CASE kind = "systemd" -> SystemdPlan
    [] kind = "launchd" -> LaunchdPlan
    [] kind = "task"    -> TaskPlan

\* Mutant: a task that is not registered is taken for one that does not run.
TaskDeactivateUnregistersOnly == <<Deaf("unregister")>>

\* Unregistering a task does not end it.
TaskDeactivate == <<Deaf("stop"), Deaf("unregister")>>

\* Deactivation, the file, and what systemd is told of it.
Teardown ==
  CASE kind = "systemd" -> <<Deaf("disable_now"), Must("remove"), Deaf("reload")>>
    [] kind = "launchd" -> <<Deaf("bootout"), Must("remove")>>
    [] kind = "task"    -> TaskDeactivate \o <<Must("remove")>>

-----------------------------------------------------------------------------
(* What a supervisor does with a step *)

Ended == /\ agents' = agents \ Served /\ again' = FALSE
Begun(inv) == /\ agents' = (agents \ Served) \cup {Agent("service", inv)}
              /\ again' = FALSE

\* The step cannot be done as things are.
Impossible(step) ==
  \/ step \in {"enable_now", "restart", "disable_now", "start"} /\ loaded = None
  \/ step = "bootout"    /\ loaded = None
  \/ step = "bootstrap"  /\ loaded # None
  \/ step = "unregister" /\ loaded = None

Performed(step) ==
  \/ /\ step = "write" /\ unit' = cmd.inv
     /\ UNCHANGED <<loaded, enabled, linger, agents, again>>
  \/ /\ step = "remove" /\ unit' = None
     /\ UNCHANGED <<loaded, enabled, linger, agents, again>>
  \/ /\ step = "reload" /\ loaded' = unit
     /\ UNCHANGED <<unit, enabled, linger, agents, again>>
  \/ /\ step = "enable_now" /\ enabled' = TRUE
     /\ IF Served # {} THEN UNCHANGED <<agents, again>> ELSE Begun(loaded)
     /\ UNCHANGED <<unit, loaded, linger>>
  \/ /\ step = "restart" /\ Begun(loaded)
     /\ UNCHANGED svc
  \/ /\ step = "disable_now" /\ enabled' = FALSE /\ Ended
     /\ UNCHANGED <<unit, loaded, linger>>
  \/ /\ step = "linger" /\ linger' = TRUE
     /\ UNCHANGED <<unit, loaded, enabled, agents, again>>
  \/ /\ step = "bootout" /\ loaded' = None /\ Ended
     /\ UNCHANGED <<unit, enabled, linger>>
  \/ /\ step = "bootstrap" /\ loaded' = unit /\ Begun(unit)
     /\ UNCHANGED <<unit, enabled, linger>>
  \/ /\ step = "stop" /\ Ended
     /\ UNCHANGED svc
  \/ /\ step = "register" /\ loaded' = unit
     /\ UNCHANGED <<unit, enabled, linger, agents, again>>
  \/ /\ step = "start"                       \* MultipleInstancesPolicy IgnoreNew
     /\ IF Served # {} THEN UNCHANGED <<agents, again>> ELSE Begun(loaded)
     /\ UNCHANGED svc
  \/ /\ step = "unregister" /\ loaded' = None /\ again' = FALSE
     /\ UNCHANGED <<unit, enabled, linger, agents>>

-----------------------------------------------------------------------------
(* The commands: service.rs install and uninstall, commands/service.rs *)

Begin(verb, inv, join, dir, todo) ==
  /\ cmd = Idle /\ session /\ count.commands < MaxCommands
  /\ cmd' = [verb |-> verb, inv |-> inv, join |-> join, dir |-> dir,
             todo |-> todo]
  /\ told' = Nothing
  /\ count' = [count EXCEPT !.commands = @ + 1]
  /\ UNCHANGED <<kind, svc, session, agents, again, usable>>

\* Only when the operator chose one.
InvocationOf(port, named) == [port |-> port, dir |-> named]

Install(port, named, join) ==
  Begin("install", InvocationOf(port, named), join, Resolve(named),
        <<Must("write")>> \o InstallPlan \o <<Must("verify")>>
          \o (IF join THEN <<Must("join")>> ELSE <<>>))

Uninstall == Begin("uninstall", None, FALSE, None, Teardown)

Now(step) == cmd # Idle /\ cmd.todo # <<>> /\ Head(cmd.todo).step = step
Onward    == cmd' = [cmd EXCEPT !.todo = Tail(@)]
Over      == cmd' = Idle

\* A step that is done.
Step ==
  /\ cmd # Idle /\ cmd.todo # <<>>
  /\ LET s == Head(cmd.todo)
     IN /\ s.step \notin {"verify", "join"}
        /\ ~Impossible(s.step) /\ Performed(s.step)
        /\ Onward
        /\ told' = [told EXCEPT !.lingers = @ \/ s.step = "linger"]
  /\ UNCHANGED <<kind, session, usable, count>>

\* A step that is not, because it cannot be or because it fails.
StepFails ==
  /\ cmd # Idle /\ cmd.todo # <<>>
  /\ LET s == Head(cmd.todo)
         able == ~Impossible(s.step)
     IN /\ s.step \notin {"verify", "join"}
        /\ able => count.failures < MaxFailures
        /\ count' = IF ~able THEN count
                    ELSE [count EXCEPT !.failures = @ + 1,
                                       !.deaf = @ \/ s.fails = "nothing"]
        /\ IF s.fails = "ends" THEN Over ELSE Onward
  /\ UNCHANGED <<kind, svc, session, agents, again, usable, told>>

\* Two looks at the supervisor, of which the second counts, and the report.
\* launchd is asked only whether it holds the agent.
Verify ==
  /\ Now("verify")
  /\ \E up \in BOOLEAN :
       /\ up => IF kind = "launchd" THEN loaded # None ELSE Served # {}
       /\ told' = IF up /\ ~count.deaf
                  THEN [told EXCEPT !.what = "installed", !.inv = cmd.inv]
                  ELSE Nothing
  /\ Onward
  /\ UNCHANGED <<kind, svc, session, agents, again, usable, count>>

\* join_fleet: the pin goes to the directory of the operator's shell.
Join ==
  /\ Now("join")
  /\ \/ /\ EnsureUsable(cmd.dir)
        /\ told' = IF told.what = None THEN told
                   ELSE [told EXCEPT !.joined = cmd.dir]
     \/ UNCHANGED told
  /\ Onward
  /\ UNCHANGED <<kind, svc, session, agents, again, usable, count>>

Ends ==
  /\ cmd # Idle /\ cmd.todo = <<>>
  /\ told' = IF cmd.verb = "uninstall" /\ ~count.deaf
             THEN [Nothing EXCEPT !.what = "removed"] ELSE told
  /\ Over
  /\ UNCHANGED <<kind, svc, session, agents, again, usable, count>>

\* The operator, or the end of the terminal, cuts a command short.
Interrupted ==
  /\ cmd # Idle /\ Over /\ told' = Nothing
  /\ UNCHANGED <<kind, svc, session, agents, again, usable, count>>

-----------------------------------------------------------------------------
(* agent run: commands/agent.rs *)

Becomes(a, at) == agents' = (agents \ {a}) \cup {[a EXCEPT !.at = at]}

\* It ends with an error: a supervisor restarts what it has started.
Fails(a) ==
  /\ agents' = agents \ {a}
  /\ again' = (again \/ a.by = "service")

\* The directory and its bench.yaml, which may be unsound, before anything is
\* bound.
Checks(a) ==
  /\ a.at = "checks"
  /\ \/ EnsureUsable(Resolve(a.inv.dir)) /\ Becomes(a, "bind") /\ UNCHANGED again
     \/ Fails(a)

Holds(port) == \E a \in agents : a.at = "serving" /\ a.inv.port = port

\* After token, docker and identity: the port, unless there is to be no browser.
Bind(a) ==
  /\ a.at = "bind"
  /\ IF a.inv.port # None /\ Holds(a.inv.port)
     THEN Fails(a)
     ELSE Becomes(a, "serving") /\ UNCHANGED again

Runs(a) ==
  /\ Checks(a) \/ Bind(a)
  /\ UNCHANGED <<kind, svc, session, usable, cmd, told, count>>

\* It fails while it serves: out of memory, or its listener stops.
Dies(a) ==
  /\ a.at = "serving" /\ Fails(a)
  /\ UNCHANGED <<kind, svc, session, usable, cmd, told, count>>

RunByHand(port, named) ==
  /\ session /\ count.commands < MaxCommands
  /\ \A a \in agents : a.by # "hand"
  /\ agents' = agents \cup {Agent("hand", [port |-> port, dir |-> named])}
  /\ count' = [count EXCEPT !.commands = @ + 1]
  /\ UNCHANGED <<kind, svc, session, again, usable, cmd, told>>

CtrlC ==
  /\ \E a \in agents : a.by = "hand" /\ agents' = agents \ {a}
  /\ UNCHANGED <<kind, svc, session, again, usable, cmd, told, count>>

-----------------------------------------------------------------------------
(* The supervisor of its own accord *)

Respawn ==
  /\ again /\ Served = {} /\ loaded # None /\ Begun(loaded)
  /\ UNCHANGED <<kind, svc, session, usable, cmd, told, count>>

\* The session ends, with everything in it but a lingering service.
LogOut ==
  /\ session /\ session' = FALSE
  /\ cmd' = Idle
  /\ told' = IF cmd = Idle THEN told ELSE Nothing
  /\ IF kind = "systemd" /\ linger
     THEN agents' = Served /\ UNCHANGED <<again, loaded>>
     ELSE agents' = {} /\ again' = FALSE
          /\ loaded' = IF kind = "task" THEN loaded ELSE None
  /\ UNCHANGED <<kind, unit, enabled, linger, usable, count>>

\* What is to run in a session is started with it: what is enabled, what has its
\* plist in LaunchAgents, what has a logon trigger.
LogIn ==
  /\ ~session /\ session' = TRUE
  /\ loaded' = IF kind = "task" \/ (kind = "systemd" /\ linger) THEN loaded ELSE unit
  /\ IF loaded' = None \/ Served # {} \/ (kind = "systemd" /\ ~enabled)
     THEN UNCHANGED <<agents, again>>
     ELSE Begun(loaded')
  /\ UNCHANGED <<kind, unit, enabled, linger, usable, cmd, told, count>>

Next ==
  \/ \E named \in Dir \cup {None} :
       \/ \E port \in Port : RunByHand(port, named)
       \/ \E port \in Port \cup {None}, join \in BOOLEAN : Install(port, named, join)
  \/ Uninstall \/ Step \/ StepFails \/ Verify \/ Join \/ Ends \/ Interrupted
  \/ \E a \in agents : Runs(a) \/ Dies(a)
  \/ CtrlC \/ Respawn \/ LogOut \/ LogIn

Spec == Init /\ [][Next]_vars

-----------------------------------------------------------------------------
(* Properties *)

TypeOK ==
  /\ kind \in Supervisor
  /\ unit \in Invocation \cup {None} /\ loaded \in Invocation \cup {None}
  /\ enabled \in BOOLEAN /\ linger \in BOOLEAN /\ session \in BOOLEAN
  /\ agents \subseteq [by : {"service", "hand"}, inv : Invocation,
                       at : {"checks", "bind", "serving"}]
  /\ Cardinality(Served) <= 1
  /\ again \in BOOLEAN /\ usable \subseteq Dir
  /\ cmd.inv \in Invocation \cup {None} /\ cmd.dir \in Dir \cup {None}
  /\ told.what \in {None, "installed", "removed"}
  /\ count \in [commands : Nat, failures : Nat, deaf : BOOLEAN]

\* Once an install has said that the agent is installed and started, and until
\* the next command, every agent the supervisor runs, now, after a crash and
\* after the next login, is the one of that install, and reads the directory
\* the fleet was joined from.  Without a note on lingering it outlives the
\* session.  (Of a step that fails in silence nothing follows; `told` is not set.)
AgentRunsAsInstalled ==
  told.what = "installed" =>
    /\ \A a \in Served :
         /\ a.inv = told.inv
         /\ told.joined # None => Resolve(a.inv.dir) = told.joined
    /\ unit = told.inv
    /\ kind = "systemd" => enabled
    /\ session \/ told.lingers => loaded = told.inv

\* Once an uninstall has said that the service is removed, none runs, and none
\* comes back.
RemovedIsGone ==
  told.what = "removed" => Served = {} /\ loaded = None /\ unit = None

\* What the last command reported about the service goes on being true.
ReportStands == AgentRunsAsInstalled /\ RemovedIsGone

=============================================================================
