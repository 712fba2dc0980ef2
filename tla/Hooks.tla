------------------------------- MODULE Hooks -------------------------------
(***************************************************************************)
(* The plugin registry (plugin/plugin_registry.go), the policies and       *)
(* actions its hooks signal (act/registry.go, act/builtins.go) and the     *)
(* health check that reloads crashed plugins (cmd/gatewayd_app.go).        *)
(*                                                                         *)
(* A request runs the methods that plugins registered for one hook, in the *)
(* order of their priorities, each on the result of the one before it.     *)
(* Requests, the health check and Shutdown share the map of hooks without  *)
(* a lock.  A call of a plugin takes time; every other access to the map   *)
(* is one step.                                                            *)
(*                                                                         *)
(* One hook name stands for all: the maps of two names are changed by the  *)
(* same calls and never depend on each other.  Priorities are counted from *)
(* 1; the code adds PluginPriorityStart.                                   *)
(***************************************************************************)
EXTENDS Naturals, Sequences, FiniteSets

CONSTANTS
  Order,      \* the plugins of the configuration file, in its order
  Request,    \* goroutines that run the hook
  Requires,   \* the plugins each plugin requires
  Signals,    \* the sets of signal names a hook may put into its result
  Default,    \* DefaultPolicyName
  Reload,     \* ReloadOnCrash
  Faults,     \* what may fail: subset of FaultKinds
  MaxCrashes, \* bound on crashes of plugin processes and unanswered pings
  None        \* no plugin

\* "start" and "restart": a plugin process does not start, at boot and when it
\* is reloaded; "dispense": RegisterHooks gets no client of the plugin; "ping": a
\* process that runs does not answer a ping; "call": a hook fails; "action": the
\* terminate action times out.
FaultKinds == {"start", "restart", "dispense", "ping", "call", "action"}

\* BuiltinActions: the synchronous terminal one, the synchronous one that is
\* not terminal, and the asynchronous one.
Action == {"terminate", "passthrough", "log"}

Plugin == {Order[i] : i \in DOMAIN Order}

Priority == DOMAIN Order

ASSUME HooksAssumption ==
  /\ Order \in Seq(Plugin) /\ Order # <<>>
  /\ \A i, j \in DOMAIN Order : Order[i] = Order[j] => i = j
  /\ None \notin Plugin /\ "args" \notin Plugin /\ None # "args"
  /\ Requires \in [Plugin -> SUBSET Plugin]
  /\ Default \in Action
  /\ Reload \in BOOLEAN
  /\ Faults \subseteq FaultKinds
  /\ MaxCrashes \in Nat

VARIABLES
  booted,  \* how many plugins the start-up LoadPlugins has handled
  plugins, \* reg.plugins: the priority of each registered plugin, or 0
  hooks,   \* reg.hooks[hookName]: whose method each priority has
  up,      \* whether the process of the registered plugin runs
  failed,  \* history: the plugins whose last LoadPlugins failed
  pc,      \* per request: where Run is, or how the last one ended
  todo,    \* per request: the priorities whose hooks it has not called yet
  at,      \* per request: the priority of the call under way, or 0
  callee,  \* per request: the plugin called, or None
  lost,    \* per request: whether the process called has ended since
  called,  \* per request, history: the plugins whose calls have ended
  value,   \* per request: the argument of the next hook
  outputs, \* per request: the outputs collected that have a true verdict
  hc,      \* the health check: pc, plugins to ping, the one that failed
  stopped, \* "no", "stopping" inside Shutdown, "yes" after it
  crashes, \* crashes and unanswered pings so far
  crashed  \* "no", or why the process of GatewayD ended

registry == <<plugins, hooks, up, failed>>
call == <<at, callee, lost>>
runVars == <<pc, todo, at, callee, lost, called, value, outputs>>
vars == <<booted, plugins, hooks, up, failed, pc, todo, at, callee, lost, called,
          value, outputs, hc, stopped, crashes, crashed>>

Running == crashed = "no"

Registered == {p \in Plugin : plugins[p] # 0}

-----------------------------------------------------------------------------
(* Act: from the signals of a hook's result to outputs and a verdict.      *)

Terminal(n) == n = "terminate"

Contradicts(n) == n = "passthrough"

\* apply: the policy of the action a signal names; an unknown name and an
\* evaluation error have no output.
Evaluate(names, verdict) ==
  {[name |-> n, verdict |-> verdict[n] = "true"] :
     n \in {m \in names \cap Action : verdict[m] # "error"}}

\* Registry.Apply of package act.  A terminal signal silences the synchronous
\* signals that are not terminal.  When nothing matched, and not because of
\* an evaluation error, the default signal is applied instead.
Apply(signals, verdict) ==
  LET given == IF signals = {} THEN {Default} ELSE signals
      kept  == IF \E n \in given : Terminal(n)
               THEN {n \in given : ~Contradicts(n)} ELSE given
      evalErr == \E n \in kept \cap Action : verdict[n] = "error"
      outs == Evaluate(kept, verdict)
  IN  IF outs = {} /\ ~evalErr THEN Evaluate({Default}, verdict) ELSE outs

\* What a result with any of the signals may lead to: a policy is an expression
\* over the signal and the hook, true, false or not evaluated in time.
Outcomes ==
  {Apply(signals, verdict) :
     signals \in Signals, verdict \in [Action -> {"true", "false", "error"}]}

\* Mutant of IsTerminal: the verdict of the policy is not looked at.
IsTerminalAnyway(outs) == \E o \in outs : Terminal(o.name)

\* Whether an output of Registry.Apply of package plugin is terminal.
IsTerminal(outs) == \E o \in outs : o.verdict /\ Terminal(o.name)

-----------------------------------------------------------------------------
(* Loading and removing plugins.                                           *)

HcIdle == [pc |-> "idle", todo |-> {}, plugin |-> None]

Init ==
  /\ booted = 0
  /\ plugins = [p \in Plugin |-> 0]
  /\ hooks = [i \in Priority |-> None]
  /\ up = [p \in Plugin |-> FALSE]
  /\ failed = {}
  /\ pc = [r \in Request |-> "idle"]
  /\ todo = [r \in Request |-> {}]
  /\ at = [r \in Request |-> 0]
  /\ callee = [r \in Request |-> None]
  /\ lost = [r \in Request |-> FALSE]
  /\ called = [r \in Request |-> {}]
  /\ value = [r \in Request |-> <<>>]
  /\ outputs = [r \in Request |-> {}]
  /\ hc = HcIdle
  /\ stopped = "no" /\ crashes = 0 /\ crashed = "no"

\* Exists, for every plugin that p requires.
RequirementsExist(p) == Requires[p] \subseteq Registered

\* Add keeps a plugin that is already registered (GetOrPut).
Add(p, i) == plugins' = [plugins EXCEPT ![p] = IF @ = 0 THEN i ELSE @]

\* AddHook replaces the method of the same priority.
AddHook(i, p) == hooks' = [hooks EXCEPT ![i] = p]

\* The method of the one hook that is modelled.
RegisterHooks(p) == AddHook(plugins'[p], p)

\* One iteration of LoadPlugins.  A plugin that fails to start is skipped.
\* One whose requirements are not met is stopped, but added and registered
\* like the others.  One that RegisterHooks cannot dispense stays added, without
\* its hooks.
LoadPlugin(p, i, fault) ==
  \/ /\ fault \in Faults
     /\ failed' = failed \cup {p}
     /\ UNCHANGED <<plugins, hooks, up>>
  \/ /\ up' = [up EXCEPT ![p] = IF p \in Registered THEN @
                                ELSE RequirementsExist(p)]
     /\ Add(p, i)
     /\ \/ RegisterHooks(p) /\ failed' = failed \ {p}
        \/ /\ "dispense" \in Faults
           /\ failed' = failed \cup {p} /\ UNCHANGED hooks

\* Mutant of Remove: the hooks of the plugin stay.
RemovePluginOnly(p) ==
  /\ plugins' = [plugins EXCEPT ![p] = 0]
  /\ up' = [up EXCEPT ![p] = FALSE]
  /\ UNCHANGED <<hooks, failed>>

\* Mutant of Remove: the plugin stays in the registry.
RemoveHooksOnly(p) ==
  /\ hooks' = [hooks EXCEPT ![plugins[p]] = None]
  /\ UNCHANGED <<plugins, up, failed>>

\* Remove deletes whatever hook has the priority of the plugin.  It does not
\* end a process that runs.
Remove(p) ==
  /\ hooks' = [hooks EXCEPT ![plugins[p]] = None]
  /\ plugins' = [plugins EXCEPT ![p] = 0]
  /\ up' = [up EXCEPT ![p] = FALSE]
  /\ UNCHANGED failed

\* The servers and the health check start after LoadPlugins.
Boot ==
  /\ Running /\ booted < Len(Order)
  /\ LoadPlugin(Order[booted + 1], booted + 1, "start")
  /\ booted' = booted + 1
  /\ UNCHANGED <<runVars, hc, stopped, crashes, crashed>>

Booted == booted = Len(Order)

\* The calls under way to a process that ends are lost, unless their results
\* have arrived or they were made to an earlier process of the plugin.
CutCalls(p) ==
  \E cut \in SUBSET {r \in Request : callee[r] = p} :
    lost' = [r \in Request |-> lost[r] \/ r \in cut]

\* Something happens to a plugin process.
Mishap == crashes < MaxCrashes /\ crashes' = crashes + 1

\* A plugin is a process of its own (external).
Crash(p) ==
  /\ Running /\ up[p] /\ Mishap
  /\ up' = [up EXCEPT ![p] = FALSE]
  /\ CutCalls(p)
  /\ UNCHANGED <<booted, plugins, hooks, failed, pc, todo, at, callee, called,
                 value, outputs, hc, stopped, crashed>>

-----------------------------------------------------------------------------
(* Run, and what PassThroughToServer does with its result.                 *)

\* Mutant of IsNext: the highest priority first.
IsNextDown(i, S) == i \in S /\ \A j \in S : j <= i

\* The priorities are sorted in ascending order.
IsNext(i, S) == i \in S /\ \A j \in S : i <= j

Ended == {"idle", "send", "answer", "terminate"}

\* A connection runs the hook again for its next traffic.
\* Run collects the priorities first; it looks the methods up one by one.
RunStart(r) ==
  /\ Running /\ Booted /\ pc[r] \in Ended
  /\ pc' = [pc EXCEPT ![r] = "call"]
  /\ todo' = [todo EXCEPT ![r] = {i \in Priority : hooks[i] # None}]
  /\ called' = [called EXCEPT ![r] = {}]
  /\ value' = [value EXCEPT ![r] = <<"args">>]
  /\ outputs' = [outputs EXCEPT ![r] = {}]
  /\ UNCHANGED <<booted, registry, call, hc, stopped, crashes, crashed>>

Call(r, i) ==
  /\ pc' = [pc EXCEPT ![r] = "wait"]
  /\ todo' = [todo EXCEPT ![r] = @ \ {i}]
  /\ at' = [at EXCEPT ![r] = i]
  /\ callee' = [callee EXCEPT ![r] = hooks[i]]
  /\ lost' = [lost EXCEPT ![r] = hooks[i] # None /\ ~up[hooks[i]]]
  /\ UNCHANGED called

Return(r) ==
  /\ called' = [called EXCEPT ![r] = @ \cup {callee[r]}]
  /\ at' = [at EXCEPT ![r] = 0]
  /\ callee' = [callee EXCEPT ![r] = None]
  /\ lost' = [lost EXCEPT ![r] = FALSE]

\* A hook deleted since is a nil function, and calling it panics.
RunCall(r) ==
  /\ Running /\ pc[r] = "call"
  /\ \E i \in Priority :
       /\ IsNext(i, todo[r])
       /\ Call(r, i)
       /\ crashed' = IF hooks[i] = None THEN "nil hook" ELSE crashed
  /\ UNCHANGED <<booted, registry, value, outputs, hc, stopped, crashes>>

\* Mutant of RunNil: the same hook is tried again.
RunNilRetried(r) ==
  /\ Running /\ pc[r] = "wait"
  /\ lost[r] \/ "call" \in Faults
  /\ pc' = [pc EXCEPT ![r] = "call"]
  /\ todo' = [todo EXCEPT ![r] = @ \cup {at[r]}]
  /\ Return(r)
  /\ UNCHANGED <<booted, registry, value, outputs, hc, stopped, crashes, crashed>>

\* The result is nil when the process has ended or the call fails: the hook of
\* that priority is deleted and the next one called.  What the first hook got
\* as its argument is not passed on.
RunNil(r) ==
  /\ Running /\ pc[r] = "wait"
  /\ lost[r] \/ "call" \in Faults
  /\ pc' = [pc EXCEPT ![r] = "call"]
  /\ hooks' = [hooks EXCEPT ![at[r]] = None]
  /\ value' = [value EXCEPT ![r] = IF @ = <<"args">> THEN <<>> ELSE @]
  /\ Return(r)
  /\ UNCHANGED <<booted, plugins, up, failed, todo, outputs, hc, stopped,
                 crashes, crashed>>

\* The result of the hook, the outputs of the policies its signals match (the
\* ones with a true verdict are kept, RunAll skips the others), and whether
\* one of them is terminal.
RunResult(r) ==
  /\ Running /\ pc[r] = "wait" /\ ~lost[r]
  /\ \E outs \in Outcomes :
       /\ pc' = [pc EXCEPT ![r] = IF IsTerminal(outs) THEN "terminal" ELSE "call"]
       /\ todo' = [todo EXCEPT ![r] = IF IsTerminal(outs) THEN {} ELSE @]
       /\ outputs' = [outputs EXCEPT ![r] =
                        @ \cup {o.name : o \in {q \in outs : q.verdict}}]
  /\ value' = [value EXCEPT ![r] = Append(@, callee[r])]
  /\ Return(r)
  /\ UNCHANGED <<booted, registry, hc, stopped, crashes, crashed>>

\* Run of package act for the terminate action: its response is the answer to
\* the client, and there is none when it exceeds its timeout.
TerminateEnds == {"answer"} \cup (IF "action" \in Faults THEN {"terminate"} ELSE {})

\* shouldTerminate: RunAll runs the actions with a true verdict.
RunAll(r) ==
  /\ Running
  /\ \/ /\ pc[r] = "call" /\ todo[r] = {}
        /\ pc' = [pc EXCEPT ![r] = "send"]
     \/ /\ pc[r] = "terminal"
        /\ \E end \in TerminateEnds : pc' = [pc EXCEPT ![r] = end]
  /\ UNCHANGED <<booted, registry, todo, call, called, value, outputs, hc,
                 stopped, crashes, crashed>>

Run(r) == RunCall(r) \/ RunNil(r) \/ RunResult(r) \/ RunAll(r)

-----------------------------------------------------------------------------
(* The health check and Shutdown.                                          *)

\* Scheduled if there are plugins, one at a time, until stopGracefully stops
\* the scheduler.
HcStart ==
  /\ Running /\ Booted /\ hc.pc = "idle" /\ stopped = "no"
  /\ Registered # {}
  /\ hc' = [pc |-> "ping", todo |-> Registered, plugin |-> None]
  /\ UNCHANGED <<booted, registry, runVars, stopped, crashes, crashed>>

HcPing(p) ==
  /\ Running /\ hc.pc = "ping" /\ p \in hc.todo
  /\ \/ /\ up[p]
        /\ hc' = [pc |-> "ping", todo |-> hc.todo \ {p}, plugin |-> None]
        /\ UNCHANGED crashes
     \/ /\ \/ ~up[p] /\ UNCHANGED crashes
           \/ up[p] /\ "ping" \in Faults /\ Mishap
        /\ hc' = [pc |-> "remove", todo |-> hc.todo \ {p}, plugin |-> p]
  /\ UNCHANGED <<booted, registry, runVars, stopped, crashed>>

HcRemove ==
  /\ Running /\ hc.pc = "remove"
  /\ Remove(hc.plugin)
  /\ hc' = [pc |-> IF Reload THEN "load" ELSE "ping", todo |-> hc.todo,
            plugin |-> IF Reload THEN hc.plugin ELSE None]
  /\ UNCHANGED <<booted, runVars, stopped, crashes, crashed>>

\* Mutant of HcLoad: the plugin is reloaded behind the others.
HcLoadLast ==
  /\ Running /\ hc.pc = "load"
  /\ LoadPlugin(hc.plugin, Len(Order), "restart")
  /\ hc' = [pc |-> "ping", todo |-> hc.todo, plugin |-> None]
  /\ UNCHANGED <<booted, runVars, stopped, crashes, crashed>>

\* LoadPlugins is given the crashed plugin alone: its priority is that of the
\* first plugin in the configuration file.
HcLoad ==
  /\ Running /\ hc.pc = "load"
  /\ LoadPlugin(hc.plugin, 1, "restart")
  /\ hc' = [pc |-> "ping", todo |-> hc.todo, plugin |-> None]
  /\ UNCHANGED <<booted, runVars, stopped, crashes, crashed>>

HcFinish ==
  /\ Running /\ hc.pc = "ping" /\ hc.todo = {}
  /\ hc' = HcIdle
  /\ UNCHANGED <<booted, registry, runVars, stopped, crashes, crashed>>

HealthCheck ==
  HcRemove \/ HcLoad \/ HcFinish \/ \E p \in Plugin : HcPing(p)

\* stopGracefully: scheduler.Stop waits for a running job.
ShutdownStart ==
  /\ Running /\ Booted /\ stopped = "no" /\ hc.pc = "idle"
  /\ stopped' = "stopping"
  /\ UNCHANGED <<booted, registry, runVars, hc, crashes, crashed>>

\* One iteration of Registry.Shutdown: Stop and Remove.
ShutdownPlugin(p) ==
  /\ Running /\ stopped = "stopping" /\ p \in Registered
  /\ Remove(p)
  /\ CutCalls(p)
  /\ UNCHANGED <<booted, pc, todo, at, callee, called, value, outputs, hc,
                 stopped, crashes, crashed>>

ShutdownFinish ==
  /\ Running /\ stopped = "stopping" /\ Registered = {}
  /\ stopped' = "yes"
  /\ UNCHANGED <<booted, registry, runVars, hc, crashes, crashed>>

Shutdown == ShutdownFinish \/ \E p \in Plugin : ShutdownPlugin(p)

\* Which goroutines are about to read or to write the map of hooks.
Reading == {r \in Request : pc[r] \in Ended \cup {"call"}}

Deleting == {r \in Request : pc[r] = "wait" /\ lost[r]}

\* The map is not synchronised: the runtime ends the process when it notices
\* a write beside another access (external: Go maps).
MapFatal ==
  /\ Running /\ Booted
  /\ \/ /\ hc.pc \in {"remove", "load"} \/ stopped = "stopping"
        /\ Reading \cup Deleting # {}
     \/ \E r \in Deleting : (Reading \cup Deleting) \ {r} # {}
  /\ crashed' = "map"
  /\ UNCHANGED <<booted, registry, runVars, hc, stopped, crashes>>

Next ==
  \/ Boot \/ MapFatal
  \/ \E p \in Plugin : Crash(p)
  \/ \E r \in Request : RunStart(r) \/ Run(r)
  \/ HcStart \/ HealthCheck
  \/ ShutdownStart \/ Shutdown

Spec == Init /\ [][Next]_vars

\* Goroutines are scheduled, a plugin answers or its call times out
\* (PluginTimeout), and the scheduler starts the health check periodically.
Fairness ==
  /\ \A r \in Request : WF_vars(Run(r))
  /\ WF_vars(HcStart) /\ WF_vars(HealthCheck)
  /\ WF_vars(Boot)

FairSpec == Spec /\ Fairness

-----------------------------------------------------------------------------
(* Properties.                                                             *)

RunTyped ==
  /\ pc \in [Request -> Ended \cup {"call", "wait", "terminal"}]
  /\ todo \in [Request -> SUBSET Priority]
  /\ at \in [Request -> {0} \cup Priority]
  /\ callee \in [Request -> Plugin \cup {None}]
  /\ lost \in [Request -> BOOLEAN]
  /\ called \in [Request -> SUBSET Plugin]
  /\ value \in [Request -> Seq(Plugin \cup {"args"})]
  /\ outputs \in [Request -> SUBSET Action]
  /\ \A r \in Request :
       /\ pc[r] = "wait" => at[r] # 0 /\ (Running => callee[r] # None)
       /\ pc[r] # "wait" => callee[r] = None

\* The types of the variables; a call under way is that of some plugin.
TypeOK ==
  /\ booted \in 0..Len(Order)
  /\ plugins \in [Plugin -> {0} \cup Priority]
  /\ hooks \in [Priority -> Plugin \cup {None}]
  /\ up \in [Plugin -> BOOLEAN]
  /\ failed \in SUBSET Plugin
  /\ RunTyped
  /\ hc \in [pc : {"idle", "ping", "remove", "load"}, todo : SUBSET Plugin,
             plugin : Plugin \cup {None}]
  /\ hc.pc \in {"remove", "load"} => hc.plugin # None
  /\ stopped \in {"no", "stopping", "yes"}
  /\ crashes \in 0..MaxCrashes
  /\ crashed \in {"no", "nil hook", "map"}

\* A hook belongs to a plugin that is registered with that very priority, so
\* that Remove finds it: no method of a removed plugin is left behind, though
\* a reload changes priorities and replaces the hooks of other plugins.
NoGhostHook == \A i \in Priority : hooks[i] # None => plugins[hooks[i]] = i

\* Run calls a plugin at most once for a request, whether the call returns a
\* result or fails, although a plugin that is reloaded in the middle of the
\* request changes its priority.
CalledOnce == \A r \in Request : callee[r] \notin called[r]

\* A request is sent to the backend only if no policy let a terminate signal
\* of one of its hooks pass, and is answered or refused only if one did.
VerdictDecides ==
  \A r \in Request :
    /\ pc[r] = "send" => "terminate" \notin outputs[r]
    /\ pc[r] \in {"answer", "terminate"} => "terminate" \in outputs[r]

\* Why CalledOnce is inductive: a plugin that Run has called is not registered
\* with a priority still ahead of Run, and as the priority of a reload is 1, 1
\* is not ahead of a Run that has called a plugin.
CallsBehind ==
  \A r \in Request :
    /\ \A p \in Plugin : p \in called[r] \cup {callee[r]} =>
         1 \notin todo[r] /\ \A i \in todo[r] : plugins[p] < i
    /\ ~Booted => todo[r] = {}

\* Why VerdictDecides is inductive.
VerdictSoFar ==
  \A r \in Request :
    /\ pc[r] \in {"call", "wait"} => "terminate" \notin outputs[r]
    /\ pc[r] = "terminal" => "terminate" \in outputs[r]

\* The inductive invariant of the registry and of Run.
IInv ==
  /\ TypeOK /\ NoGhostHook /\ CalledOnce /\ CallsBehind
  /\ VerdictDecides /\ VerdictSoFar

\* Run returns: the hooks it calls are finitely many, whatever is deleted and
\* registered meanwhile.
RunReturns == \A r \in Request : (pc[r] = "call") ~> (pc[r] \in Ended \/ ~Running)

\* A crashed plugin is up again with its hook, unless LoadPlugins failed to
\* start or to register it, or GatewayD stops.
ReloadRestores ==
  \A p \in Plugin :
    (p \in Registered /\ ~up[p] /\ Requires[p] = {}) ~>
      \/ up[p] /\ \E i \in Priority : hooks[i] = p
      \/ p \in failed \/ stopped # "no" \/ ~Running

\* The comment "Reload the plugins and register their hooks upon crash", without
\* the exception: Remove comes before LoadPlugins, and nothing tries again.
ReloadAlwaysRestores ==
  \A p \in Plugin :
    (p \in Registered /\ ~up[p] /\ Requires[p] = {}) ~>
      \/ up[p] /\ \E i \in Priority : hooks[i] = p
      \/ stopped # "no" \/ ~Running

\* "Remove the hook from the registry, log the error and execute the next
\* hook": the removal of a hook does not end the process.
RemovalSurvived == crashed # "nil hook"

\* "Plugin priority is determined by the order in which the plugin is listed
\* in the config file."
ConfigOrder ==
  \A i, j \in DOMAIN Order :
    i < j /\ {Order[i], Order[j]} \subseteq Registered
      => plugins[Order[i]] < plugins[Order[j]]

\* "The args are passed to the first hook as the argument": a result derives
\* from the arguments of the request.
ArgsPassedOn ==
  \A r \in Request : pc[r] # "idle" => value[r] # <<>> /\ Head(value[r]) = "args"

\* A registered plugin whose process runs has its hook.
LivePluginHooked ==
  \A p \in Registered : up[p] => hooks[plugins[p]] = p

=============================================================================
