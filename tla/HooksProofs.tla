---------------------------- MODULE HooksProofs ----------------------------
(***************************************************************************)
(* The safety properties of Hooks hold for every configuration of plugins, *)
(* every number of requests and any number of crashes.                     *)
(***************************************************************************)
EXTENDS Hooks, TLAPS

\* SMT, then Zenon, with their time limits in seconds.
USE SMTT(30), ZenonT(60)

\* Priorities are positive numbers, and 1 is one of them.
LEMMA Priorities ==
  /\ Priority = 1..Len(Order) /\ 1 \in Priority /\ Len(Order) \in Nat
  /\ \A i \in Priority : i \in Nat /\ i # 0 /\ Order[i] \in Plugin
BY HooksAssumption DEF Priority, Plugin

\* An output names a built-in action and carries a verdict.
LEMMA OutputsTyped ==
  ASSUME NEW outs \in Outcomes
  PROVE  \A o \in outs : o.name \in Action
<1>1. PICK signals \in Signals, verdict \in [Action -> {"true", "false", "error"}] :
        outs = Apply(signals, verdict)
  BY DEF Outcomes
<1>2. \A S : \A o \in Evaluate(S, verdict) : o.name \in Action
  BY DEF Evaluate
<1>3. \E S : outs = Evaluate(S, verdict)
  BY <1>1, ZenonT(60) DEF Apply
<1> QED BY <1>2, <1>3

\* Initially nothing is registered and nothing runs.
LEMMA InitIInv == Init => IInv
<1> SUFFICES ASSUME Init PROVE IInv
  OBVIOUS
<1> USE Priorities, HooksAssumption DEF Init
<1>1. RunTyped
  BY DEF RunTyped, Ended
<1>2. TypeOK
  BY <1>1 DEF TypeOK, HcIdle
<1>3. NoGhostHook /\ CalledOnce /\ VerdictDecides /\ VerdictSoFar
  BY DEF NoGhostHook, CalledOnce, VerdictDecides, VerdictSoFar
<1>4. CallsBehind
  BY DEF CallsBehind
<1> QED BY <1>2, <1>3, <1>4 DEF IInv

-----------------------------------------------------------------------------
(* The registry: what LoadPlugin and Remove do.                            *)

RegistryTyped ==
  /\ plugins \in [Plugin -> {0} \cup Priority]
  /\ hooks \in [Priority -> Plugin \cup {None}]
  /\ up \in [Plugin -> BOOLEAN]
  /\ failed \in SUBSET Plugin

\* LoadPlugin keeps the types of the registry and leaves no hook behind.
LEMMA LoadKeeps ==
  ASSUME RegistryTyped, NoGhostHook, NEW p \in Plugin, NEW i \in Priority,
         NEW fault, LoadPlugin(p, i, fault)
  PROVE  /\ RegistryTyped' /\ NoGhostHook'
         /\ \A q \in Plugin : q # p => plugins'[q] = plugins[q]
         /\ plugins'[p] \in {plugins[p], i}
<1>0. failed' \in SUBSET Plugin
  BY DEF LoadPlugin, RegistryTyped
<1>1. CASE UNCHANGED <<plugins, hooks, up>>
  BY <1>0, <1>1 DEF RegistryTyped, NoGhostHook
<1>2. CASE /\ up' = [up EXCEPT ![p] = IF p \in Registered THEN @
                                    ELSE RequirementsExist(p)]
           /\ Add(p, i)
           /\ RegisterHooks(p) \/ UNCHANGED hooks
  <2>1. /\ up' = [up EXCEPT ![p] = IF p \in Registered THEN @
                                ELSE Requires[p] \subseteq Registered]
        /\ plugins' = [plugins EXCEPT ![p] = IF @ = 0 THEN i ELSE @]
        /\ hooks' = [hooks EXCEPT ![plugins'[p]] = p] \/ hooks' = hooks
    BY <1>2 DEF RegisterHooks, AddHook, Add, RequirementsExist
  <2>2. plugins'[p] = IF plugins[p] = 0 THEN i ELSE plugins[p]
    BY <2>1 DEF RegistryTyped
  <2>3. plugins'[p] \in Priority
    BY <2>2 DEF RegistryTyped
  <2>4. RegistryTyped'
    BY <1>0, <2>1, <2>2, <2>3, ZenonT(60) DEF RegistryTyped
  <2>5. \A q \in Plugin : q # p => plugins'[q] = plugins[q]
    BY <2>1 DEF RegistryTyped
  <2>6. NoGhostHook'
    <3> SUFFICES ASSUME NEW k \in Priority, hooks'[k] # None
                 PROVE  plugins'[hooks'[k]] = k
      BY DEF NoGhostHook
    <3>1. CASE k = plugins'[p] /\ hooks' # hooks
      BY <3>1, <2>1, <2>3 DEF RegistryTyped
    <3>2. CASE k # plugins'[p] \/ hooks' = hooks
      <4>1. hooks'[k] = hooks[k] /\ plugins[hooks[k]] = k /\ hooks[k] \in Plugin
        BY <3>2, <2>1 DEF RegistryTyped, NoGhostHook
      <4>2. hooks[k] = p => plugins'[p] = k
        BY <4>1, <2>2, Priorities
      <4> QED BY <4>1, <4>2, <2>5
    <3> QED BY <3>1, <3>2
  <2> QED BY <2>2, <2>4, <2>5, <2>6
<1> QED BY <1>1, <1>2 DEF LoadPlugin

\* Remove keeps the types of the registry and leaves no hook behind.
LEMMA RemoveKeeps ==
  ASSUME RegistryTyped, NoGhostHook, NEW p \in Plugin, Remove(p)
  PROVE  /\ RegistryTyped' /\ NoGhostHook'
         /\ \A q \in Plugin : q # p => plugins'[q] = plugins[q]
         /\ plugins'[p] = 0
<1>1. RegistryTyped'
  BY HooksAssumption, ZenonT(60) DEF Remove, RegistryTyped
<1>2. NoGhostHook'
  <2> SUFFICES ASSUME NEW k \in Priority, hooks'[k] # None
               PROVE  plugins'[hooks'[k]] = k
    BY DEF NoGhostHook
  <2>1. k # plugins[p] /\ hooks'[k] = hooks[k]
    BY DEF Remove, RegistryTyped
  <2>2. hooks[k] \in Plugin /\ plugins[hooks[k]] = k /\ hooks[k] # p
    BY <2>1 DEF RegistryTyped, NoGhostHook
  <2> QED BY <2>1, <2>2 DEF Remove, RegistryTyped
<1> QED BY <1>1, <1>2 DEF Remove, RegistryTyped

-----------------------------------------------------------------------------
(* One lemma per conjunct of the inductive invariant.                      *)

\* The registry changes as LoadKeeps and RemoveKeeps say, or RunNil deletes a
\* hook.
LEMMA RegistryStep ==
  ASSUME TypeOK, NoGhostHook, Next
  PROVE  RegistryTyped' /\ NoGhostHook'
<1> USE DEF TypeOK
<1>0. RegistryTyped
  BY ZenonT(60) DEF RegistryTyped
<1>1. ASSUME UNCHANGED registry PROVE RegistryTyped' /\ NoGhostHook'
  BY <1>0, <1>1, ZenonT(60) DEF registry, RegistryTyped, NoGhostHook
<1>2. CASE Boot
  <2>1. booted + 1 \in Priority
    <3>1. booted \in 0..Len(Order) /\ booted < Len(Order)
      BY <1>2, ZenonT(60) DEF Boot
    <3> QED BY ONLY <3>1, Priorities
  <2>2. Order[booted + 1] \in Plugin
    BY <2>1, Priorities, ZenonT(60)
  <2>3. LoadPlugin(Order[booted + 1], booted + 1, "start")
    BY <1>2, ZenonT(60) DEF Boot
  <2> QED BY <1>0, <2>1, <2>2, <2>3, LoadKeeps, ZenonT(60)
<1>3. ASSUME NEW p \in Plugin, Crash(p) PROVE RegistryTyped' /\ NoGhostHook'
  BY <1>0, <1>3, ZenonT(60) DEF Crash, RegistryTyped, NoGhostHook
<1>4. ASSUME NEW r \in Request, RunStart(r) \/ RunCall(r) \/ RunResult(r) \/ RunAll(r)
      PROVE  UNCHANGED registry
  BY <1>4, ZenonT(60) DEF RunStart, RunCall, RunResult, RunAll
<1>5. ASSUME NEW r \in Request, RunNil(r) PROVE RegistryTyped' /\ NoGhostHook'
  <2>1. /\ hooks' = [hooks EXCEPT ![at[r]] = None]
        /\ plugins' = plugins /\ up' = up /\ failed' = failed
    BY <1>5, ZenonT(60) DEF RunNil
  <2> QED BY <1>0, <2>1, ZenonT(60) DEF RegistryTyped, NoGhostHook
<1>6. CASE HcStart \/ HcFinish \/ ShutdownStart \/ ShutdownFinish \/ MapFatal
  BY <1>1, <1>6, ZenonT(60) DEF HcStart, HcFinish, ShutdownStart, ShutdownFinish, MapFatal
<1>7. ASSUME NEW p \in Plugin, HcPing(p) PROVE UNCHANGED registry
  BY <1>7, ZenonT(60) DEF HcPing
<1>8. CASE HcRemove
  BY <1>0, <1>8, RemoveKeeps, ZenonT(60) DEF HcRemove
<1>9. CASE HcLoad
  BY <1>0, <1>9, Priorities, LoadKeeps, ZenonT(60) DEF HcLoad
<1>10. ASSUME NEW p \in Plugin, ShutdownPlugin(p) PROVE RegistryTyped' /\ NoGhostHook'
  BY <1>0, <1>10, RemoveKeeps, ZenonT(60) DEF ShutdownPlugin
<1> QED
  BY <1>1, <1>2, <1>3, <1>4, <1>5, <1>6, <1>7, <1>8, <1>9, <1>10, ZenonT(60)
     DEF Next, Run, HealthCheck, Shutdown

\* The state of Run keeps its types; a call is that of a plugin as RunCall ends
\* the process otherwise.
LEMMA RunStep ==
  ASSUME TypeOK, NEW r \in Request, RunStart(r) \/ Run(r)
  PROVE  RunTyped'
<1> DEFINE PC == Ended \cup {"call", "wait", "terminal"}
           Values == Seq(Plugin \cup {"args"})
<1>0. RunTyped /\ hooks \in [Priority -> Plugin \cup {None}]
  BY ZenonT(60) DEF TypeOK
<1>1. /\ pc \in [Request -> PC] /\ todo \in [Request -> SUBSET Priority]
      /\ value \in [Request -> Values] /\ outputs \in [Request -> SUBSET Action]
      /\ called \in [Request -> SUBSET Plugin]
  BY <1>0 DEF RunTyped
<1>2. /\ at \in [Request -> {0} \cup Priority]
      /\ callee \in [Request -> Plugin \cup {None}] /\ lost \in [Request -> BOOLEAN]
      /\ \A q \in Request :
           /\ pc[q] = "wait" => at[q] # 0 /\ (Running => callee[q] # None)
           /\ pc[q] # "wait" => callee[q] = None
  BY <1>0 DEF RunTyped
<1> DEFINE CallTyped ==
      /\ at' \in [Request -> {0} \cup Priority]
      /\ callee' \in [Request -> Plugin \cup {None}] /\ lost' \in [Request -> BOOLEAN]
      /\ \A q \in Request :
           /\ pc'[q] = "wait" => at'[q] # 0 /\ (Running' => callee'[q] # None)
           /\ pc'[q] # "wait" => callee'[q] = None
<1>3. ASSUME NEW w \in PC, w # "wait", pc' = [pc EXCEPT ![r] = w],
             Return(r) \/ (pc[r] # "wait" /\ UNCHANGED call), Running
      PROVE  CallTyped
  BY ONLY <1>1, <1>2, <1>3, r \in Request, ZenonT(60) DEF Return, call, Running
<1>c. ASSUME Return(r), callee[r] \in Plugin
      PROVE  called' \in [Request -> SUBSET Plugin]
  BY ONLY <1>1, <1>c, r \in Request, ZenonT(60) DEF Return
<1>4. CASE RunStart(r)
  <2>1. /\ pc' = [pc EXCEPT ![r] = "call"]
        /\ todo' = [todo EXCEPT ![r] = {i \in Priority : hooks[i] # None}]
        /\ value' = [value EXCEPT ![r] = <<"args">>]
        /\ outputs' = [outputs EXCEPT ![r] = {}]
        /\ called' = [called EXCEPT ![r] = {}]
        /\ Running /\ UNCHANGED call /\ pc[r] # "wait"
    BY <1>4 DEF RunStart, Ended
  <2>2. <<"args">> \in Values
    OBVIOUS
  <2>3. CallTyped
    BY <1>3, <2>1, ZenonT(60)
  <2> HIDE DEF Values
  <2>4. /\ pc' \in [Request -> PC] /\ todo' \in [Request -> SUBSET Priority]
        /\ value' \in [Request -> Values] /\ outputs' \in [Request -> SUBSET Action]
        /\ called' \in [Request -> SUBSET Plugin]
    BY ONLY <1>1, <2>1, <2>2
  <2> QED BY ONLY <2>3, <2>4 DEF RunTyped, Values
<1>5. CASE RunCall(r)
  <2>1. PICK i \in Priority :
          /\ Call(r, i)
          /\ crashed' = IF hooks[i] = None THEN "nil hook" ELSE crashed
    BY <1>5, ZenonT(60) DEF RunCall
  <2>2. UNCHANGED <<called, value, outputs>>
    BY <1>5, <2>1, ZenonT(60) DEF RunCall, Call
  <2>3. /\ pc' = [pc EXCEPT ![r] = "wait"]
        /\ todo' = [todo EXCEPT ![r] = @ \ {i}]
        /\ at' = [at EXCEPT ![r] = i]
        /\ callee' = [callee EXCEPT ![r] = hooks[i]]
        /\ lost' = [lost EXCEPT ![r] = hooks[i] # None /\ ~up[hooks[i]]]
        /\ (crashed' = "no" => hooks[i] # None) /\ crashed = "no"
    BY <2>1, <1>5, ZenonT(60) DEF Call, RunCall, Running
  <2>4. hooks[i] \in Plugin \cup {None} /\ i # 0
    BY <1>0, Priorities
  <2>5. CallTyped
    BY ONLY <1>1, <1>2, <2>3, <2>4, i \in Priority, r \in Request DEF Running
  <2>6. pc' \in [Request -> PC] /\ todo' \in [Request -> SUBSET Priority]
    BY ONLY <1>1, <2>3
  <2> QED BY ONLY <1>1, <2>2, <2>5, <2>6 DEF RunTyped
<1>6. CASE RunNil(r)
  <2> DEFINE v == IF value[r] = <<"args">> THEN <<>> ELSE value[r]
  <2>1. /\ pc' = [pc EXCEPT ![r] = "call"] /\ value' = [value EXCEPT ![r] = v]
        /\ UNCHANGED <<todo, outputs>> /\ Running /\ Return(r)
    BY <1>6 DEF RunNil
  <2>c. callee[r] \in Plugin
    BY <1>2, <1>6 DEF RunNil
  <2>2. v \in Values
    BY ONLY <1>1, r \in Request
  <2>3. CallTyped
    BY <1>3, <2>1, ZenonT(60)
  <2> HIDE DEF Values, v
  <2>4. pc' \in [Request -> PC] /\ value' \in [Request -> Values]
    BY ONLY <1>1, <2>1, <2>2
  <2>5. called' \in [Request -> SUBSET Plugin]
    BY <1>c, <2>1, <2>c
  <2> QED BY ONLY <1>1, <2>1, <2>3, <2>4, <2>5 DEF RunTyped, Values
<1>7. CASE RunResult(r)
  <2> DEFINE v == Append(value[r], callee[r])
  <2>1. PICK outs \in Outcomes :
          /\ pc' = [pc EXCEPT ![r] = IF IsTerminal(outs) THEN "terminal" ELSE "call"]
          /\ todo' = [todo EXCEPT ![r] = IF IsTerminal(outs) THEN {} ELSE @]
          /\ outputs' = [outputs EXCEPT ![r] =
                           @ \cup {o.name : o \in {q \in outs : q.verdict}}]
    BY <1>7, ZenonT(60) DEF RunResult
  <2>2. value' = [value EXCEPT ![r] = v] /\ Running /\ Return(r) /\ callee[r] \in Plugin
    BY <1>2, <1>7 DEF RunResult
  <2>3. v \in Values
    BY ONLY <1>1, <2>2, r \in Request
  <2>4. outputs[r] \cup {o.name : o \in {q \in outs : q.verdict}} \in SUBSET Action
    <3>1. \A o \in outs : o.name \in Action
      BY ONLY OutputsTyped, outs \in Outcomes
    <3>2. {o.name : o \in {q \in outs : q.verdict}} \subseteq Action
      BY ONLY <3>1
    <3> QED BY ONLY <1>1, <3>2, r \in Request
  <2>5. CallTyped
    BY <1>3, <2>1, <2>2, ZenonT(60)
  <2>6. pc' \in [Request -> PC] /\ todo' \in [Request -> SUBSET Priority]
    BY ONLY <1>1, <2>1
  <2>7. outputs' \in [Request -> SUBSET Action]
    BY ONLY <1>1, <2>1, <2>4
  <2> HIDE DEF Values, v
  <2>8. value' \in [Request -> Values]
    BY ONLY <1>1, <2>2, <2>3
  <2>9. called' \in [Request -> SUBSET Plugin]
    BY <1>c, <2>2
  <2> QED BY ONLY <2>5, <2>6, <2>7, <2>8, <2>9 DEF RunTyped, Values
<1>8. CASE RunAll(r)
  <2>1. PICK w \in Ended : pc' = [pc EXCEPT ![r] = w] /\ w # "wait"
    BY <1>8 DEF RunAll, TerminateEnds, Ended
  <2>2. Running /\ UNCHANGED <<todo, call, called, value, outputs>> /\ pc[r] # "wait"
    BY <1>8 DEF RunAll
  <2>3. CallTyped
    BY <1>3, <2>1, <2>2, ZenonT(60)
  <2>4. pc' \in [Request -> PC]
    BY ONLY <1>1, <2>1
  <2> QED BY ONLY <1>1, <2>2, <2>3, <2>4 DEF RunTyped
<1> QED BY <1>4, <1>5, <1>6, <1>7, <1>8 DEF Run

\* The types are preserved.
LEMMA TypeStep ==
  ASSUME TypeOK, NoGhostHook, [Next]_vars
  PROVE  TypeOK'
<1>1. CASE UNCHANGED vars
  BY <1>1, ZenonT(60) DEF vars, TypeOK, RunTyped, Running
<1>2. CASE Next
  <2>1. /\ plugins' \in [Plugin -> {0} \cup Priority]
        /\ hooks' \in [Priority -> Plugin \cup {None}]
        /\ up' \in [Plugin -> BOOLEAN] /\ failed' \in SUBSET Plugin
    BY <1>2, RegistryStep DEF RegistryTyped
  <2>2. RunTyped'
    <3>1. ASSUME UNCHANGED runVars, Running PROVE RunTyped'
      BY <3>1 DEF runVars, TypeOK, RunTyped, Running
    <3>2. ASSUME NEW p \in Plugin, CutCalls(p), crashed' = crashed,
                 UNCHANGED <<pc, todo, at, callee, called, value, outputs>>
          PROVE  RunTyped'
      BY <3>2, ZenonT(60) DEF CutCalls, TypeOK, RunTyped, Running
    <3>3. CASE Boot \/ HcStart \/ HcFinish \/ HcRemove \/ HcLoad \/ ShutdownStart
               \/ ShutdownFinish \/ MapFatal
      BY <3>1, <3>3 DEF Boot, HcStart, HcFinish, HcRemove, HcLoad, ShutdownStart,
                        ShutdownFinish, MapFatal
    <3>4. ASSUME NEW p \in Plugin, HcPing(p) PROVE RunTyped'
      BY <3>1, <3>4 DEF HcPing
    <3>5. ASSUME NEW p \in Plugin, Crash(p) \/ ShutdownPlugin(p) PROVE RunTyped'
      BY <3>2, <3>5 DEF Crash, ShutdownPlugin
    <3> QED BY <1>2, <3>3, <3>4, <3>5, RunStep DEF Next, HealthCheck, Shutdown
  <2>3. /\ booted' \in 0..Len(Order) /\ crashes' \in 0..MaxCrashes
        /\ stopped' \in {"no", "stopping", "yes"}
        /\ crashed' \in {"no", "nil hook", "map"}
    <3> USE HooksAssumption, Priorities DEF TypeOK
    <3>1. CASE Boot
      <4>1. /\ booted' = booted + 1 /\ booted < Len(Order)
            /\ UNCHANGED <<stopped, crashes, crashed>>
        BY <3>1, ZenonT(60) DEF Boot
      <4>2. /\ booted \in 0..Len(Order) /\ crashes \in 0..MaxCrashes
            /\ stopped \in {"no", "stopping", "yes"}
            /\ crashed \in {"no", "nil hook", "map"}
        BY ZenonT(60)
      <4>3. booted' \in 0..Len(Order)
        <5>1. booted' = booted + 1 /\ booted < Len(Order) /\ booted \in 0..Len(Order)
          BY ONLY <4>1, <4>2, ZenonT(60)
        <5> QED BY ONLY <5>1, Priorities
      <4> QED BY ONLY <4>1, <4>2, <4>3, ZenonT(60)
    <3>2. ASSUME NEW p \in Plugin, Crash(p) \/ HcPing(p), ~UNCHANGED crashes
          PROVE  <2>3!:
      <4>1. /\ crashes' = crashes + 1 /\ crashes < MaxCrashes
            /\ UNCHANGED <<booted, stopped, crashed>>
        BY <3>2, ZenonT(60) DEF Crash, HcPing, Mishap
      <4>2. /\ booted \in 0..Len(Order) /\ crashes \in 0..MaxCrashes
            /\ stopped \in {"no", "stopping", "yes"}
            /\ crashed \in {"no", "nil hook", "map"} /\ MaxCrashes \in Nat
        BY ZenonT(60)
      <4>3. crashes' \in 0..MaxCrashes
        <5>1. crashes' = crashes + 1 /\ crashes < MaxCrashes /\ crashes \in 0..MaxCrashes
          BY ONLY <4>1, <4>2, ZenonT(60)
        <5>2. MaxCrashes \in Nat
          BY ONLY <4>2, ZenonT(60)
        <5> QED BY ONLY <5>1, <5>2
      <4> QED BY ONLY <4>1, <4>2, <4>3, ZenonT(60)
    <3>5. ASSUME NEW p \in Plugin, Crash(p) \/ HcPing(p) \/ ShutdownPlugin(p),
                 UNCHANGED crashes
          PROVE  <2>3!:
      BY <3>5, ZenonT(60) DEF Crash, HcPing, ShutdownPlugin
    <3>6. ASSUME NEW p \in Plugin, ShutdownPlugin(p) PROVE UNCHANGED crashes
      BY <3>6, ZenonT(60) DEF ShutdownPlugin
    <3>3. ASSUME NEW r \in Request, RunStart(r) \/ Run(r) PROVE <2>3!:
      BY <3>3, ZenonT(60) DEF RunStart, Run, RunCall, RunNil, RunResult, RunAll, TerminateEnds
    <3>4. CASE HcStart \/ HcFinish \/ HcRemove \/ HcLoad \/ ShutdownStart
               \/ ShutdownFinish \/ MapFatal
      BY <3>4, ZenonT(60) DEF HcStart, HcFinish, HcRemove, HcLoad, ShutdownStart,
                  ShutdownFinish, MapFatal
    <3> QED BY <1>2, <3>1, <3>2, <3>3, <3>4, <3>5, <3>6, ZenonT(60)
            DEF Next, HealthCheck, Shutdown
  <2>4. /\ hc' \in [pc : {"idle", "ping", "remove", "load"}, todo : SUBSET Plugin,
                   plugin : Plugin \cup {None}]
        /\ hc'.pc \in {"remove", "load"} => hc'.plugin # None
    <3> USE HooksAssumption DEF TypeOK
    <3>1. CASE HcStart \/ HcFinish
      <4>1. \E S \in SUBSET Plugin, q \in {"idle", "ping"} :
              hc' = [pc |-> q, todo |-> S, plugin |-> None]
        BY <3>1, ZenonT(60) DEF HcStart, HcFinish, HcIdle, Registered
      <4> QED BY ONLY <4>1
    <3>2. ASSUME NEW p \in Plugin, HcPing(p) PROVE <2>4!:
      <4>1. hc.todo \in SUBSET Plugin
        BY ZenonT(60)
      <4>2. \/ hc' = [pc |-> "ping", todo |-> hc.todo \ {p}, plugin |-> None]
            \/ hc' = [pc |-> "remove", todo |-> hc.todo \ {p}, plugin |-> p]
        BY <3>2, ZenonT(60) DEF HcPing
      <4> QED BY ONLY <4>1, <4>2, p \in Plugin, HooksAssumption
    <3>3. CASE HcRemove
      BY <3>3, ZenonT(60) DEF HcRemove
    <3>4. CASE HcLoad
      BY <3>4, ZenonT(60) DEF HcLoad
    <3>5. CASE UNCHANGED hc
      BY <3>5, ZenonT(60)
    <3>6. ASSUME NEW r \in Request, RunStart(r) \/ Run(r) PROVE UNCHANGED hc
      BY <3>6, ZenonT(60) DEF RunStart, Run, RunCall, RunNil, RunResult, RunAll, TerminateEnds
    <3>7. ASSUME NEW p \in Plugin, Crash(p) \/ ShutdownPlugin(p) PROVE UNCHANGED hc
      BY <3>7, ZenonT(60) DEF Crash, ShutdownPlugin
    <3>8. CASE Boot \/ ShutdownStart \/ ShutdownFinish \/ MapFatal
      BY <3>5, <3>8, ZenonT(60) DEF Boot, ShutdownStart, ShutdownFinish, MapFatal
    <3> QED BY <1>2, <3>1, <3>2, <3>3, <3>4, <3>5, <3>6, <3>7, <3>8, ZenonT(60)
            DEF Next, HealthCheck, Shutdown
  <2> QED BY <2>1, <2>2, <2>3, <2>4, ZenonT(60) DEF TypeOK
<1> QED BY <1>1, <1>2

\* A step that leaves Run alone and gives no plugin a priority other than its
\* own, 0 or, once GatewayD has booted, 1.
LEMMA CallsBehindElsewhere ==
  ASSUME TypeOK, TypeOK', CallsBehind, UNCHANGED <<todo, callee, called>>,
         Booted => \A p \in Plugin : plugins'[p] \in {plugins[p], 0, 1},
         ~Booted' => ~Booted
  PROVE  CallsBehind'
<1> SUFFICES ASSUME NEW r \in Request
             PROVE  /\ \A p \in Plugin : p \in called'[r] \cup {callee'[r]} =>
                         1 \notin todo'[r] /\ \A i \in todo'[r] : plugins'[p] < i
                    /\ ~Booted' => todo'[r] = {}
  BY DEF CallsBehind
<1>1. called'[r] = called[r] /\ todo'[r] = todo[r] /\ callee'[r] = callee[r]
  OBVIOUS
<1>2. todo[r] \subseteq Priority
  BY ZenonT(60) DEF TypeOK, RunTyped
<1>3. ASSUME NEW p \in Plugin, p \in called[r] \cup {callee[r]}
      PROVE  1 \notin todo[r] /\ \A i \in todo[r] : plugins'[p] < i
  <2>1. 1 \notin todo[r] /\ \A i \in todo[r] : plugins[p] < i
    BY <1>3 DEF CallsBehind
  <2>2. CASE Booted
    BY <2>1, <2>2, <1>2, Priorities
  <2>3. CASE ~Booted
    BY <2>3 DEF CallsBehind
  <2> QED BY <2>1, <2>2, <2>3
<1> QED BY <1>1, <1>3 DEF CallsBehind

\* RunCall: the plugin called has the lowest priority ahead, so it has not been
\* called before and is behind Run from then on.
LEMMA CallStep ==
  ASSUME IInv, NEW r \in Request, RunCall(r)
  PROVE  CallsBehind' /\ CalledOnce'
<1> USE DEF IInv
<1>1. PICK i \in Priority : IsNext(i, todo[r]) /\ Call(r, i)
  BY ZenonT(60) DEF RunCall
<1>2. UNCHANGED <<booted, plugins, called>>
  BY <1>1, ZenonT(60) DEF RunCall, Call, registry
<1>3. /\ todo' = [todo EXCEPT ![r] = @ \ {i}]
      /\ callee' = [callee EXCEPT ![r] = hooks[i]]
  BY <1>1 DEF Call
<1>4. /\ todo \in [Request -> SUBSET Priority] /\ callee \in [Request -> Plugin \cup {None}]
      /\ called \in [Request -> SUBSET Plugin]
      /\ plugins \in [Plugin -> {0} \cup Priority]
      /\ hooks[i] \in Plugin \cup {None}
  BY ZenonT(60) DEF TypeOK, RunTyped
<1>6. ASSUME NEW q \in Request
      PROVE  /\ \A p \in Plugin : p \in called'[q] \cup {callee'[q]} =>
                  1 \notin todo'[q] /\ \A j \in todo'[q] : plugins'[p] < j
             /\ callee'[q] \notin called'[q]
             /\ ~Booted' => todo'[q] = {}
  <2>1. called' = called /\ Booted' = Booted /\ plugins' = plugins
    BY <1>2 DEF Booted
  <2>2. CASE q # r
    <3>1. todo'[q] = todo[q] /\ callee'[q] = callee[q]
      BY <2>2, <1>3, <1>4
    <3> QED BY <3>1, <2>1 DEF CallsBehind, CalledOnce
  <2>3. CASE q = r
    <3>1. todo'[r] = todo[r] \ {i} /\ callee'[r] = hooks[i]
      BY <1>3, <1>4
    <3>2. i \in todo[r] /\ todo[r] \subseteq Nat /\ \A j \in todo[r] : i <= j
      BY <1>1, <1>4, Priorities DEF IsNext
    <3>3. 1 \notin todo'[r] /\ \A j \in todo'[r] : i < j
      BY <3>1, <3>2, Priorities
    <3>4. hooks[i] # None => plugins[hooks[i]] = i
      BY DEF NoGhostHook
    <3>5. hooks[i] \notin called[r]
      <4>1. CASE hooks[i] = None
        BY <4>1, <1>4, HooksAssumption
      <4>2. CASE hooks[i] # None
        <5>1. hooks[i] \in Plugin /\ i \in Nat
          BY <4>2, <1>4, Priorities
        <5>2. hooks[i] \in called[r] => plugins[hooks[i]] < i
          BY <5>1, <3>2 DEF CallsBehind
        <5> QED BY <4>2, <5>1, <5>2, <3>4
      <4> QED BY <4>1, <4>2
    <3>6. ASSUME NEW p \in Plugin, p \in called[r] \cup {hooks[i]}, NEW j \in todo'[r]
          PROVE  plugins[p] < j
      <4>1. CASE p = hooks[i]
        BY <4>1, <3>3, <3>4, HooksAssumption
      <4>2. CASE p \in called[r]
        BY <4>2, <3>1 DEF CallsBehind
      <4> QED BY <3>6, <4>1, <4>2
    <3>7. ~Booted => todo'[r] = {}
      BY <3>1 DEF CallsBehind
    <3> QED BY <2>1, <2>3, <3>1, <3>3, <3>5, <3>6, <3>7
  <2> QED BY <2>2, <2>3
<1> QED BY <1>6 DEF CallsBehind, CalledOnce

\* The other steps of Run: the plugin whose call has ended is moved to the ones
\* called, and nothing else is added to them.
LEMMA ResultStep ==
  ASSUME IInv, NEW r \in Request, RunStart(r) \/ RunNil(r) \/ RunResult(r) \/ RunAll(r)
  PROVE  CallsBehind' /\ CalledOnce'
<1> USE DEF IInv
<1>1. /\ todo \in [Request -> SUBSET Priority] /\ callee \in [Request -> Plugin \cup {None}]
      /\ called \in [Request -> SUBSET Plugin]
      /\ (pc[r] # "wait" => callee[r] = None)
      /\ (Running /\ pc[r] = "wait" => callee[r] # None)
  BY ZenonT(60) DEF TypeOK, RunTyped
<1>2. UNCHANGED <<booted, plugins>>
  BY DEF RunStart, RunNil, RunResult, RunAll, registry
<1>3. ASSUME NEW q \in Request, q # r
      PROVE  todo'[q] = todo[q] /\ callee'[q] = callee[q] /\ called'[q] = called[q]
  BY <1>1, <1>3 DEF RunStart, RunNil, RunResult, RunAll, Return, call
<1> DEFINE Kept(q) ==
      /\ \A p \in Plugin : p \in called'[q] \cup {callee'[q]} =>
           1 \notin todo'[q] /\ \A j \in todo'[q] : plugins'[p] < j
      /\ callee'[q] \notin called'[q]
      /\ ~Booted' => todo'[q] = {}
<1>4. ASSUME NEW q \in Request, todo'[q] \in {todo[q], {}}, callee'[q] \notin called'[q],
             \A p \in Plugin : p \in called'[q] \cup {callee'[q]} =>
               p \in called[q] \cup {callee[q]}
      PROVE  Kept(q)
  BY <1>4, <1>2, ZenonT(60) DEF CallsBehind, Booted
<1>5. ASSUME NEW q \in Request, q # r PROVE Kept(q)
  <2>1. todo'[q] = todo[q] /\ callee'[q] = callee[q] /\ called'[q] = called[q]
    BY <1>5, <1>3
  <2>2. callee'[q] \notin called'[q]
    BY <2>1 DEF CalledOnce
  <2> HIDE DEF Kept
  <2> QED BY <2>1, <2>2, <1>4
<1>6. None \notin Plugin
  BY HooksAssumption
<1>7. ASSUME RunStart(r) PROVE Kept(r)
  <2>1. called'[r] = {} /\ callee'[r] = None /\ Booted
    BY <1>7, <1>1 DEF RunStart, call, Ended
  <2> QED BY <2>1, <1>2, <1>6 DEF Booted
<1>8. ASSUME RunNil(r) \/ RunResult(r) PROVE Kept(r)
  <2>1. Return(r) /\ callee[r] \in Plugin
    BY <1>8, <1>1 DEF RunNil, RunResult
  <2>2. called'[r] = called[r] \cup {callee[r]} /\ callee'[r] = None
    BY <1>1, <2>1 DEF Return
  <2>3. todo'[r] \in {todo[r], {}}
    <3>1. CASE RunNil(r)
      BY <3>1 DEF RunNil
    <3>2. CASE RunResult(r)
      <4>1. PICK outs \in Outcomes :
              todo' = [todo EXCEPT ![r] = IF IsTerminal(outs) THEN {} ELSE @]
        BY <3>2, ZenonT(60) DEF RunResult
      <4> QED BY ONLY <1>1, <4>1, r \in Request
    <3> QED BY <1>8, <3>1, <3>2
  <2>4. called[r] \subseteq Plugin
    BY <1>1
  <2>5. None \notin called'[r]
    BY <1>6, <2>1, <2>2, <2>4
  <2> HIDE DEF Kept
  <2> QED BY <2>2, <2>3, <2>5, <1>4, <1>6
<1>9. ASSUME RunAll(r) PROVE Kept(r)
  <2>1. todo'[r] = todo[r] /\ callee'[r] = callee[r] /\ called'[r] = called[r]
    BY <1>9 DEF RunAll, call
  <2>2. callee'[r] \notin called'[r]
    BY <2>1 DEF CalledOnce
  <2> HIDE DEF Kept
  <2> QED BY <2>1, <2>2, <1>4
<1>10. \A q \in Request : Kept(q)
  <2> HIDE DEF Kept
  <2> QED BY <1>5, <1>7, <1>8, <1>9
<1> QED BY <1>10 DEF CallsBehind, CalledOnce

\* No step makes Run call a plugin a second time.
LEMMA CallsStep ==
  ASSUME IInv, TypeOK', [Next]_vars
  PROVE  CallsBehind' /\ CalledOnce'
<1> USE DEF IInv
<1>1. ASSUME UNCHANGED <<booted, todo, callee, called>>,
             \A p \in Plugin : plugins'[p] \in {plugins[p], 0, 1}
      PROVE  CallsBehind' /\ CalledOnce'
  BY <1>1, CallsBehindElsewhere DEF CalledOnce, Booted
<1>2. RegistryTyped
  BY ZenonT(60) DEF TypeOK, RegistryTyped
<1>3. CASE UNCHANGED vars
  BY <1>1, <1>3 DEF vars
<1>4. CASE Boot
  <2>1. UNCHANGED <<todo, callee, called>> /\ booted < Len(Order)
    BY <1>4 DEF Boot, runVars
  <2>2. ~Booted
    <3>1. booted \in 0..Len(Order)
      BY ZenonT(60) DEF TypeOK
    <3> QED BY ONLY <2>1, <3>1, Priorities DEF Booted
  <2> QED BY <2>1, <2>2, CallsBehindElsewhere DEF CalledOnce
<1>5. ASSUME NEW p \in Plugin, Crash(p) PROVE CallsBehind' /\ CalledOnce'
  BY <1>1, <1>5 DEF Crash
<1>6. ASSUME NEW p \in Plugin, HcPing(p) PROVE CallsBehind' /\ CalledOnce'
  BY <1>1, <1>6 DEF HcPing, runVars, registry
<1>7. CASE HcStart \/ HcFinish \/ ShutdownStart \/ ShutdownFinish \/ MapFatal
  BY <1>1, <1>7 DEF HcStart, HcFinish, ShutdownStart, ShutdownFinish, MapFatal,
                    runVars, registry
<1>8. CASE HcRemove
  <2>1. /\ UNCHANGED <<booted, todo, callee, called>>
        /\ Remove(hc.plugin) /\ hc.plugin \in Plugin
    BY <1>8, ZenonT(60) DEF HcRemove, runVars, TypeOK
  <2>2. \A p \in Plugin : plugins'[p] \in {plugins[p], 0, 1}
    BY <2>1, <1>2, RemoveKeeps
  <2> QED BY <1>1, <2>1, <2>2
<1>9. CASE HcLoad
  <2>1. /\ UNCHANGED <<booted, todo, callee, called>>
        /\ LoadPlugin(hc.plugin, 1, "restart") /\ hc.plugin \in Plugin
    BY <1>9, ZenonT(60) DEF HcLoad, runVars, TypeOK
  <2>2. \A p \in Plugin : plugins'[p] \in {plugins[p], 0, 1}
    BY <2>1, <1>2, LoadKeeps, Priorities
  <2> QED BY <1>1, <2>1, <2>2
<1>10. ASSUME NEW p \in Plugin, ShutdownPlugin(p) PROVE CallsBehind' /\ CalledOnce'
  <2>1. UNCHANGED <<booted, todo, callee, called>> /\ Remove(p)
    BY <1>10 DEF ShutdownPlugin
  <2>2. \A q \in Plugin : plugins'[q] \in {plugins[q], 0, 1}
    BY <2>1, <1>2, RemoveKeeps
  <2> QED BY <1>1, <2>1, <2>2
<1> QED
  BY <1>3, <1>4, <1>5, <1>6, <1>7, <1>8, <1>9, <1>10, CallStep, ResultStep
     DEF Next, Run, HealthCheck, Shutdown

\* A hook's outputs with a true verdict are terminal exactly when one of them is
\* the terminate action, and then Run stops.
LEMMA VerdictStep ==
  ASSUME IInv, [Next]_vars
  PROVE  VerdictDecides' /\ VerdictSoFar'
<1> USE DEF IInv, VerdictDecides, VerdictSoFar
<1>1. /\ pc \in [Request -> Ended \cup {"call", "wait", "terminal"}]
      /\ outputs \in [Request -> SUBSET Action]
  BY ZenonT(60) DEF TypeOK, RunTyped
<1>2. CASE UNCHANGED <<pc, outputs>>
  BY <1>2
<1>3. ASSUME NEW r \in Request, RunStart(r) \/ RunCall(r) \/ RunNil(r) \/ RunAll(r)
      PROVE  VerdictDecides' /\ VerdictSoFar'
  <2>1. CASE RunStart(r)
    BY <1>1, <2>1 DEF RunStart
  <2>2. CASE RunCall(r) \/ RunNil(r)
    <3>1. /\ pc[r] \in {"call", "wait"} /\ outputs' = outputs
          /\ \E w \in {"call", "wait"} : pc' = [pc EXCEPT ![r] = w]
      BY <2>2, ZenonT(60) DEF RunCall, Call, RunNil
    <3> QED BY <1>1, <3>1
  <2>3. CASE RunAll(r)
    BY <1>1, <2>3, ZenonT(60) DEF RunAll, TerminateEnds
  <2> QED BY <1>3, <2>1, <2>2, <2>3
<1>4. ASSUME NEW r \in Request, RunResult(r) PROVE VerdictDecides' /\ VerdictSoFar'
  <2>1. PICK outs \in Outcomes :
          /\ pc' = [pc EXCEPT ![r] = IF IsTerminal(outs) THEN "terminal" ELSE "call"]
          /\ outputs' = [outputs EXCEPT ![r] =
                           @ \cup {o.name : o \in {q \in outs : q.verdict}}]
    BY <1>4, ZenonT(60) DEF RunResult
  <2>2. IsTerminal(outs) <=> "terminate" \in {o.name : o \in {q \in outs : q.verdict}}
    BY DEF IsTerminal, Terminal
  <2>3. "terminate" \notin outputs[r]
    BY <1>4 DEF RunResult
  <2>4. /\ pc'[r] = (IF IsTerminal(outs) THEN "terminal" ELSE "call")
        /\ "terminate" \in outputs'[r] <=> IsTerminal(outs)
    BY <1>1, <2>1, <2>2, <2>3
  <2>5. \A q \in Request : q # r => pc'[q] = pc[q] /\ outputs'[q] = outputs[q]
    BY <1>1, <2>1
  <2> QED BY <2>4, <2>5
<1>5. CASE UNCHANGED vars
  BY <1>2, <1>5 DEF vars
<1>6. ASSUME NEW p \in Plugin, Crash(p) \/ HcPing(p) \/ ShutdownPlugin(p)
      PROVE  UNCHANGED <<pc, outputs>>
  BY <1>6 DEF Crash, HcPing, ShutdownPlugin, runVars
<1>7. CASE Boot \/ HcStart \/ HcFinish \/ HcRemove \/ HcLoad \/ ShutdownStart
           \/ ShutdownFinish \/ MapFatal
  BY <1>2, <1>7 DEF Boot, HcStart, HcFinish, HcRemove, HcLoad, ShutdownStart,
                    ShutdownFinish, MapFatal, runVars
<1> QED
  BY <1>2, <1>3, <1>4, <1>5, <1>6, <1>7 DEF Next, Run, HealthCheck, Shutdown

\* The inductive invariant of the registry and of Run holds of every reachable
\* state, whatever crashes, fails to start, is reloaded or is answered: the
\* types, no hook without its plugin, and no plugin that Run has called ahead
\* of it.
THEOREM Inductive == Spec => []IInv
<1>1. IInv /\ [Next]_vars => IInv'
  <2> SUFFICES ASSUME IInv, [Next]_vars PROVE IInv'
    OBVIOUS
  <2>1. TypeOK'
    BY TypeStep DEF IInv
  <2>2. NoGhostHook'
    <3>1. CASE Next
      BY <3>1, RegistryStep DEF IInv
    <3>2. CASE UNCHANGED vars
      BY <3>2 DEF vars, IInv, NoGhostHook
    <3> QED BY <3>1, <3>2
  <2>3. CallsBehind' /\ CalledOnce'
    BY <2>1, CallsStep
  <2>4. VerdictDecides' /\ VerdictSoFar'
    BY VerdictStep
  <2> QED BY <2>1, <2>2, <2>3, <2>4 DEF IInv
<1> QED BY <1>1, InitIInv, PTL DEF Spec

-----------------------------------------------------------------------------
(* The results.                                                            *)

\* No method of a removed plugin stays in the map of hooks, for every list of
\* plugins and any interleaving of requests, reloads and Shutdown.
THEOREM NoGhosts == Spec => []NoGhostHook
<1>1. IInv => NoGhostHook
  BY DEF IInv
<1> QED BY <1>1, Inductive, PTL

\* Run never calls a plugin twice for one request, not even after a call that
\* failed, although the health check may give the plugin a new priority while
\* Run is under way.
THEOREM OneCall == Spec => []CalledOnce
<1>1. IInv => CalledOnce
  BY DEF IInv
<1> QED BY <1>1, Inductive, PTL

\* Whether traffic is forwarded is decided by the terminate signals that a
\* policy let pass, for every default policy and every set of signals.
THEOREM Verdicts == Spec => []VerdictDecides
<1>1. IInv => VerdictDecides
  BY DEF IInv
<1> QED BY <1>1, Inductive, PTL
=============================================================================
