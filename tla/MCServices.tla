----------------------------- MODULE MCServices -----------------------------
(***************************************************************************)
(* Parts of bhai that do not touch each other, each checked by itself in   *)
(* one run: world says which part moves, and the others rest where they    *)
(* start.                                                                  *)
(***************************************************************************)
EXTENDS WorkflowRun, Monitors, HookRuns, ModelCalls, Daemon

VARIABLE world
servicesVars == <<world, vars, monitorVars, hookVars, callVars, daemonVars, tunnelVars>>

\* Workflows: a fan-out between a list and a gate, a chain that is cached and edited,
\* steps side by side, and a cycle.
Plain == [needs |-> {}, over |-> 0, reads |-> "none", when |-> 0, equal |-> TRUE,
          json |-> FALSE, stop |-> TRUE, version |-> 1]
Needing(ids) == [Plain EXCEPT !.needs = ids]
File(steps, parallel, budget, cache) ==
    [steps |-> steps, parallel |-> parallel, fanout |-> 2, budget |-> budget, cache |-> cache]

Chain(version) ==
    File(<<[Plain EXCEPT !.version = version, !.reads = "input"], Needing({1}),
           [Needing({2}) EXCEPT !.reads = IF version = 2 THEN "whole" ELSE "none", !.when = 2]>>,
         1, 9, TRUE)
Fan == File(<<Plain, [Plain EXCEPT !.over = 1, !.stop = FALSE],
              [Needing({2}) EXCEPT !.json = TRUE, !.stop = FALSE],
              [Needing({3}) EXCEPT !.reads = "field", !.when = 3, !.equal = FALSE]>>, 2, 7, FALSE)
Wide == File(<<Plain, [Plain EXCEPT !.stop = FALSE], Plain, Plain, Needing({1, 2})>>,
             2, 6, FALSE)
Cycle == File(<<Needing({2}), Needing({1}), Plain>>, 1, 9, FALSE)
FilesDef == {Chain(1), Chain(2), Fan, Wide, Cycle}

\* The user's hook files, the sessions of a daemon, and the hooks of an observer.
HookFilesDef == {<<>>, <<"lingers", "http">>, <<"exits", "exits">>}
FreshDef == <<"n1", "n2">>
HooksOfDef(m) == <<[sustained |-> 1, cooldown |-> 3, repeat |-> FALSE],
                   [sustained |-> 0, cooldown |-> 1, repeat |-> TRUE]>>

\* Where a part rests.
FlowRests == Init /\ file = Chain(1)
HooksRest == HookInit /\ trusted /\ \A w \in DOMAIN files : files[w] = <<>>
CallsRest == CallInit /\ ~guard.strict
TunnelRests ==
    /\ network = TRUE /\ outages = 0 /\ ssh = "none" /\ keeper = "closed"
    /\ shows = "Starting" /\ first = "failed"

ServicesInit ==
    \/ /\ world = "workflow" /\ Init
       /\ MonitorInit /\ HooksRest /\ CallsRest /\ DaemonInit /\ TunnelRests
    \/ /\ world = "monitors" /\ MonitorInit
       /\ FlowRests /\ HooksRest /\ CallsRest /\ DaemonInit /\ TunnelRests
    \/ /\ world = "hooks" /\ HookInit
       /\ FlowRests /\ MonitorInit /\ CallsRest /\ DaemonInit /\ TunnelRests
    \/ /\ world = "calls" /\ CallInit
       /\ FlowRests /\ MonitorInit /\ HooksRest /\ DaemonInit /\ TunnelRests
    \/ /\ world = "daemon" /\ DaemonInit
       /\ FlowRests /\ MonitorInit /\ HooksRest /\ CallsRest /\ TunnelRests
    \/ /\ world = "tunnel" /\ TunnelInit
       /\ FlowRests /\ MonitorInit /\ HooksRest /\ CallsRest /\ DaemonInit

ServicesNext ==
    /\ UNCHANGED world
    /\ \/ /\ world = "workflow" /\ Next
          /\ UNCHANGED <<monitorVars, hookVars, callVars, daemonVars, tunnelVars>>
       \/ /\ world = "monitors" /\ MonitorNext
          /\ UNCHANGED <<vars, hookVars, callVars, daemonVars, tunnelVars>>
       \/ /\ world = "hooks" /\ HookNext
          /\ UNCHANGED <<vars, monitorVars, callVars, daemonVars, tunnelVars>>
       \/ /\ world = "calls" /\ CallNext
          /\ UNCHANGED <<vars, monitorVars, hookVars, daemonVars, tunnelVars>>
       \/ /\ world = "daemon" /\ DaemonNext
          /\ UNCHANGED <<vars, monitorVars, hookVars, callVars, tunnelVars>>
       \/ /\ world = "tunnel" /\ TunnelNext
          /\ UNCHANGED <<vars, monitorVars, hookVars, callVars, daemonVars>>

\* Nothing is asked of a part that rests: no action its fairness names is enabled there.
ServicesSpec ==
    /\ ServicesInit /\ [][ServicesNext]_servicesVars
    /\ Fairness /\ MonitorFairness /\ HookFairness /\ CallFairness /\ DaemonFairness
    /\ TunnelFairness

\* A session's observers wake it as their hooks say, the last sample's included.
ObserversTell == HookWakes /\ EndIsTold
\* Calls of the model are answered whole, and end but for what a backend may do to them.
CallsKept == CallsWhole /\ CallEnds /\ StopEndsCall
\* The sessions of a daemon, and the tunnel an attach reaches one through.
SessionsReached == DaemonKept /\ TunnelKept
=============================================================================
