------------------------------- MODULE MCReach -------------------------------
(***************************************************************************)
(* The two ways the appliance reaches a device it does not run itself: the *)
(* tunnel of a desktop and the adb server of a handset. They share no      *)
(* state, so every behaviour has one of them that moves while the other    *)
(* stays as it is initially.                                               *)
(***************************************************************************)
EXTENDS RunnerHub, DeviceWatch

VARIABLE focus   \* the part that moves

reachVars == <<vars, watchVars, focus>>

ReachInit ==
    /\ focus \in {"hub", "watch"}
    \* the one initial state of the watch when it does not move
    /\ \/ focus = "watch"
       \/ /\ focus = "hub" /\ link = [h \in Handsets |-> "absent"]
          /\ size = [h \in Handsets |-> CHOOSE s \in Sizes : TRUE]
    /\ Init /\ WatchInit

ReachNext ==
    \/ focus = "hub" /\ Next /\ UNCHANGED <<watchVars, focus>>
    \/ focus = "watch" /\ WatchNext /\ UNCHANGED <<vars, focus>>

ReachSpec == ReachInit /\ [][ReachNext]_reachVars /\ Fairness /\ WatchFairness

-----------------------------------------------------------------------------

\* The state of both stays within its type.
ReachTypeOK == TypeOK /\ WatchTypeOK

=============================================================================
