------------------------------ MODULE MCWatcher ------------------------------
(* Small chains for TLC: where the logs fall, and what the environment does. *)
EXTENDS Watcher

OneLog == <<1>>
TwoInOneBlock == <<1, 1>>
OneAndThree == <<1, 3>>
OneEachOfTwo == <<1, 2>>
SharedThenTwo == <<1, 1, 2, 3>>

(* All of them; a kill is a shutdown that exits at once. *)
ShutdownForKill == Hardships \ {"crash"}
PollAndCrash == {"crash"}
PollAndShutdown == {"shutdown"}
PollStopReorg == {"crash", "shutdown", "reorg"}
Subscribed == {"subscribe"}
SubscribedReorg == {"subscribe", "reorg"}
=============================================================================
