-------------------------------- MODULE Ledger --------------------------------
(***************************************************************************)
(* What the watcher promises to the rest of the program, with no polls,    *)
(* cursors and restarts in sight: the effect of a log comes about once at  *)
(* most, only when the log is on the chain to stay, and never after the    *)
(* effect of a later log.                                                  *)
(*                                                                         *)
(* Watcher is shown to implement this specification when it only polls.    *)
(***************************************************************************)
EXTENDS Naturals

CONSTANT Log    \* the logs, numbers in chain order

VARIABLES
    chain,      \* the logs on the chain
    final,      \* those with the confirmations asked for
    gone,       \* the logs a reorganisation has removed
    effects     \* [Log -> the times its effect came about]

ledgerVars == <<chain, final, gone, effects>>

Init ==
    /\ chain = {} /\ final = {} /\ gone = {}
    /\ effects = [l \in Log |-> 0]

(* The chain grows, by logs or only by blocks. *)
Grow ==
    /\ chain \subseteq chain' /\ chain' \subseteq Log \ gone
    /\ final \subseteq final' /\ final' \subseteq chain'
    /\ UNCHANGED <<gone, effects>>

(* A log that is not final may be dropped, and is not seen again. *)
Drop(l) ==
    /\ l \in chain \ final
    /\ chain' = chain \ {l} /\ gone' = gone \cup {l}
    /\ UNCHANGED <<final, effects>>

Apply(l) ==
    /\ l \in final
    /\ \A k \in Log : k >= l => effects[k] = 0
    /\ effects' = [effects EXCEPT ![l] = 1]
    /\ UNCHANGED <<chain, final, gone>>

Next ==
    \/ Grow
    \/ \E l \in Log : Drop(l) \/ Apply(l)

Spec == Init /\ [][Next]_ledgerVars
=============================================================================
