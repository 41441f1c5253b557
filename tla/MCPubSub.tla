------------------------------ MODULE MCPubSub ------------------------------
(* Two modules for TLC: r1 subscribes to a topic, r2 to every topic, the       *)
(* library's own included, with low priority.                                 *)
EXTENDS PubSub

CONSTANTS r1, r2

MCMods == {r1, r2}
MCTopics == {"t", "sys"}
MCPatterns == {"t", "any"}
MCMatch == {<<"t", "t">>, <<"any", "t">>, <<"any", "sys">>}

InitialSub(pat, prio) == [pat |-> pat, prio |-> prio, oneshot |-> FALSE, gen |-> 0]
MCSubscribed == [m \in MCMods |-> IF m = r1 THEN {InitialSub("t", "NORM")}
                                            ELSE {InitialSub("any", "LOW")}]

MCOffers == {<<"t", "HIGH", TRUE>>}

(* r1 subscribes, batches by size and stashes; r2 batches by time, and is        *)
(* paused and stopped.                                                       *)
AllOps == (r1 :> {"subscribe", "unsubscribe", "stash", "unstash", "batch", "tell",
                  "poisonpill"})
       @@ (r2 :> {"timeout", "start", "stop", "pause", "resume"})
       @@ (NoMod :> {"publish", "broadcast", "quit", "loop", "tick"})

(* For the disagreement about the poison pill.                                *)
PillOps == [m \in MCMods \cup {NoMod} |-> IF m = NoMod THEN {"publish"}
                                         ELSE {"tell", "poisonpill", "pause", "resume"}]
=============================================================================
