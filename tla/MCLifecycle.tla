---------------------------- MODULE MCLifecycle ----------------------------
(* Small contexts for TLC.                                                  *)
EXTENDS Lifecycle

CONSTANTS m1, m2, m3

(* m3 has the name of m2, which may be replaced.                            *)
MCMods == {m1, m2, m3}
MCName == [m \in MCMods |-> IF m = m1 THEN "a" ELSE "b"]
MCFlags == [m \in MCMods |-> IF m = m2 THEN {"ALLOW_REPLACE"}
                             ELSE IF m = m3 THEN {"PERSIST", "DENY_CTX"} ELSE {}]

MCStartups == {{}, {m1, m2}}

(* Everything may be called from everywhere, except a loop inside the loop.  *)
AllOps == [w \in Where |-> IF w = "main" THEN OpName
                           ELSE OpName \ {"loop", "dispatch"}]

(* For the disagreement about m_ctx_deregister: the main program only calls   *)
(* that, the modules' hooks do nothing.                                       *)
TwoModules == {{m1, m2}}
CtxDeregisterOnly == [w \in Where |-> IF w = "main" THEN {"ctx_deregister"} ELSE {}]
=============================================================================
