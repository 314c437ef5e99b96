------------------------ MODULE MCToolAuthorization ------------------------
(* A small instance of ToolAuthorization: two services, one of two tools,  *)
(* a profile that may be absent, curated or not, another that is curated,  *)
(* a third that has the name of the built-in view and may be absent.       *)
EXTENDS ToolAuthorization, TLC

CONSTANTS t1, t2, t3, a, b, ops, support, discover

ThreeTools == {t1, t2, t3}
TwoServices == {a, b}
TwoOfA == [t \in Tools |-> IF t = t3 THEN b ELSE a]
ThreeProfiles == {ops, support, discover}

Only1 == [hasAllow |-> TRUE, allow |-> {t1}, denyAll |-> TRUE, deny |-> {}]
Not2 == [hasAllow |-> FALSE, allow |-> {}, denyAll |-> FALSE, deny |-> {t2}]
None == [hasAllow |-> FALSE, allow |-> {}, denyAll |-> TRUE, deny |-> {}]

OpsProfiles == {Nothing} \cup [mode : Modes, toolSet : {Only1, Not2, None}]
Support == [mode |-> "curated", toolSet |-> Only1]
Hidden == [mode |-> "", toolSet |-> Not2]
DenyRules == {[managed |-> {}, all |-> {}], [managed |-> {t2}, all |-> {t2, t3}]}

SmallConfigs ==
  {[authEnabled |-> auth, defaultMode |-> mode, defaultProfile |-> default,
    profiles |-> (ops :> profile @@ support :> Support @@ discover :> named),
    managedDeny |-> rules.managed, deny |-> rules.all, approval |-> {t1}] :
      auth \in BOOLEAN, mode \in {"discover", "curated"},
      default \in {support, discover, Nothing}, profile \in OpsProfiles,
      named \in {Nothing, Hidden}, rules \in DenyRules}

SmallTokens ==
  [bundles : {{}, {a}}, profiles : SUBSET {ops}, tools : {{}, {t1}, {t1, t3}}]
=============================================================================
