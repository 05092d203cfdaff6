------------------------------ MODULE MCPlatform ------------------------------
(* Tenancy, Accounts, Gateway, Vault and Alerts for TLC. They share no          *)
(* variable, so a behaviour runs one of them.                                   *)
EXTENDS MCAccess, Gateway, Vault, Alerts

CONSTANTS f, g

VARIABLE service

Rule(event, workflow, cooldown) ==
  [event |-> event, workflow |-> workflow, cooldown |-> cooldown, threshold |-> 1]
SomeRules == {Rule("EXECUTION_FAILED", f, 0), Rule("CONSECUTIVE_FAILURES", Anything, 1)}

accessVars == <<vars, accountVars, part>>
PlatformInit ==
  /\ AccessInit /\ GatewayInit /\ VaultInit /\ AlertsInit
  /\ \/ service = "access" /\ rules = {}
     \/ service \in {"gateway", "vault"} /\ rules = {} /\ part = "account"
     \/ service = "alerts" /\ part = "account"

PlatformNext ==
  /\ UNCHANGED service
  /\ \/ service = "access" /\ AccessNext /\ UNCHANGED <<gatewayVars, vaultVars, alertVars>>
     \/ service = "gateway" /\ GatewayNext /\ UNCHANGED <<accessVars, vaultVars, alertVars>>
     \/ service = "vault" /\ VaultNext /\ UNCHANGED <<accessVars, gatewayVars, alertVars>>
     \/ service = "alerts" /\ AlertsNext /\ UNCHANGED <<accessVars, gatewayVars, vaultVars>>

PlatformSpec ==
  PlatformInit /\ [][PlatformNext]_<<accessVars, gatewayVars, vaultVars, alertVars, service>>
=============================================================================
