------------------------------ MODULE RemoteCall ------------------------------
(***************************************************************************)
(* The two sides that get tokens by the code of OAuthTokens: tool calls in *)
(* a runtime, and the runs of a client.  They have directories and memory  *)
(* of their own, so that a behaviour is one of the one side or the other.  *)
(***************************************************************************)
EXTENDS ToolCredentials, ClientSession

ASSUME CliIsNoToolCall == Cli \notin ToolCalls

VARIABLE side  \* "runtime" or "client"

vars == <<side, oauthVars, credentialVars, sessionVars>>

Init ==
  /\ OAuthInit /\ CredentialInit /\ SessionInit /\ side \in {"runtime", "client"}
  /\ side = "runtime" => remote = CHOOSE r \in Remotes : TRUE  \* unused

Runtime ==
  /\ side = "runtime"
  /\ \/ (\E c \in ToolCalls : CredentialStep(c)) /\ UNCHANGED sessionVars
     \/ (\E c \in ToolCalls : OAuthStep(c)) /\ UNCHANGED <<credentialVars, sessionVars>>
     \/ (RuntimeExits \/ SessionClose) /\ UNCHANGED sessionVars
Client ==
  /\ side = "client"
  /\ \/ SessionStep /\ UNCHANGED credentialVars
     \/ OAuthStep(Cli) /\ UNCHANGED <<credentialVars, sessionVars>>

Time == (\E t \in DOMAIN issued : Lapse(t)) /\ UNCHANGED <<credentialVars, sessionVars>>

Next == (Runtime \/ Client \/ Time) /\ UNCHANGED side

Spec == Init /\ [][Next]_vars
=============================================================================
