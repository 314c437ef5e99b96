----------------------------- MODULE MCRemoteCall -----------------------------
(* Two tool calls of one runtime, and a client, over a document whose      *)
(* alternatives need keys, two kinds of OAuth token or both.               *)
EXTENDS RemoteCall

Users == {"call1", "call2"}
Everyone == Users \cup {"cli"}
Processes == [c \in Everyone |-> IF c = "cli" THEN "client" ELSE "runtime"]
Discovery == [i \in {"issuer"} |-> [authURL |-> "authorize", tokenURL |-> "token"]]

Scheme(type, target) == [type |-> type, target |-> target, flows |-> << >>, oidc |-> ""]
Flows == << [mode |-> "authorizationCode", authURL |-> "authorize", tokenURL |-> "token"] >>
AllSchemes ==
  [s \in {"key", "basic", "bearer", "oauth", "machine", "lost"} |->
     CASE s = "key" -> Scheme("apiKey", <<"header", "X-Key">>)
       [] s = "oauth" -> [Scheme("oauth2", << >>) EXCEPT !.flows = Flows]
       [] s = "machine" -> [Scheme("openIdConnect", << >>) EXCEPT !.oidc = "issuer"]
       [] s = "lost" -> Scheme("apiKey", <<"query", "key">>)
       [] OTHER -> Scheme(s, << >>)]

OAuth(mode, storage, redirect) ==
  [type |-> "oauth2", mode |-> mode, scopes |-> {}, audience |-> "", storage |-> storage,
   tokenURL |-> "", authURL |-> "", issuer |-> "", client |-> "id", redirect |-> redirect]
Static(value) == [type |-> "static", value |-> value]
AllSecrets ==
  [k \in {<<"key">>, <<"basic">>, <<"bearer">>, <<"svc", "oauth">>, <<"machine">>} |->
     CASE k = <<"svc", "oauth">> -> OAuth("authorizationCode", "instance", "8080")
       [] k = <<"machine">> -> OAuth("clientCredentials", "memory", "auto")
       [] OTHER -> Static(k[1])]

Item(names, scopes) == [n \in names |-> scopes]
Operation(security) == [service |-> "svc", security |-> security]
AllOperations ==
  {Operation(<<Item({"oauth"}, {"read"}), Item({"key"}, {})>>),
   Operation(<<Item({"key", "oauth"}, {"read"}), Item({"key", "machine"}, {"read"})>>),
   Operation(<<Item({"oauth"}, {"write"}), Item({"machine", "lost"}, {"write"})>>),
   Operation(<<Item({"basic", "bearer"}, {}), Item({"unknown"}, {}), Item({"bearer"}, {})>>),
   Operation(<<Item({"key", "lost"}, {}), Item({"basic"}, {})>>)}

AllRemotes == [mode : {"providedToken", "oauthClient", "browserLogin"}, delegated : BOOLEAN]
Flow(port) ==
  [OAuth("authorizationCode", "instance", port) EXCEPT !.authURL = "authorize", !.tokenURL = "token",
                                                       !.audience = "runtime"]
AllFlows == {Flow("auto")}
=============================================================================
