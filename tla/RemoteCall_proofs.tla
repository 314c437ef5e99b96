--------------------------- MODULE RemoteCall_proofs ---------------------------
(***************************************************************************)
(* Proofs about RemoteCall and the modules it composes, for any callers,   *)
(* documents, schemes, secrets and operations.                             *)
(*                                                                         *)
(* Three invariants, each on the state of one module: OAuthInv, that every *)
(* token in a cache, in a file or in a call under way is the one its key   *)
(* asks for; CallInv, what a tool call knows of the alternatives it has    *)
(* tried and of the plan it is putting together; SessionInv, where a run   *)
(* of the client got the token that it sends.                              *)
(***************************************************************************)
EXTENDS RemoteCall, WellFoundedInduction, TLAPS

-----------------------------------------------------------------------------
(* Tokens.                                                                 *)

JobFields ==
  {"pc", "dir", "provider", "secret", "requirement", "interactive", "urls", "token"}
HoldsToken == {"store", "write", "unlinked", "done"}

(* The token request behind a cache key.                                   *)
FormOf(k) == [grant |-> k[2], endpoint |-> k[3].token, client |-> k[6], scopes |-> k[8],
              audience |-> k[9]]

Fits(t, form) == t \in DOMAIN issued /\ issued[t].form = form

JobInv(c) ==
  /\ job[c] = NoJob \/ DOMAIN job[c] = JobFields
  /\ job[c].pc \in HoldsToken => Fits(job[c].token, Form(job[c]))
  /\ job[c].pc \in {"listen", "login"} => job[c].interactive

IssuedInv == Len(issued) <= MaxTokens /\ \E S : issued \in Seq(S)

MemoryInv ==
  /\ DOMAIN memory = {ProcessOf[c] : c \in Callers}
  /\ \A p \in DOMAIN memory : \A k \in DOMAIN memory[p] : Fits(memory[p][k], FormOf(k))

FilesInv == \A f \in DOMAIN files : files[f] \in {Empty, Torn} \/ Fits(files[f], FormOf(f[2]))

OAuthInv ==
  /\ DOMAIN job = Callers
  /\ \A c \in Callers : JobInv(c)
  /\ IssuedInv /\ MemoryInv /\ FilesInv

(* A key tells everything that the token request says (tokenCacheKey).     *)
LEMMA KeyForm == \A j : FormOf(TokenCacheKey(j)) = Form(j)
  BY DEF FormOf, TokenCacheKey, Form

(* A call that goes on keeps what it asks for.                             *)
LEMMA GotoKeeps ==
  ASSUME NEW j, DOMAIN j = JobFields, NEW pc
  PROVE  LET i == [j EXCEPT !.pc = pc] IN
         /\ DOMAIN i = JobFields /\ i.pc = pc
         /\ i.dir = j.dir /\ i.secret = j.secret /\ i.requirement = j.requirement
         /\ i.interactive = j.interactive /\ i.urls = j.urls /\ i.token = j.token
         /\ Form(i) = Form(j)
  BY DEF JobFields, Form, JoinScopes

(* A token is never anything but what it was issued for.                   *)
LEMMA FitsLater ==
  ASSUME OAuthInv, NEW x, issued' = issued \/ issued' = Append(issued, x)
  PROVE  /\ \A t, form : Fits(t, form) => Fits(t, form)'
         /\ issued' = Append(issued, x) =>
              \A t : t = Len(issued) + 1 => t \in DOMAIN issued' /\ issued'[t] = x
<1>1. CASE issued' = issued
  BY <1>1 DEF Fits
<1>2. CASE issued' = Append(issued, x)
  <2>1. PICK S : issued \in Seq(S)
    BY DEF OAuthInv, IssuedInv
  <2>2. issued \in Seq(S \cup {x}) /\ x \in S \cup {x}
    BY <2>1
  <2>3. /\ DOMAIN issued = 1 .. Len(issued) /\ Len(issued) \in Nat
        /\ DOMAIN issued' = 1 .. Len(issued) + 1
        /\ \A t \in DOMAIN issued : issued'[t] = issued[t]
        /\ issued'[Len(issued) + 1] = x
    BY <1>2, <2>2
  <2>. QED
    BY <2>3 DEF Fits
<1>. QED
  BY <1>1, <1>2

(* One call goes on, and what is cached and issued stays.                  *)
LEMMA JobMoves ==
  ASSUME OAuthInv, NEW c \in Callers, NEW j, job' = [job EXCEPT ![c] = j],
         UNCHANGED <<memory, files, issued>>,
         j = NoJob \/ DOMAIN j = JobFields,
         j.pc \in HoldsToken => Fits(j.token, Form(j)),
         j.pc \in {"listen", "login"} => j.interactive
  PROVE  OAuthInv'
<1>1. DOMAIN job' = Callers /\ job'[c] = j /\ \A d \in Callers : d # c => job'[d] = job[d]
  BY DEF OAuthInv
<1>2. \A t, form : Fits(t, form)' <=> Fits(t, form)
  BY DEF Fits
<1>3. \A d \in Callers : JobInv(d)'
  <2>. SUFFICES ASSUME NEW d \in Callers PROVE JobInv(d)'
    OBVIOUS
  <2>1. CASE d = c
    BY <1>1, <1>2, <2>1 DEF JobInv
  <2>2. CASE d # c
    <3>1. job'[d] = job[d] /\ JobInv(d)
      BY <1>1, <2>2 DEF OAuthInv
    <3>. QED
      BY <1>2, <3>1 DEF JobInv
  <2>. QED
    BY <2>1, <2>2
<1>4. IssuedInv' /\ MemoryInv' /\ FilesInv'
  BY <1>2 DEF OAuthInv, IssuedInv, MemoryInv, FilesInv
<1>. QED
  BY <1>1, <1>3, <1>4 DEF OAuthInv

(* A call that begins, or is forgotten, holds no token.                    *)
LEMMA JobBegins ==
  ASSUME OAuthInv, NEW c \in Callers, UNCHANGED <<memory, files, issued>>,
         \/ job' = [job EXCEPT ![c] = NoJob]
         \/ \E dir, provider, secret, requirement, interactive :
              job' = [job EXCEPT ![c] = Begun(dir, provider, secret, requirement, interactive)]
  PROVE  OAuthInv'
<1>1. CASE job' = [job EXCEPT ![c] = NoJob]
  <2>1. NoJob.pc = "none"
    BY DEF NoJob
  <2>. QED
    BY <1>1, <2>1, JobMoves DEF HoldsToken
<1>2. ASSUME NEW dir, NEW provider, NEW secret, NEW requirement, NEW interactive,
             job' = [job EXCEPT ![c] = Begun(dir, provider, secret, requirement, interactive)]
      PROVE  OAuthInv'
  <2>. DEFINE j == Begun(dir, provider, secret, requirement, interactive)
  <2>1. j.pc = "start" /\ DOMAIN j = JobFields
    BY DEF Begun, JobFields
  <2>. HIDE DEF j
  <2>. QED
    BY <1>2, <2>1, JobMoves DEF HoldsToken, j
<1>. QED
  BY <1>1, <1>2

(* Steps of Goto that leave everything but pc.                             *)
LEMMA JobGoes ==
  ASSUME OAuthInv, NEW c \in Callers, NEW pc, Goto(c, pc), UNCHANGED <<memory, files, issued>>,
         job[c].pc # "none",
         pc \in HoldsToken => job[c].pc \in HoldsToken,
         pc \in {"listen", "login"} => job[c].interactive
  PROVE  OAuthInv'
<1>. DEFINE j == [job[c] EXCEPT !.pc = pc]
<1>1. JobInv(c) /\ job[c] # NoJob
  BY DEF OAuthInv, NoJob
<1>2. DOMAIN job[c] = JobFields
  BY <1>1 DEF JobInv
<1>3. /\ DOMAIN j = JobFields /\ j.pc = pc /\ j.interactive = job[c].interactive
      /\ j.token = job[c].token /\ Form(j) = Form(job[c])
  BY <1>2, GotoKeeps
<1>4. job' = [job EXCEPT ![c] = j]
  BY DEF Goto
<1>5. j.pc \in HoldsToken => Fits(j.token, Form(j))
  BY <1>1, <1>3 DEF JobInv
<1>. HIDE DEF j
<1>. QED
  BY <1>3, <1>4, <1>5, JobMoves

-----------------------------------------------------------------------------
(* The steps of a call of ResolveOAuthAccessTokenWithOptions.              *)

LEMMA InvFindEndpoints ==
  ASSUME OAuthInv, NEW c \in Callers, FindEndpoints(c)
  PROVE  OAuthInv'
<1>1. CASE Failed(c)
  BY <1>1, JobGoes DEF FindEndpoints, Failed, At, HoldsToken
<1>2. ASSUME NEW urls, job' = [job EXCEPT ![c].urls = urls, ![c].pc = "load"],
             UNCHANGED <<memory, files, issued, lapsed>>
      PROVE  OAuthInv'
  <2>. DEFINE j == [job[c] EXCEPT !.urls = urls, !.pc = "load"]
  <2>1. JobInv(c) /\ job[c].pc # NoJob.pc
    BY DEF OAuthInv, NoJob, FindEndpoints, At
  <2>2. DOMAIN j = JobFields /\ j.pc = "load"
    BY <2>1 DEF JobInv, JobFields
  <2>3. job' = [job EXCEPT ![c] = j]
    BY <1>2
  <2>. HIDE DEF j
  <2>. QED
    BY <1>2, <2>2, <2>3, JobMoves DEF HoldsToken
<1>. QED
  BY <1>1, <1>2 DEF FindEndpoints

(* loadCachedToken: what is found under the key fits the call.             *)
LEMMA InvLoadCached ==
  ASSUME OAuthInv, NEW c \in Callers, LoadCached(c)
  PROVE  OAuthInv'
<1>1. JobInv(c) /\ job[c].pc = "load" /\ job[c].pc # NoJob.pc
  BY DEF OAuthInv, NoJob, LoadCached, At
<1>2. DOMAIN job[c] = JobFields
  BY <1>1 DEF JobInv
<1>3. CASE Cached(c) \in {Empty, Torn} /\ Failed(c)
  BY <1>1, <1>3, JobGoes DEF Failed, HoldsToken
<1>4. CASE /\ Cached(c) \in DOMAIN issued \ lapsed
           /\ job' = [job EXCEPT ![c].token = Cached(c), ![c].pc = "done"]
           /\ UNCHANGED <<memory, files, issued, lapsed>>
  <2>. DEFINE j == [job[c] EXCEPT !.token = Cached(c), !.pc = "done"]
  <2>1. Fits(Cached(c), Form(job[c]))
    <3>1. Cached(c) # 0 /\ Cached(c) # Empty /\ Cached(c) # Torn
      <4>1. DOMAIN issued = 1 .. Len(issued) /\ Len(issued) <= MaxTokens /\ Len(issued) \in Nat
        BY DEF OAuthInv, IssuedInv
      <4>. QED
        BY <1>4, <4>1, OAuthAssumption DEF Empty, Torn
    <3>2. CASE job[c].secret.storage = "memory"
      <4>1. /\ TokenCacheKey(job[c]) \in DOMAIN memory[ProcessOf[c]]
            /\ Cached(c) = memory[ProcessOf[c]][TokenCacheKey(job[c])]
        BY <3>1, <3>2 DEF Cached
      <4>2. ProcessOf[c] \in DOMAIN memory
        BY DEF OAuthInv, MemoryInv
      <4>3. Fits(memory[ProcessOf[c]][TokenCacheKey(job[c])], FormOf(TokenCacheKey(job[c])))
        BY <4>1, <4>2 DEF OAuthInv, MemoryInv
      <4>. QED
        BY <4>1, <4>3, KeyForm
    <3>3. CASE job[c].secret.storage # "memory"
      <4>1. Key(c) \in DOMAIN files /\ Cached(c) = files[Key(c)]
        BY <3>1, <3>3 DEF Cached
      <4>2. Fits(files[Key(c)], FormOf(Key(c)[2]))
        BY <3>1, <4>1 DEF OAuthInv, FilesInv
      <4>3. Key(c)[2] = TokenCacheKey(job[c])
        BY DEF Key
      <4>. QED
        BY <4>1, <4>2, <4>3, KeyForm
    <3>. QED
      BY <3>2, <3>3
  <2>2. DOMAIN j = JobFields /\ j.pc = "done" /\ j.token = Cached(c) /\ Form(j) = Form(job[c])
    BY <1>2 DEF JobFields, Form, JoinScopes
  <2>3. job' = [job EXCEPT ![c] = j]
    BY <1>4
  <2>. HIDE DEF j
  <2>. QED
    BY <1>4, <2>1, <2>2, <2>3, JobMoves
<1>5. ASSUME NEW pc \in {"request", "listen", "failed"}, Goto(c, pc),
             pc = "listen" => job[c].interactive, UNCHANGED <<memory, files, issued, lapsed>>
      PROVE  OAuthInv'
  BY <1>1, <1>5, JobGoes DEF HoldsToken
<1>. QED
  BY <1>3, <1>4, <1>5 DEF LoadCached

(* A token is issued for the form of the request (requestToken).           *)
LEMMA InvRequestToken ==
  ASSUME OAuthInv, NEW c \in Callers, RequestToken(c)
  PROVE  OAuthInv'
<1>1. JobInv(c) /\ job[c].pc = "request" /\ job[c].pc # NoJob.pc
  BY DEF OAuthInv, NoJob, RequestToken, At
<1>2. DOMAIN job[c] = JobFields
  BY <1>1 DEF JobInv
<1>3. CASE Failed(c)
  BY <1>1, <1>3, JobGoes DEF Failed, HoldsToken
<1>4. ASSUME NEW timed \in BOOLEAN, Len(issued) < MaxTokens,
             issued' = Append(issued, [form |-> Form(job[c]), timed |-> timed]),
             job' = [job EXCEPT ![c].token = Len(issued) + 1, ![c].pc = "store"],
             UNCHANGED <<memory, files, lapsed>>
      PROVE  OAuthInv'
  <2>. DEFINE x == [form |-> Form(job[c]), timed |-> timed]
              j == [job[c] EXCEPT !.token = Len(issued) + 1, !.pc = "store"]
  <2>1. DOMAIN j = JobFields /\ j.pc = "store" /\ j.token = Len(issued) + 1
        /\ Form(j) = Form(job[c])
    BY <1>2 DEF JobFields, Form, JoinScopes
  <2>2. job' = [job EXCEPT ![c] = j] /\ issued' = Append(issued, x) /\ x.form = Form(job[c])
    BY <1>4
  <2>. HIDE DEF j, x
  <2>3. \A t, form : Fits(t, form) => Fits(t, form)'
    BY <2>2, FitsLater
  <2>4. j.token \in DOMAIN issued' /\ issued'[j.token].form = Form(j)
    BY <2>1, <2>2, FitsLater
  <2>5. DOMAIN job' = Callers /\ job'[c] = j /\ \A d \in Callers : d # c => job'[d] = job[d]
    BY <2>2 DEF OAuthInv
  <2>6. \A d \in Callers : JobInv(d)'
    <3>. SUFFICES ASSUME NEW d \in Callers PROVE JobInv(d)'
      OBVIOUS
    <3>1. CASE d = c
      BY <2>1, <2>4, <2>5, <3>1 DEF JobInv, Fits
    <3>2. CASE d # c
      <4>1. job'[d] = job[d] /\ JobInv(d)
        BY <2>5, <3>2 DEF OAuthInv
      <4>. QED
        BY <2>3, <4>1 DEF JobInv
    <3>. QED
      BY <3>1, <3>2
  <2>7. IssuedInv'
    <3>1. PICK S : issued \in Seq(S)
      BY DEF OAuthInv, IssuedInv
    <3>2. issued \in Seq(S \cup {x}) /\ x \in S \cup {x}
      BY <3>1
    <3>3. issued' \in Seq(S \cup {x}) /\ Len(issued') = Len(issued) + 1 /\ Len(issued) \in Nat
      BY <2>2, <3>2
    <3>. QED
      BY <1>4, <3>3, OAuthAssumption DEF IssuedInv
  <2>8. MemoryInv' /\ FilesInv'
    BY <1>4, <2>3 DEF OAuthInv, MemoryInv, FilesInv
  <2>. QED
    BY <2>5, <2>6, <2>7, <2>8 DEF OAuthInv
<1>. QED
  BY <1>3, <1>4 DEF RequestToken

(* storeCachedToken and the two halves of os.WriteFile.                    *)
LEMMA InvStore ==
  ASSUME OAuthInv, NEW c \in Callers, Store(c)
  PROVE  OAuthInv'
<1>1. JobInv(c) /\ job[c].pc = "store" /\ job[c].pc # NoJob.pc
  BY DEF OAuthInv, NoJob, Store, At
<1>2. DOMAIN job[c] = JobFields /\ Fits(job[c].token, Form(job[c]))
  BY <1>1 DEF JobInv, HoldsToken
<1>3. CASE Failed(c)
  BY <1>1, <1>3, JobGoes DEF Failed, HoldsToken
<1>4. ASSUME NEW pc \in HoldsToken, Goto(c, pc), UNCHANGED issued, MemoryInv', FilesInv'
      PROVE  OAuthInv'
  <2>. DEFINE j == [job[c] EXCEPT !.pc = pc]
  <2>1. j.pc = pc /\ DOMAIN j = JobFields /\ j.token = job[c].token /\ Form(j) = Form(job[c])
    BY <1>2, GotoKeeps
  <2>2. job' = [job EXCEPT ![c] = j]
    BY <1>4 DEF Goto
  <2>. HIDE DEF j
  <2>3. DOMAIN job' = Callers /\ job'[c] = j /\ \A d \in Callers : d # c => job'[d] = job[d]
    BY <2>2 DEF OAuthInv
  <2>4. \A t, form : Fits(t, form)' <=> Fits(t, form)
    BY <1>4 DEF Fits
  <2>5. \A d \in Callers : JobInv(d)'
    <3>. SUFFICES ASSUME NEW d \in Callers PROVE JobInv(d)'
      OBVIOUS
    <3>1. CASE d = c
      BY <1>2, <2>1, <2>3, <2>4, <3>1 DEF JobInv, HoldsToken
    <3>2. CASE d # c
      <4>1. job'[d] = job[d] /\ JobInv(d)
        BY <2>3, <3>2 DEF OAuthInv
      <4>. QED
        BY <2>4, <4>1 DEF JobInv
    <3>. QED
      BY <3>1, <3>2
  <2>6. IssuedInv'
    BY <1>4 DEF OAuthInv, IssuedInv
  <2>. QED
    BY <1>4, <2>3, <2>5, <2>6 DEF OAuthInv
<1>5. CASE /\ memory' = [memory EXCEPT ![ProcessOf[c]] = With(@, TokenCacheKey(job[c]), job[c].token)]
           /\ Goto(c, "done") /\ UNCHANGED <<files, issued, lapsed>>
  <2>. DEFINE key == TokenCacheKey(job[c])
              p == ProcessOf[c]
  <2>1. p \in DOMAIN memory /\ DOMAIN memory' = DOMAIN memory
        /\ memory'[p] = With(memory[p], key, job[c].token)
        /\ \A q \in DOMAIN memory : q # p => memory'[q] = memory[q]
    BY <1>5 DEF OAuthInv, MemoryInv
  <2>2. FormOf(key) = Form(job[c])
    BY KeyForm
  <2>. HIDE DEF key, p
  <2>3. /\ DOMAIN memory'[p] = DOMAIN memory[p] \cup {key}
        /\ memory'[p][key] = job[c].token
        /\ \A k \in DOMAIN memory[p] : k # key => memory'[p][k] = memory[p][k]
    <3>1. \E m, t : memory'[p] = With(m, key, t) /\ m = memory[p] /\ t = job[c].token
      BY <2>1
    <3>. QED
      BY <3>1 DEF With
  <2>4. \A t, form : Fits(t, form)' <=> Fits(t, form)
    BY <1>5 DEF Fits
  <2>5. MemoryInv'
    <3>. SUFFICES ASSUME NEW q \in DOMAIN memory', NEW k \in DOMAIN memory'[q]
                  PROVE  Fits(memory'[q][k], FormOf(k))
      BY <2>1, <2>4 DEF OAuthInv, MemoryInv
    <3>1. CASE q = p /\ k = key
      BY <1>2, <2>2, <2>3, <3>1
    <3>2. CASE ~(q = p /\ k = key)
      <4>1. q \in DOMAIN memory /\ k \in DOMAIN memory[q] /\ memory'[q][k] = memory[q][k]
        BY <2>1, <2>3, <3>2
      <4>. QED
        BY <4>1 DEF OAuthInv, MemoryInv
    <3>. QED
      BY <3>1, <3>2
  <2>6. FilesInv'
    BY <1>5, <2>4 DEF OAuthInv, FilesInv
  <2>. QED
    BY <1>4, <1>5, <2>5, <2>6 DEF HoldsToken
<1>6. CASE files' = With(files, Key(c), Empty) /\ Goto(c, "write")
           /\ UNCHANGED <<memory, issued, lapsed>>
  <2>1. \A t, form : Fits(t, form)' <=> Fits(t, form)
    BY <1>6 DEF Fits
  <2>2. MemoryInv'
    BY <1>6, <2>1 DEF OAuthInv, MemoryInv
  <2>3. FilesInv'
    <3>. DEFINE key == Key(c)
    <3>1. /\ DOMAIN files' = DOMAIN files \cup {key} /\ files'[key] = Empty
          /\ \A k \in DOMAIN files : k # key => files'[k] = files[k]
      <4>1. files' = With(files, key, Empty)
        BY <1>6
      <4>. HIDE DEF key
      <4>. QED
        BY <4>1 DEF With
    <3>. HIDE DEF key
    <3>. QED
      BY <2>1, <3>1 DEF OAuthInv, FilesInv
  <2>. QED
    BY <1>4, <1>6, <2>2, <2>3 DEF HoldsToken
<1>. QED
  BY <1>3, <1>5, <1>6 DEF Store

LEMMA InvWrite ==
  ASSUME OAuthInv, NEW c \in Callers, Write(c)
  PROVE  OAuthInv'
<1>1. JobInv(c) /\ job[c].pc = "write" /\ job[c].pc # NoJob.pc
  BY DEF OAuthInv, NoJob, Write, At
<1>2. DOMAIN job[c] = JobFields /\ Fits(job[c].token, Form(job[c]))
  BY <1>1 DEF JobInv, HoldsToken
<1>3. PICK pc \in {"done", "failed"}, content \in {job[c].token, Torn} :
        files' = [files EXCEPT ![Key(c)] = content] /\ Goto(c, pc)
  BY DEF Write
<1>4. UNCHANGED <<memory, issued, lapsed>>
  BY DEF Write
<1>. DEFINE j == [job[c] EXCEPT !.pc = pc]
<1>5. j.pc = pc /\ DOMAIN j = JobFields /\ j.token = job[c].token /\ Form(j) = Form(job[c])
  BY <1>2, GotoKeeps
<1>6. job' = [job EXCEPT ![c] = j]
  BY <1>3 DEF Goto
<1>. HIDE DEF j
<1>7. DOMAIN job' = Callers /\ job'[c] = j /\ \A d \in Callers : d # c => job'[d] = job[d]
  BY <1>6 DEF OAuthInv
<1>8. \A t, form : Fits(t, form)' <=> Fits(t, form)
  BY <1>4 DEF Fits
<1>9. \A d \in Callers : JobInv(d)'
  <2>. SUFFICES ASSUME NEW d \in Callers PROVE JobInv(d)'
    OBVIOUS
  <2>1. CASE d = c
    BY <1>2, <1>5, <1>7, <1>8, <2>1 DEF JobInv, HoldsToken
  <2>2. CASE d # c
    <3>1. job'[d] = job[d] /\ JobInv(d)
      BY <1>7, <2>2 DEF OAuthInv
    <3>. QED
      BY <1>8, <3>1 DEF JobInv
  <2>. QED
    BY <2>1, <2>2
<1>10. FilesInv'
  <2>. DEFINE key == Key(c)
  <2>1. FormOf(key[2]) = Form(job[c])
    BY KeyForm DEF Key
  <2>2. /\ DOMAIN files' = DOMAIN files
        /\ \A k \in DOMAIN files : files'[k] = IF k = key THEN content ELSE files[k]
    BY <1>3
  <2>. HIDE DEF key
  <2>. QED
    BY <1>2, <1>3, <1>8, <2>1, <2>2 DEF OAuthInv, FilesInv
<1>11. IssuedInv' /\ MemoryInv'
  BY <1>4, <1>8 DEF OAuthInv, IssuedInv, MemoryInv
<1>. QED
  BY <1>7, <1>9, <1>10, <1>11 DEF OAuthInv

LEMMA InvOAuthStep ==
  ASSUME OAuthInv, NEW c \in Callers, OAuthStep(c)
  PROVE  OAuthInv'
<1>1. job[c].pc \in {"listen", "login"} => job[c].interactive
  BY DEF OAuthInv, JobInv
<1>2. CASE Listen(c)
  BY <1>1, <1>2, JobGoes DEF Listen, At, Failed, HoldsToken
<1>3. CASE Login(c)
  BY <1>1, <1>3, JobGoes DEF Login, At, Failed, HoldsToken
<1>4. CASE WriteUnlinked(c)
  BY <1>4, JobGoes DEF WriteUnlinked, At, HoldsToken
<1>. QED
  BY <1>2, <1>3, <1>4, InvFindEndpoints, InvLoadCached, InvRequestToken, InvStore, InvWrite
     DEF OAuthStep

(* A session-close removes the files of a directory under the calls that   *)
(* have opened one (os.RemoveAll).                                         *)
LEMMA InvClearDirectory ==
  ASSUME OAuthInv, NEW dir, ClearDirectory(dir)
  PROVE  OAuthInv'
<1>1. \A t, form : Fits(t, form)' <=> Fits(t, form)
  BY DEF ClearDirectory, Fits
<1>2. DOMAIN job' = Callers
  BY DEF ClearDirectory
<1>3. \A c \in Callers : JobInv(c)'
  <2>. SUFFICES ASSUME NEW c \in Callers PROVE JobInv(c)'
    OBVIOUS
  <2>1. JobInv(c)
    BY DEF OAuthInv
  <2>2. CASE job'[c] = job[c]
    BY <1>1, <2>1, <2>2 DEF JobInv
  <2>3. CASE job[c].pc = "write" /\ job'[c] = [job[c] EXCEPT !.pc = "unlinked"]
    <3>1. job[c].pc # NoJob.pc
      BY <2>3 DEF NoJob
    <3>2. DOMAIN job[c] = JobFields
      BY <2>1, <3>1 DEF JobInv
    <3>3. /\ job'[c].pc = "unlinked" /\ DOMAIN job'[c] = JobFields
          /\ job'[c].token = job[c].token /\ Form(job'[c]) = Form(job[c])
      BY <2>3, <3>2, GotoKeeps
    <3>. QED
      BY <1>1, <2>1, <2>3, <3>3 DEF JobInv, HoldsToken
  <2>. QED
    BY <2>2, <2>3 DEF ClearDirectory, At
<1>4. FilesInv'
  BY <1>1 DEF ClearDirectory, OAuthInv, FilesInv
<1>5. IssuedInv' /\ MemoryInv'
  BY <1>1 DEF ClearDirectory, OAuthInv, IssuedInv, MemoryInv
<1>. QED
  BY <1>2, <1>3, <1>4, <1>5 DEF OAuthInv

(* The runtime is killed: its calls and its memory are gone.               *)
LEMMA InvRuntimeExits ==
  ASSUME OAuthInv, RuntimeExits
  PROVE  OAuthInv'
<1>1. \A t, form : Fits(t, form)' <=> Fits(t, form)
  BY DEF RuntimeExits, Fits
<1>2. DOMAIN job' = Callers /\ \A c \in Callers : JobInv(c)'
  <2>1. DOMAIN job' = Callers /\ \A c \in Callers : job'[c] \in {NoJob, job[c]}
    BY DEF RuntimeExits
  <2>2. NoJob.pc = "none"
    BY DEF NoJob
  <2>. QED
    BY <1>1, <2>1, <2>2 DEF OAuthInv, JobInv, HoldsToken
<1>3. MemoryInv'
  <2>1. /\ DOMAIN memory' = DOMAIN memory
        /\ \A p \in DOMAIN memory : memory'[p] \in {NoFiles, memory[p]}
    BY DEF RuntimeExits
  <2>2. DOMAIN NoFiles = {}
    BY DEF NoFiles
  <2>. QED
    BY <1>1, <2>1, <2>2 DEF OAuthInv, MemoryInv
<1>4. IssuedInv' /\ FilesInv'
  BY <1>1 DEF RuntimeExits, OAuthInv, IssuedInv, FilesInv
<1>. QED
  BY <1>2, <1>3, <1>4 DEF OAuthInv

(* Steps in which no call of ResolveOAuthAccessTokenWithOptions moves.     *)
LEMMA InvFrame ==
  ASSUME OAuthInv, UNCHANGED <<job, memory, files, issued>>
  PROVE  OAuthInv'
  BY DEF OAuthInv, JobInv, IssuedInv, MemoryInv, FilesInv, Fits

LEMMA OAuthInvInit == Init => OAuthInv
<1>. SUFFICES ASSUME Init PROVE OAuthInv
  OBVIOUS
<1>1. DOMAIN job = Callers /\ \A c \in Callers : JobInv(c)
  BY DEF Init, OAuthInit, JobInv, NoJob, HoldsToken
<1>2. IssuedInv
  <2>1. issued = << >>
    BY DEF Init, OAuthInit
  <2>2. issued \in Seq({}) /\ Len(issued) = 0
    BY <2>1
  <2>. QED
    BY <2>2, OAuthAssumption DEF IssuedInv
<1>3. MemoryInv /\ FilesInv
  BY DEF Init, OAuthInit, MemoryInv, FilesInv, NoFiles
<1>. QED
  BY <1>1, <1>2, <1>3 DEF OAuthInv

LEMMA OAuthInvNext == OAuthInv /\ [Next]_vars => OAuthInv'
<1>. SUFFICES ASSUME OAuthInv, [Next]_vars PROVE OAuthInv'
  OBVIOUS
<1>1. ASSUME NEW c \in Callers, OAuthStep(c) PROVE OAuthInv'
  BY <1>1, InvOAuthStep
<1>2. ASSUME NEW c \in ToolCalls, CredentialStep(c) PROVE OAuthInv'
  <2>1. c \in Callers
    BY CredentialAssumption
  <2>2. CASE ResolveRequirement(c)
    <3>1. UNCHANGED <<memory, files, issued>>
      BY <2>2 DEF ResolveRequirement
    <3>2. CASE UNCHANGED job
      BY <3>1, <3>2, InvFrame
    <3>3. ASSUME NEW dir, NEW provider, NEW secret, NEW requirement, NEW interactive,
                 job' = [job EXCEPT ![c] = Begun(dir, provider, secret, requirement, interactive)]
          PROVE  OAuthInv'
      BY <2>1, <3>1, <3>3, JobBegins
    <3>4. PICK r \in call[c].left :
            \/ UNCHANGED job
            \/ \E k, key : job' = [job EXCEPT ![c] =
                                   Begun("runtime", key, Secrets[key], r, Passes[k.pass])]
      BY <2>2, Zenon DEF ResolveRequirement
    <3>. QED
      BY <3>2, <3>3, <3>4
  <2>3. CASE TokenResolved(c)
    BY <2>1, <2>3, JobBegins DEF TokenResolved
  <2>4. CASE (\E o \in Operations : StartCall(c, o)) \/ PlanReady(c) \/ EndCall(c)
    <3>1. UNCHANGED oauthVars
      BY <2>4 DEF StartCall, PlanReady, EndCall
    <3>. QED
      BY <3>1, InvFrame DEF oauthVars
  <2>. QED
    BY <1>2, <2>2, <2>3, <2>4 DEF CredentialStep
<1>3. CASE RuntimeExits \/ SessionClose
  BY <1>3, InvRuntimeExits, InvClearDirectory DEF SessionClose
<1>4. CASE SessionStep
  <2>1. CASE BrowserLogin
    <3>1. \E dir, provider, secret, requirement, interactive :
            job' = [job EXCEPT ![Cli] = Begun(dir, provider, secret, requirement, interactive)]
      BY <2>1, Zenon DEF BrowserLogin
    <3>. QED
      BY <2>1, <3>1, SessionAssumption, JobBegins DEF BrowserLogin
  <2>2. CASE BrowserLoginEnds \/ Interrupt
    BY <2>2, SessionAssumption, JobBegins DEF BrowserLoginEnds, Interrupt
  <2>3. CASE UNCHANGED oauthVars
    BY <2>3, InvFrame DEF oauthVars
  <2>. QED
    BY <1>4, <2>1, <2>2, <2>3 DEF SessionStep, Handshake, ProvidedToken, ClientToken,
       StartSession, Delegate, PreflightFails, Refresh, Send, Answer, TokenExpires, NextRun, Fail
<1>5. CASE Time
  BY <1>5, InvFrame DEF Time, Lapse
<1>6. CASE UNCHANGED vars
  BY <1>6, InvFrame DEF vars, oauthVars
<1>. QED
  BY <1>1, <1>2, <1>3, <1>4, <1>5, <1>6, SessionAssumption, CredentialAssumption
     DEF Next, Runtime, Client

(* Every token in a cache, in a file or in a call under way was issued for *)
(* what its key or its call asks for.                                      *)
THEOREM OAuthInvariant == Spec => []OAuthInv
  BY OAuthInvInit, OAuthInvNext, PTL DEF Spec

(* A call gets a token for its own endpoint, client, audience and scopes,  *)
(* however many callers share caches and files (tokenCacheKey).            *)
THEOREM TokensAlwaysFit == Spec => []TokensFit
<1>1. OAuthInv => TokensFit
  BY DEF OAuthInv, JobInv, HoldsToken, Fits, TokensFit, At
<1>. QED
  BY <1>1, OAuthInvariant, PTL
-----------------------------------------------------------------------------
(* The plan of a tool call.                                                *)

(* What a call has tried and put together so far: k is the call, j the     *)
(* token it waits for, if any.                                             *)
Places(k) == DOMAIN AuthAlternatives(k.operation)
Current(k) == AuthAlternatives(k.operation)[k.next]
Waiting(k) == k.pending # "none"
Met(k, j) == Current(k) \ (k.left \cup IF Waiting(k) THEN {j.requirement} ELSE {})

PlanMeets(k, met) ==
  /\ DOMAIN k.plan = {Target(r) : r \in met}
  /\ \A r \in met : Satisfies(k, r, k.plan[Target(r)])
NoneMet(k) ==
  \A i \in Places(k) : k.pass = 2 \/ i < k.next =>
    ~StaticallyMet(k, AuthAlternatives(k.operation)[i])
Whole(k) ==
  IF Places(k) = {} THEN k.plan = NoPlan
  ELSE \E i \in Places(k) : PlanMeets(k, AuthAlternatives(k.operation)[i])

Asks(k, j) ==
  /\ Waiting(k) <=> j.pc # "none"
  /\ Waiting(k) => /\ j.requirement \in Current(k) \ k.left /\ IsOAuth(j.requirement)
                   /\ j.interactive = Passes[k.pass]
Resolving(k, j) ==
  /\ k.next \in Places(k) /\ k.pass \in {1, 2} /\ k.left \subseteq Current(k)
  /\ Asks(k, j) /\ PlanMeets(k, Met(k, j)) /\ NoneMet(k)

CallFields == {"pc", "operation", "pass", "next", "left", "plan", "pending", "unread"}
GoodCall(k, j) ==
  /\ k = NoCall \/ (DOMAIN k = CallFields /\ k.operation \in Operations)
  /\ k.pc = "resolving" => Resolving(k, j)
  /\ k.pc # "resolving" => j.pc = "none"
  /\ k.pc = "ready" => Whole(k)

CallInv == DOMAIN call = ToolCalls /\ \A c \in ToolCalls : GoodCall(call[c], job[c])

LEMMA Smallest ==
  ASSUME NEW S \in SUBSET Nat, S # {}
  PROVE  \E i \in S : \A j \in S : i <= j
<1>. DEFINE Below == {p \in Nat \X Nat : p[1] < p[2]}
<1>1. OpToRel(<, Nat) = Below
  BY Zenon DEF OpToRel
<1>2. IsWellFoundedOn(Below, Nat)
  BY <1>1, NatLessThanWellFounded, Zenon
<1>3. PICK i \in S : \A j \in S : ~(<<j, i>> \in Below)
  BY <1>2, WFMin, Zenon
<1>4. \A j \in S : ~(j < i)
  <2>. SUFFICES ASSUME NEW j \in S, j < i PROVE FALSE
    OBVIOUS
  <2>1. <<j, i>> \in Nat \X Nat /\ <<j, i>>[1] = j /\ <<j, i>>[2] = i
    OBVIOUS
  <2>2. <<j, i>> \in Below
    BY <2>1
  <2>. QED
    BY <1>3, <2>2
<1>. QED
  BY <1>4

LEMMA FirstOfIsFirst ==
  ASSUME NEW S \in SUBSET Nat, S # {}
  PROVE  FirstOf(S) \in S /\ \A j \in S : FirstOf(S) <= j
<1>1. \E i \in S : \A j \in S : i <= j
  BY Smallest
<1>. QED
  BY <1>1, Zenon DEF FirstOf

LEMMA PlacesAreOrdered ==
  ASSUME NEW k, k.operation \in Operations
  PROVE  Places(k) \subseteq Nat
  BY CredentialAssumption DEF Places, AuthAlternatives

LEMMA RequirementsAreNamed ==
  ASSUME NEW k, k.next \in Places(k), NEW r \in Current(k)
  PROVE  r.name # "none"
<1>1. r \in Alternative(k.operation.security[k.next])
  BY DEF Places, Current, AuthAlternatives
<1>2. PICK name \in DOMAIN Schemes : \E scopes : r = Requirement(name, scopes)
  BY <1>1 DEF Alternative
<1>3. r.name = name
  BY <1>2 DEF Requirement
<1>. QED
  BY <1>3, CredentialAssumption

(* Of a call, only its operation tells whether a value will do, and only   *)
(* what it could not read tells more of what needs no browser.             *)
LEMMA SameOperation ==
  ASSUME NEW k, NEW l, k.operation = l.operation
  PROVE  /\ Places(k) = Places(l)
         /\ \A r, value : Satisfies(k, r, value) <=> Satisfies(l, r, value)
         /\ k.unread = l.unread => \A a : StaticallyMet(k, a) <=> StaticallyMet(l, a)
<1>1. \A r : Usable(k, r) <=> Usable(l, r)
  BY DEF Usable
<1>2. k.unread = l.unread => \A a : StaticallyMet(k, a) <=> StaticallyMet(l, a)
  BY <1>1 DEF StaticallyMet
<1>. QED
  BY <1>2 DEF Places, Satisfies

(* The alternative that has failed needs a browser or has no value: the    *)
(* next one starts with nothing (resolveAuthPlan).                         *)
LEMMA NextIsGood ==
  ASSUME NEW k, DOMAIN k = CallFields, k.operation \in Operations, k.pc = "resolving",
         k.next \in Places(k), k.pass \in {1, 2}, NoneMet(k), ~StaticallyMet(k, Current(k)),
         NEW j, j.pc = "none"
  PROVE  GoodCall(NextAlternative(k), j)
<1>. DEFINE places == Places(k)
            later == {i \in places : i > k.next}
            last == later = {}
            next == FirstOf(IF last THEN places ELSE later)
            n == NextAlternative(k)
<1>1. places \subseteq Nat /\ Len(Passes) = 2 /\ k.next \in Nat
  BY PlacesAreOrdered DEF Passes
<1>2. CASE last /\ k.pass = 2
  <2>1. n = [k EXCEPT !.pc = "failed", !.pending = "none"]
    BY <1>1, <1>2, Zenon DEF NextAlternative, Places
  <2>2. DOMAIN n = CallFields /\ n.pc = "failed" /\ n.operation = k.operation
    BY <2>1 DEF CallFields
  <2>. QED
    BY <2>2 DEF GoodCall
<1>3. CASE ~(last /\ k.pass = 2)
  <2>1. n = [k EXCEPT !.pass = IF last THEN @ + 1 ELSE @, !.next = next,
                      !.left = AuthAlternatives(k.operation)[next], !.plan = EmptyPlan(@),
                      !.pending = "none"]
    BY <1>1, <1>3, Zenon DEF NextAlternative, Places
  <2>2. /\ next \in places
        /\ \A i \in places : i < next => (last \/ i <= k.next)
    BY <1>1, FirstOfIsFirst
  <2>. HIDE DEF next
  <2>3. /\ DOMAIN n = CallFields /\ n.pc = "resolving" /\ n.operation = k.operation
        /\ n.pass = (IF last THEN k.pass + 1 ELSE k.pass) /\ n.next = next
        /\ n.left = AuthAlternatives(k.operation)[next] /\ n.plan = NoPlan /\ n.pending = "none"
        /\ n.unread = k.unread
    BY <2>1 DEF CallFields, EmptyPlan
  <2>. SUFFICES GoodCall(n, j)
    OBVIOUS
  <2>. HIDE DEF n
  <2>4. Places(n) = places /\ n.pass \in {1, 2} /\ Current(n) = n.left /\ ~Waiting(n)
    BY <1>3, <2>3 DEF Places, Current, Waiting
  <2>5. Met(n, j) = {} /\ DOMAIN n.plan = {}
    BY <2>3, <2>4 DEF Met, NoPlan
  <2>6. NoneMet(n)
    <3>. SUFFICES ASSUME NEW i \in places, n.pass = 2 \/ i < n.next
                  PROVE  ~StaticallyMet(k, AuthAlternatives(k.operation)[i])
      BY <2>3, <2>4, SameOperation DEF NoneMet
    <3>1. CASE i = k.next
      BY <3>1 DEF Current
    <3>2. CASE i < k.next \/ k.pass = 2
      BY <3>2 DEF NoneMet
    <3>3. CASE i > k.next /\ k.pass = 1
      <4>1. ~last
        BY <3>3
      <4>. QED
        BY <1>1, <2>2, <2>3, <3>3, <4>1
    <3>. QED
      BY <1>1, <3>1, <3>2, <3>3
  <2>. QED
    <3>1. n.next \in Places(n) /\ n.left \subseteq Current(n)
      BY <2>2, <2>3, <2>4
    <3>2. Asks(n, j) /\ PlanMeets(n, Met(n, j))
      BY <2>4, <2>5 DEF Asks, PlanMeets
    <3>3. Resolving(n, j)
      BY <2>4, <2>6, <3>1, <3>2 DEF Resolving
    <3>. QED
      BY <2>3, <3>3 DEF GoodCall
<1>. QED
  BY <1>2, <1>3

(* A value either joins the plan or shows that the alternative is none.    *)
LEMMA PlannedIsGood ==
  ASSUME NEW k, DOMAIN k = CallFields, k.operation \in Operations, k.pc = "resolving",
         k.next \in Places(k), k.pass \in {1, 2}, k.left \subseteq Current(k), NoneMet(k),
         NEW r \in Current(k) \ k.left, NEW met, met = Current(k) \ (k.left \cup {r}),
         PlanMeets(k, met), NEW value, Satisfies(k, r, value), NEW j, j.pc = "none"
  PROVE  GoodCall(Planned(k, Target(r), value), j)
<1>1. CASE Target(r) \in DOMAIN k.plan /\ k.plan[Target(r)] # value
  <2>1. PICK s \in met : Target(s) = Target(r) /\ Satisfies(k, s, k.plan[Target(r)])
    BY <1>1 DEF PlanMeets
  <2>2. r \in Current(k) /\ s \in Current(k)
    OBVIOUS
  <2>3. CASE IsOAuth(r) \/ IsOAuth(s)
    BY <1>1, <2>2, <2>3, NextIsGood DEF StaticallyMet, Planned
  <2>4. CASE ~IsOAuth(r) /\ ~IsOAuth(s)
    <3>1. /\ value = StaticValue(r, Secrets[SecretKey(k.operation.service, r.name)])
          /\ k.plan[Target(r)] = StaticValue(s, Secrets[SecretKey(k.operation.service, s.name)])
      BY <2>1, <2>4 DEF Satisfies
    <3>2. ~StaticallyMet(k, Current(k))
      BY <1>1, <2>1, <2>2, <3>1, Zenon DEF StaticallyMet
    <3>. QED
      BY <1>1, <3>2, NextIsGood DEF Planned
  <2>. QED
    BY <2>3, <2>4
<1>2. CASE ~(Target(r) \in DOMAIN k.plan /\ k.plan[Target(r)] # value)
  <2>. DEFINE plan == With(k.plan, Target(r), value)
              n == Planned(k, Target(r), value)
  <2>1. n = [k EXCEPT !.plan = plan, !.pending = "none"]
    BY <1>2, Zenon DEF Planned
  <2>2. /\ DOMAIN plan = DOMAIN k.plan \cup {Target(r)} /\ plan[Target(r)] = value
        /\ \A t \in DOMAIN k.plan : plan[t] = k.plan[t]
    BY <1>2 DEF With
  <2>. HIDE DEF plan
  <2>3. /\ DOMAIN n = CallFields /\ n.pc = "resolving" /\ n.operation = k.operation
        /\ n.pass = k.pass /\ n.next = k.next /\ n.left = k.left /\ n.plan = plan
        /\ n.pending = "none" /\ n.unread = k.unread
    BY <2>1 DEF CallFields
  <2>. SUFFICES GoodCall(n, j)
    OBVIOUS
  <2>. HIDE DEF n
  <2>4. Places(n) = Places(k) /\ Current(n) = Current(k) /\ ~Waiting(n)
    BY <2>3 DEF Places, Current, Waiting
  <2>5. Met(n, j) = met \cup {r}
    BY <2>3, <2>4 DEF Met
  <2>6. PlanMeets(n, met \cup {r})
    <3>1. DOMAIN n.plan = {Target(s) : s \in met \cup {r}}
      BY <2>2, <2>3 DEF PlanMeets
    <3>2. ASSUME NEW s \in met \cup {r} PROVE Satisfies(k, s, n.plan[Target(s)])
      <4>1. CASE s = r
        BY <2>2, <2>3, <4>1
      <4>2. CASE s \in met
        BY <2>2, <2>3, <4>2 DEF PlanMeets
      <4>. QED
        BY <4>1, <4>2
    <3>. QED
      BY <2>3, <3>1, <3>2, SameOperation DEF PlanMeets
  <2>7. NoneMet(n)
    BY <2>3, <2>4, SameOperation DEF NoneMet
  <2>. QED
    <3>1. Asks(n, j) /\ n.next \in Places(n) /\ n.left \subseteq Current(n)
      BY <2>3, <2>4 DEF Asks
    <3>2. Resolving(n, j)
      BY <2>3, <2>5, <2>6, <2>7, <3>1 DEF Resolving
    <3>. QED
      BY <2>3, <3>2 DEF GoodCall
<1>. QED
  BY <1>1, <1>2

(* A call under way is as good when more tokens are issued, and when the   *)
(* token it waits for comes closer.                                        *)
LEMMA GoodLater ==
  ASSUME \A t \in DOMAIN issued : t \in DOMAIN issued' /\ issued'[t] = issued[t]
  PROVE  \A k, j : GoodCall(k, j) => GoodCall(k, j)'
<1>1. \A k, r, value : Satisfies(k, r, value) => Satisfies(k, r, value)'
  BY DEF Satisfies
<1>2. \A k, met : PlanMeets(k, met) => PlanMeets(k, met)'
  BY <1>1 DEF PlanMeets
<1>3. \A k : Whole(k) => Whole(k)'
  BY <1>2 DEF Whole
<1>4. \A k, j : Resolving(k, j) => Resolving(k, j)'
  BY <1>2 DEF Resolving
<1>. QED
  BY <1>3, <1>4 DEF GoodCall

LEMMA GoodKeeps ==
  ASSUME NEW k, NEW j, NEW i, GoodCall(k, j), (j.pc = "none") <=> (i.pc = "none"),
         j.pc # "none" => i.requirement = j.requirement /\ i.interactive = j.interactive
  PROVE  GoodCall(k, i)
<1>1. CASE k.pc = "resolving"
  <2>1. Resolving(k, j)
    BY <1>1 DEF GoodCall
  <2>2. Asks(k, i) /\ (Waiting(k) => i.requirement = j.requirement)
    BY <2>1 DEF Resolving, Asks
  <2>3. Met(k, i) = Met(k, j)
    BY <2>2 DEF Met
  <2>4. Resolving(k, i)
    BY <2>1, <2>2, <2>3 DEF Resolving
  <2>. QED
    BY <1>1, <2>4 DEF GoodCall
<1>2. CASE k.pc # "resolving"
  BY <1>2 DEF GoodCall
<1>. QED
  BY <1>1, <1>2

(* The calls of which one has changed.                                     *)
LEMMA CallChanges ==
  ASSUME CallInv, NEW c \in ToolCalls, NEW k, call' = [call EXCEPT ![c] = k],
         UNCHANGED issued, GoodCall(k, job'[c]),
         \A d \in ToolCalls : d # c => job'[d] = job[d]
  PROVE  CallInv'
<1>1. DOMAIN call' = ToolCalls /\ call'[c] = k /\ \A d \in ToolCalls : d # c => call'[d] = call[d]
  BY DEF CallInv
<1>2. \A l, j : GoodCall(l, j) => GoodCall(l, j)'
  BY GoodLater
<1>3. \A d \in ToolCalls : GoodCall(call'[d], job'[d])
  BY <1>1 DEF CallInv
<1>. QED
  BY <1>1, <1>2, <1>3, Zenon DEF CallInv

(* Only the tokens that calls wait for have come closer.                   *)
LEMMA JobsChange ==
  ASSUME CallInv, UNCHANGED call,
         \A t \in DOMAIN issued : t \in DOMAIN issued' /\ issued'[t] = issued[t],
         \A c \in ToolCalls :
           /\ (job[c].pc = "none") <=> (job'[c].pc = "none")
           /\ job[c].pc # "none" => /\ job'[c].requirement = job[c].requirement
                                   /\ job'[c].interactive = job[c].interactive
  PROVE  CallInv'
<1>1. \A l, j : GoodCall(l, j) => GoodCall(l, j)'
  BY GoodLater
<1>2. \A c \in ToolCalls : GoodCall(call[c], job'[c])
  BY GoodKeeps DEF CallInv
<1>. QED
  BY <1>1, <1>2, Zenon DEF CallInv

(* A call for a token keeps what it was begun with.                        *)
LEMMA JobsKeep ==
  ASSUME OAuthInv, NEW c \in Callers, OAuthStep(c)
  PROVE  /\ \A d \in Callers : d # c => job'[d] = job[d]
         /\ job[c].pc # "none" /\ job'[c].pc # "none"
         /\ job'[c].requirement = job[c].requirement /\ job'[c].interactive = job[c].interactive
         /\ \A t \in DOMAIN issued : t \in DOMAIN issued' /\ issued'[t] = issued[t]
<1>1. job[c].pc # "none" /\ DOMAIN job = Callers
  <2>1. job[c].pc \in {"start", "load", "listen", "login", "request", "store", "write", "unlinked"}
    BY Zenon DEF OAuthStep, FindEndpoints, LoadCached, Listen, Login, RequestToken, Store, Write,
       WriteUnlinked, At
  <2>. QED
    BY <2>1 DEF OAuthInv
<1>2. DOMAIN job[c] = JobFields
  BY <1>1 DEF OAuthInv, JobInv, NoJob
<1>3. \E j : /\ job' = [job EXCEPT ![c] = j] /\ j.pc # "none"
             /\ j.requirement = job[c].requirement /\ j.interactive = job[c].interactive
  <2>1. ASSUME NEW pc, pc # "none", Goto(c, pc)
        PROVE  \E j : /\ job' = [job EXCEPT ![c] = j] /\ j.pc # "none"
                      /\ j.requirement = job[c].requirement
                      /\ j.interactive = job[c].interactive
    <3>. DEFINE j == [job[c] EXCEPT !.pc = pc]
    <3>1. job' = [job EXCEPT ![c] = j]
      BY <2>1 DEF Goto
    <3>2. j.pc = pc /\ j.requirement = job[c].requirement /\ j.interactive = job[c].interactive
      BY <1>2, GotoKeeps
    <3>. HIDE DEF j
    <3>. QED
      BY <2>1, <3>1, <3>2
  <2>2. CASE FindEndpoints(c) /\ ~Failed(c)
    <3>1. PICK urls : job' = [job EXCEPT ![c].urls = urls, ![c].pc = "load"]
      BY <2>2, Zenon DEF FindEndpoints
    <3>. DEFINE j == [job[c] EXCEPT !.urls = urls, !.pc = "load"]
    <3>2. job' = [job EXCEPT ![c] = j]
      BY <1>1, <3>1
    <3>3. j.pc = "load" /\ j.requirement = job[c].requirement
          /\ j.interactive = job[c].interactive
      BY <1>2 DEF JobFields
    <3>. HIDE DEF j
    <3>. QED
      BY <3>2, <3>3
  <2>3. ASSUME NEW t, NEW pc, pc # "none", job' = [job EXCEPT ![c].token = t, ![c].pc = pc]
        PROVE  \E j : /\ job' = [job EXCEPT ![c] = j] /\ j.pc # "none"
                      /\ j.requirement = job[c].requirement
                      /\ j.interactive = job[c].interactive
    <3>. DEFINE j == [job[c] EXCEPT !.token = t, !.pc = pc]
    <3>1. job' = [job EXCEPT ![c] = j]
      BY <1>1, <2>3
    <3>2. j.pc = pc /\ j.requirement = job[c].requirement /\ j.interactive = job[c].interactive
      BY <1>2 DEF JobFields
    <3>. HIDE DEF j
    <3>. QED
      BY <2>3, <3>1, <3>2
  <2>. QED
    BY <2>1, <2>2, <2>3 DEF OAuthStep, LoadCached, Listen, Login, RequestToken, Store, Write,
       WriteUnlinked, Failed
<1>4. UNCHANGED issued \/ \E x : issued' = Append(issued, x)
  BY Zenon DEF OAuthStep, FindEndpoints, LoadCached, Listen, Login, RequestToken, Store, Write,
     WriteUnlinked, Failed
<1>5. \A t \in DOMAIN issued : t \in DOMAIN issued' /\ issued'[t] = issued[t]
  BY <1>4, FitsLater DEF Fits
<1>. QED
  BY <1>1, <1>3, <1>5

LEMMA CallInvInit == Init => CallInv
  BY CredentialAssumption DEF Init, OAuthInit, CredentialInit, CallInv, GoodCall, NoCall, NoJob

LEMMA CallInvResolve ==
  ASSUME CallInv, OAuthInv, NEW c \in ToolCalls, ResolveRequirement(c)
  PROVE  CallInv'
<1>. DEFINE k == call[c]
<1>1. /\ c \in Callers /\ DOMAIN job = Callers /\ k.pc = "resolving" /\ k.pending = "none"
      /\ DOMAIN k = CallFields /\ k.operation \in Operations /\ Resolving(k, job[c])
  BY CredentialAssumption DEF CallInv, OAuthInv, GoodCall, NoCall, ResolveRequirement
<1>2. job[c].pc = "none" /\ Met(k, job[c]) = Current(k) \ k.left
  BY <1>1 DEF Resolving, Asks, Waiting, Met
<1>3. PICK r \in k.left :
        LET l == [k EXCEPT !.left = @ \ {r}]
            key == SecretKey(l.operation.service, r.name)
        IN \/ /\ ~Usable(l, r)
              /\ call' = [call EXCEPT ![c] = NextAlternative(l)]
              /\ UNCHANGED job
           \/ /\ Usable(l, r) /\ ~IsOAuth(r)
              /\ call' = [call EXCEPT ![c] = Planned(l, Target(r), StaticValue(r, Secrets[key]))]
              /\ UNCHANGED job
           \/ /\ Usable(l, r) /\ ~IsOAuth(r)
              /\ call' = [call EXCEPT ![c] = NextAlternative([l EXCEPT !.unread = @ \cup {r.name}])]
              /\ UNCHANGED job
           \/ /\ Usable(l, r) /\ IsOAuth(r)
              /\ call' = [call EXCEPT ![c] = [l EXCEPT !.pending = r.name]]
              /\ job' = [job EXCEPT ![c] = Begun("runtime", key, Secrets[key], r, Passes[l.pass])]
  BY Zenon DEF ResolveRequirement
<1>. DEFINE l == [k EXCEPT !.left = @ \ {r}]
            key == SecretKey(l.operation.service, r.name)
            u == [l EXCEPT !.unread = @ \cup {r.name}]
<1>4. /\ DOMAIN l = CallFields /\ l.pc = k.pc /\ l.operation = k.operation /\ l.pass = k.pass
      /\ l.next = k.next /\ l.left = k.left \ {r} /\ l.plan = k.plan /\ l.pending = k.pending
      /\ l.unread = k.unread
  BY <1>1 DEF CallFields
<1>5. \/ ~Usable(l, r) /\ call' = [call EXCEPT ![c] = NextAlternative(l)] /\ UNCHANGED job
      \/ /\ Usable(l, r) /\ ~IsOAuth(r) /\ UNCHANGED job
         /\ call' = [call EXCEPT ![c] = Planned(l, Target(r), StaticValue(r, Secrets[key]))]
      \/ call' = [call EXCEPT ![c] = NextAlternative(u)] /\ UNCHANGED job
      \/ /\ Usable(l, r) /\ IsOAuth(r) /\ call' = [call EXCEPT ![c] = [l EXCEPT !.pending = r.name]]
         /\ job' = [job EXCEPT ![c] = Begun("runtime", key, Secrets[key], r, Passes[l.pass])]
  BY <1>3
<1>. HIDE DEF l, key, u
<1>6. /\ Places(l) = Places(k) /\ Current(l) = Current(k) /\ l.left \subseteq Current(l)
      /\ r \in Current(l) \ l.left /\ NoneMet(l) /\ l.next \in Places(l) /\ l.pass \in {1, 2}
  BY <1>1, <1>4, SameOperation DEF Places, Current, Resolving, NoneMet
<1>7. PlanMeets(l, Current(l) \ (l.left \cup {r}))
  <2>1. Current(l) \ (l.left \cup {r}) = Met(k, job[c])
    BY <1>2, <1>4, <1>6
  <2>. QED
    BY <1>1, <1>4, <2>1, SameOperation DEF Resolving, PlanMeets
<1>8. CASE UNCHANGED job /\ \E n : GoodCall(n, job[c]) /\ call' = [call EXCEPT ![c] = n]
  BY <1>8, CallChanges DEF ResolveRequirement
<1>9. CASE ~Usable(l, r) /\ call' = [call EXCEPT ![c] = NextAlternative(l)] /\ UNCHANGED job
  <2>1. ~StaticallyMet(l, Current(l))
    BY <1>6, <1>9 DEF StaticallyMet
  <2>. QED
    BY <1>1, <1>2, <1>4, <1>6, <1>8, <1>9, <2>1, NextIsGood
<1>10. CASE /\ Usable(l, r) /\ ~IsOAuth(r) /\ UNCHANGED job
            /\ call' = [call EXCEPT ![c] = Planned(l, Target(r), StaticValue(r, Secrets[key]))]
  <2>1. Satisfies(l, r, StaticValue(r, Secrets[key]))
    BY <1>10 DEF Satisfies, key
  <2>. QED
    BY <1>1, <1>2, <1>4, <1>6, <1>7, <1>8, <1>10, <2>1, PlannedIsGood
<1>11. CASE /\ Usable(l, r) /\ IsOAuth(r) /\ call' = [call EXCEPT ![c] = [l EXCEPT !.pending = r.name]]
            /\ job' = [job EXCEPT ![c] = Begun("runtime", key, Secrets[key], r, Passes[l.pass])]
  <2>. DEFINE n == [l EXCEPT !.pending = r.name]
              j == Begun("runtime", key, Secrets[key], r, Passes[l.pass])
  <2>1. /\ DOMAIN n = CallFields /\ n.pc = l.pc /\ n.operation = l.operation /\ n.pass = l.pass
        /\ n.next = l.next /\ n.left = l.left /\ n.plan = l.plan /\ n.pending = r.name
        /\ n.unread = l.unread
    BY <1>4 DEF CallFields
  <2>2. j.pc = "start" /\ j.requirement = r /\ j.interactive = Passes[l.pass]
    BY DEF Begun
  <2>3. /\ job'[c] = j /\ call' = [call EXCEPT ![c] = n]
        /\ \A d \in ToolCalls : d # c => job'[d] = job[d]
    BY <1>1, <1>11, CredentialAssumption
  <2>. HIDE DEF n, j
  <2>4. r.name # "none"
    BY <1>6, RequirementsAreNamed
  <2>5. Places(n) = Places(l) /\ Current(n) = Current(l) /\ Waiting(n)
    BY <2>1, <2>4 DEF Places, Current, Waiting
  <2>6. Met(n, j) = Current(l) \ (l.left \cup {r})
    BY <2>1, <2>2, <2>5 DEF Met
  <2>7. PlanMeets(n, Met(n, j)) /\ NoneMet(n)
    BY <1>6, <1>7, <2>1, <2>5, <2>6, SameOperation DEF PlanMeets, NoneMet
  <2>8. Asks(n, j)
    BY <1>6, <1>11, <2>1, <2>2, <2>5 DEF Asks
  <2>9. Resolving(n, j)
    BY <1>6, <2>1, <2>5, <2>7, <2>8 DEF Resolving
  <2>10. GoodCall(n, j)
    BY <1>1, <1>4, <2>1, <2>9 DEF GoodCall
  <2>. QED
    BY <2>3, <2>10, CallChanges DEF ResolveRequirement
<1>12. CASE call' = [call EXCEPT ![c] = NextAlternative(u)] /\ UNCHANGED job
  <2>1. /\ DOMAIN u = CallFields /\ u.pc = l.pc /\ u.operation = l.operation /\ u.pass = l.pass
        /\ u.next = l.next /\ u.unread = l.unread \cup {r.name}
    BY <1>4 DEF CallFields, u
  <2>2. Places(u) = Places(l) /\ Current(u) = Current(l)
    BY <2>1 DEF Places, Current
  <2>3. \A a : StaticallyMet(u, a) => StaticallyMet(l, a)
    BY <2>1 DEF StaticallyMet, Usable
  <2>4. NoneMet(u)
    BY <1>6, <2>1, <2>2, <2>3 DEF NoneMet
  <2>5. ~StaticallyMet(u, Current(u))
    BY <1>6, <2>1, <2>2 DEF StaticallyMet
  <2>. QED
    BY <1>1, <1>2, <1>4, <1>6, <1>8, <1>12, <2>1, <2>2, <2>4, <2>5, NextIsGood
<1>. QED
  BY <1>5, <1>9, <1>10, <1>11, <1>12

LEMMA CallInvResolved ==
  ASSUME CallInv, OAuthInv, NEW c \in ToolCalls, TokenResolved(c)
  PROVE  CallInv'
<1>. DEFINE k == call[c]
            r == job[c].requirement
            value == <<"Bearer", job[c].token>>
<1>1. /\ c \in Callers /\ DOMAIN job = Callers /\ k.pc = "resolving" /\ Waiting(k)
      /\ DOMAIN k = CallFields /\ k.operation \in Operations /\ Resolving(k, job[c])
  BY CredentialAssumption DEF CallInv, OAuthInv, GoodCall, NoCall, TokenResolved, Waiting
<1>2. /\ r \in Current(k) \ k.left /\ IsOAuth(r) /\ Target(r) = Authorization
      /\ Met(k, job[c]) = Current(k) \ (k.left \cup {r}) /\ NoJob.pc = "none"
  BY <1>1 DEF Resolving, Asks, Met, IsOAuth, Target, NoJob
<1>3. job'[c] = NoJob /\ \A d \in ToolCalls : d # c => job'[d] = job[d]
  BY <1>1, CredentialAssumption DEF TokenResolved
<1>4. ASSUME NEW n, GoodCall(n, NoJob), call' = [call EXCEPT ![c] = n] PROVE CallInv'
  BY <1>3, <1>4, CallChanges DEF TokenResolved
<1>5. CASE At(c, "done") /\ call' = [call EXCEPT ![c] = Planned(k, Authorization, value)]
  <2>1. Fits(job[c].token, Form(job[c])) /\ DOMAIN job[c] = JobFields
    BY <1>1, <1>5 DEF OAuthInv, JobInv, At, HoldsToken, NoJob
  <2>2. r.scopes \subseteq issued[job[c].token].form.scopes
    BY <2>1 DEF Fits, Form, JoinScopes
  <2>3. value[1] = "Bearer" /\ value[2] = job[c].token /\ Len(value) = 2
    OBVIOUS
  <2>4. Satisfies(k, r, value)
    BY <1>2, <2>1, <2>2, <2>3 DEF Satisfies, Fits
  <2>5. GoodCall(Planned(k, Target(r), value), NoJob)
    <3>. HIDE DEF k, r, value
    <3>. QED
      BY <1>1, <1>2, <2>4, PlannedIsGood DEF Resolving
  <2>. QED
    BY <1>2, <1>4, <1>5, <2>5
<1>6. CASE At(c, "failed") /\ call' = [call EXCEPT ![c] = NextAlternative(k)]
  <2>1. ~StaticallyMet(k, Current(k))
    BY <1>2 DEF StaticallyMet
  <2>2. GoodCall(NextAlternative(k), NoJob)
    BY <1>1, <1>2, <2>1, NextIsGood DEF Resolving
  <2>. QED
    BY <1>4, <1>6, <2>2
<1>. QED
  BY <1>5, <1>6 DEF TokenResolved

LEMMA CallInvNext == OAuthInv /\ CallInv /\ [Next]_vars => CallInv'
<1>. SUFFICES ASSUME OAuthInv, CallInv, [Next]_vars PROVE CallInv'
  OBVIOUS
<1>1. DOMAIN job = Callers /\ ToolCalls \subseteq Callers /\ Cli \in Callers \ ToolCalls
  BY CredentialAssumption, SessionAssumption, CliIsNoToolCall DEF OAuthInv
<1>2. CASE UNCHANGED <<call, issued>> /\ \A c \in ToolCalls : job'[c] = job[c]
  BY <1>2, JobsChange
<1>3. ASSUME NEW c \in Callers, OAuthStep(c), UNCHANGED call PROVE CallInv'
  <2>1. \A d \in Callers : /\ (job[d].pc = "none") <=> (job'[d].pc = "none")
                           /\ job[d].pc # "none" => /\ job'[d].requirement = job[d].requirement
                                                   /\ job'[d].interactive = job[d].interactive
    BY <1>3, JobsKeep
  <2>2. \A t \in DOMAIN issued : t \in DOMAIN issued' /\ issued'[t] = issued[t]
    BY <1>3, JobsKeep
  <2>. QED
    BY <1>1, <1>3, <2>1, <2>2, JobsChange
<1>4. ASSUME NEW c \in ToolCalls, CredentialStep(c) PROVE CallInv'
  <2>1. GoodCall(call[c], job[c]) /\ (call[c].pc = "resolving" => Resolving(call[c], job[c]))
    BY DEF CallInv, GoodCall
  <2>2. ASSUME NEW o \in Operations, StartCall(c, o) PROVE CallInv'
    <3>. DEFINE first == FirstOf(DOMAIN AuthAlternatives(o))
                none == DOMAIN AuthAlternatives(o) = {}
                k == [pc |-> IF none THEN "ready" ELSE "resolving",
                      operation |-> o, pass |-> 1, next |-> IF none THEN 0 ELSE first,
                      left |-> IF none THEN {} ELSE AuthAlternatives(o)[first],
                      plan |-> NoPlan, pending |-> "none", unread |-> {}]
    <3>1. call' = [call EXCEPT ![c] = k] /\ UNCHANGED <<job, issued>> /\ call[c].pc = "idle"
      BY <2>2, Zenon DEF StartCall, oauthVars
    <3>2. job[c].pc = "none"
      BY <2>1, <3>1 DEF GoodCall
    <3>3. /\ DOMAIN k = CallFields /\ k.operation = o /\ k.pass = 1 /\ k.plan = NoPlan
          /\ k.pending = "none" /\ Places(k) = DOMAIN AuthAlternatives(o)
          /\ k.pc \in {"ready", "resolving"} /\ (k.pc = "ready") = none
      BY DEF CallFields, Places
    <3>4. ~none => k.next = first /\ k.left = AuthAlternatives(o)[first]
      OBVIOUS
    <3>5. Places(k) \subseteq Nat
      BY <3>3, PlacesAreOrdered
    <3>. HIDE DEF k
    <3>6. ~none => k.next \in Places(k) /\ \A i \in Places(k) : k.next <= i
      BY <3>3, <3>4, <3>5, FirstOfIsFirst
    <3>. HIDE DEF first
    <3>7. ~none => k.left = Current(k) /\ NoneMet(k)
      BY <3>3, <3>4, <3>5, <3>6 DEF Current, NoneMet
    <3>8. ~none => Met(k, job[c]) = {} /\ PlanMeets(k, {})
      BY <3>3, <3>7 DEF Met, PlanMeets, NoPlan
    <3>9. Asks(k, job[c])
      BY <3>2, <3>3 DEF Asks, Waiting
    <3>10. ~none => Resolving(k, job[c])
      BY <3>3, <3>6, <3>7, <3>8, <3>9 DEF Resolving
    <3>11. none => Whole(k)
      BY <3>3 DEF Whole
    <3>12. GoodCall(k, job[c])
      BY <3>2, <3>3, <3>10, <3>11 DEF GoodCall
    <3>. QED
      BY <3>1, <3>12, CallChanges
  <2>3. CASE ResolveRequirement(c) \/ TokenResolved(c)
    BY <2>3, CallInvResolve, CallInvResolved
  <2>4. CASE PlanReady(c)
    <3>. DEFINE k == [call[c] EXCEPT !.pc = "ready"]
    <3>1. /\ call' = [call EXCEPT ![c] = k] /\ UNCHANGED <<job, issued>>
          /\ call[c].pc = "resolving" /\ call[c].left = {} /\ call[c].pending = "none"
      BY <2>4 DEF PlanReady, oauthVars
    <3>2. DOMAIN call[c] = CallFields /\ call[c].operation \in Operations
      BY <2>1, <3>1 DEF GoodCall, NoCall
    <3>3. /\ DOMAIN k = CallFields /\ k.pc = "ready" /\ k.operation = call[c].operation
          /\ k.plan = call[c].plan
      BY <3>2 DEF CallFields
    <3>. HIDE DEF k
    <3>4. job[c].pc = "none" /\ Met(call[c], job[c]) = Current(call[c])
      BY <2>1, <3>1 DEF Resolving, Asks, Waiting, Met
    <3>5. PlanMeets(call[c], Current(call[c])) /\ call[c].next \in Places(call[c])
      BY <2>1, <3>1, <3>4 DEF Resolving
    <3>6. Whole(k)
      BY <3>3, <3>5, SameOperation DEF Whole, PlanMeets, Current, Places
    <3>7. GoodCall(k, job[c])
      BY <3>2, <3>3, <3>4, <3>6 DEF GoodCall
    <3>. QED
      BY <3>1, <3>7, CallChanges
  <2>5. CASE EndCall(c)
    <3>1. /\ call' = [call EXCEPT ![c] = NoCall] /\ UNCHANGED <<job, issued>>
          /\ call[c].pc \in {"ready", "failed"}
      BY <2>5 DEF EndCall, oauthVars
    <3>2. GoodCall(NoCall, job[c])
      BY <2>1, <3>1 DEF GoodCall, NoCall
    <3>. QED
      BY <3>1, <3>2, CallChanges
  <2>. QED
    BY <1>4, <2>2, <2>3, <2>4, <2>5 DEF CredentialStep
<1>5. CASE RuntimeExits
  <2>1. DOMAIN call' = ToolCalls /\ \A c \in ToolCalls : call'[c] = NoCall /\ job'[c] = NoJob
    BY <1>1, <1>5 DEF RuntimeExits
  <2>. QED
    BY <2>1 DEF CallInv, GoodCall, NoCall, NoJob
<1>6. CASE SessionClose
  <2>1. /\ UNCHANGED <<call, issued>>
        /\ job' = [c \in Callers |-> IF At(c, "write") /\ job[c].dir = "runtime"
                                     THEN [job[c] EXCEPT !.pc = "unlinked"] ELSE job[c]]
    BY <1>6 DEF SessionClose, ClearDirectory, credentialVars
  <2>2. \A c \in Callers : At(c, "write") => DOMAIN job[c] = JobFields
    BY DEF OAuthInv, JobInv, NoJob, At
  <2>3. ASSUME NEW c \in ToolCalls
        PROVE  /\ (job[c].pc = "none") <=> (job'[c].pc = "none")
               /\ job[c].pc # "none" => /\ job'[c].requirement = job[c].requirement
                                       /\ job'[c].interactive = job[c].interactive
    <3>1. CASE At(c, "write") /\ job[c].dir = "runtime"
      <4>1. job'[c] = [job[c] EXCEPT !.pc = "unlinked"]
        BY <1>1, <2>1, <3>1
      <4>2. /\ job'[c].pc = "unlinked" /\ job'[c].requirement = job[c].requirement
            /\ job'[c].interactive = job[c].interactive
        BY <1>1, <2>2, <3>1, <4>1, GotoKeeps
      <4>. QED
        BY <3>1, <4>2 DEF At
    <3>2. CASE ~(At(c, "write") /\ job[c].dir = "runtime")
      BY <1>1, <2>1, <3>2
    <3>. QED
      BY <3>1, <3>2
  <2>. QED
    BY <2>1, <2>3, JobsChange
<1>7. CASE SessionStep /\ UNCHANGED credentialVars
  <2>1. UNCHANGED call /\ (UNCHANGED job \/ \E j : job' = [job EXCEPT ![Cli] = j]) /\ UNCHANGED issued
    <3>1. CASE BrowserLogin
      BY <1>7, <3>1, Zenon DEF BrowserLogin, credentialVars
    <3>2. CASE BrowserLoginEnds \/ Interrupt
      BY <1>7, <3>2 DEF BrowserLoginEnds, Interrupt, credentialVars
    <3>3. CASE UNCHANGED oauthVars
      BY <1>7, <3>3 DEF oauthVars, credentialVars
    <3>. QED
      BY <1>7, <3>1, <3>2, <3>3 DEF SessionStep, Handshake, ProvidedToken, ClientToken,
         StartSession, Delegate, PreflightFails, Refresh, Send, Answer, TokenExpires, NextRun, Fail
  <2>. QED
    BY <1>1, <1>2, <2>1
<1>8. CASE UNCHANGED <<call, job, issued>>
  BY <1>2, <1>8
<1>. QED
  <2>1. CASE Runtime
    BY <1>1, <1>3, <1>4, <1>5, <1>6, <2>1 DEF Runtime, credentialVars
  <2>2. CASE Client
    BY <1>1, <1>3, <1>7, <2>2 DEF Client, credentialVars
  <2>3. CASE Time \/ UNCHANGED vars
    BY <1>8, <2>3 DEF Time, Lapse, vars, oauthVars, credentialVars
  <2>. QED
    BY <2>1, <2>2, <2>3 DEF Next

(* What a call has tried has no plan without a browser, and the plan that  *)
(* it puts together is what it has met of the alternative it is at.        *)
THEOREM CallInvariant == Spec => []CallInv
  BY CallInvInit, CallInvNext, OAuthInvariant, PTL DEF Spec

(* The plan a call is sent with is one alternative of its operation, whole *)
(* and nothing else, whatever the callers do to the caches and whenever    *)
(* the runtime is killed (resolveAuthPlan).                                *)
THEOREM PlansAreOneAlternative == Spec => []PlanIsOneAlternative
<1>1. CallInv => PlanIsOneAlternative
  BY DEF CallInv, GoodCall, Whole, PlanMeets, Places, PlanIsOneAlternative
<1>. QED
  BY <1>1, CallInvariant, PTL

(* A browser is opened only when no alternative of the operation would do  *)
(* without one, wherever it stands (resolveAuthPlan).                      *)
THEOREM NoNeedlessBrowser == Spec => []BrowserIsLastResort
<1>1. OAuthInv /\ CallInv => BrowserIsLastResort
  <2>. SUFFICES ASSUME OAuthInv, CallInv, NEW c \in ToolCalls, At(c, "login"),
                       NEW i \in DOMAIN AuthAlternatives(call[c].operation)
                PROVE  ~StaticallyMet(call[c], AuthAlternatives(call[c].operation)[i])
    BY DEF BrowserIsLastResort
  <2>1. job[c].interactive /\ job[c].pc # "none"
    BY CredentialAssumption DEF OAuthInv, JobInv, At
  <2>2. Resolving(call[c], job[c])
    BY <2>1 DEF CallInv, GoodCall
  <2>3. call[c].pass = 2
    <3>1. job[c].interactive = Passes[call[c].pass] /\ call[c].pass \in {1, 2}
      BY <2>1, <2>2 DEF Resolving, Asks
    <3>2. Passes[1] = FALSE
      BY DEF Passes
    <3>3. call[c].pass # 1
      BY <2>1, <3>1, <3>2
    <3>. QED
      BY <3>1, <3>3
  <2>. QED
    BY <2>2, <2>3 DEF Resolving, NoneMet, Places
<1>. QED
  BY <1>1, OAuthInvariant, CallInvariant, PTL

-----------------------------------------------------------------------------
(* The runs of the client.                                                 *)

Kinds == {"provided", "client", "browser", "delegated"}
Starting == {"handshake", "primary", "delegate"}
SessionType ==
  /\ granted \in Seq([kind : Kinds, timed : BOOLEAN])
  /\ primary \in 0 .. Len(granted)
  /\ session \in [token : 0 .. Len(granted), refreshable : BOOLEAN, refreshed : BOOLEAN,
                  forced : BOOLEAN]
  /\ sent \subseteq DOMAIN granted

SessionInv ==
  /\ SessionType
  /\ refreshes = IF session.refreshed THEN 1 ELSE 0
  /\ stage \in Starting => session.token = 0 /\ ~session.refreshed /\ sent = {}
  /\ remote.delegated =>
       /\ \A t \in sent : granted[t].kind = "delegated"
       /\ stage \notin Starting \cup {"ended"} =>
            session.token # 0 /\ granted[session.token].kind = "delegated"

(* A token that is granted is the next one, of its kind.                   *)
LEMMA Granted ==
  ASSUME SessionType, NEW kind \in Kinds, Grant(kind)
  PROVE  /\ granted' \in Seq([kind : Kinds, timed : BOOLEAN])
         /\ Len(granted) \in Nat /\ Len(granted') = Len(granted) + 1
         /\ DOMAIN granted = 1 .. Len(granted) /\ DOMAIN granted' = 1 .. Len(granted')
         /\ NewToken = Len(granted) + 1 /\ granted'[NewToken].kind = kind
         /\ \A t \in DOMAIN granted : granted'[t] = granted[t]
<1>1. PICK timed \in BOOLEAN : granted' = Append(granted, [kind |-> kind, timed |-> timed])
  BY DEF Grant
<1>. DEFINE token == [kind |-> kind, timed |-> timed]
<1>2. token \in [kind : Kinds, timed : BOOLEAN] /\ token.kind = kind
  OBVIOUS
<1>3. granted \in Seq([kind : Kinds, timed : BOOLEAN]) /\ granted' = Append(granted, token)
  BY <1>1 DEF SessionType
<1>. HIDE DEF token
<1>. QED
  BY <1>2, <1>3 DEF NewToken

(* The first token of a run, from a variable or from the browser.          *)
LEMMA FirstGranted ==
  ASSUME NEW kind \in Kinds, granted' = << [kind |-> kind, timed |-> FALSE] >>
  PROVE  granted' \in Seq([kind : Kinds, timed : BOOLEAN]) /\ Len(granted') = 1
<1>1. [kind |-> kind, timed |-> FALSE] \in [kind : Kinds, timed : BOOLEAN]
  OBVIOUS
<1>. QED
  BY <1>1

LEMMA SessionInvInit == SessionInit => SessionInv
<1>. SUFFICES ASSUME SessionInit PROVE SessionInv
  OBVIOUS
<1>1. SessionType
  BY DEF SessionInit, SessionType, NewSession
<1>. QED
  BY <1>1 DEF SessionInit, SessionInv, NewSession, Starting

(* A step that grants nothing and sends nothing, and that keeps the token  *)
(* of the session.                                                         *)
LEMMA InvMoves ==
  ASSUME SessionInv, UNCHANGED <<remote, primary, granted, sent, refreshes>>,
         \/ UNCHANGED session
         \/ \E forced \in BOOLEAN : session' = [session EXCEPT !.forced = forced],
         \/ stage' = stage
         \/ stage' = "ended"
         \/ stage \in Starting /\ stage' \in Starting
         \/ stage \notin Starting \cup {"ended"} /\ stage' \notin Starting
  PROVE  SessionInv'
<1>1. SessionType'
  BY DEF SessionInv, SessionType
<1>2. session'.token = session.token /\ session'.refreshed = session.refreshed
  BY DEF SessionInv, SessionType
<1>. QED
  BY <1>1, <1>2 DEF SessionInv, Starting

LEMMA InvPrimary ==
  ASSUME SessionInv, stage = "primary", stage' \in {"delegate", "ended"},
         UNCHANGED <<remote, session, sent, refreshes>>,
         \/ Grant("client") /\ primary' = NewToken
         \/ \E kind \in Kinds : granted' = << [kind |-> kind, timed |-> FALSE] >> /\ primary' = 1
         \/ UNCHANGED granted /\ primary' \in {0, primary}
  PROVE  SessionInv'
<1>1. SessionType /\ session.token = 0 /\ ~session.refreshed /\ sent = {} /\ refreshes = 0
  BY DEF SessionInv, Starting
<1>2. granted' \in Seq([kind : Kinds, timed : BOOLEAN]) /\ primary' \in 0 .. Len(granted')
  <2>1. CASE Grant("client") /\ primary' = NewToken
    BY <1>1, <2>1, Granted DEF Kinds
  <2>2. ASSUME NEW kind \in Kinds, primary' = 1,
               granted' = << [kind |-> kind, timed |-> FALSE] >>
        PROVE  granted' \in Seq([kind : Kinds, timed : BOOLEAN]) /\ primary' \in 0 .. Len(granted')
    BY <2>2, FirstGranted
  <2>3. CASE UNCHANGED granted /\ primary' \in {0, primary}
    BY <1>1, <2>3 DEF SessionType
  <2>. QED
    BY <2>1, <2>2, <2>3
<1>3. SessionType'
  BY <1>1, <1>2 DEF SessionType
<1>. QED
  BY <1>1, <1>3 DEF SessionInv, Starting

LEMMA InvSession ==
  ASSUME SessionInv, stage = "delegate", stage' = "catalog", UNCHANGED <<remote, sent, refreshes>>,
         NEW refreshable \in BOOLEAN,
         \/ ~remote.delegated /\ UNCHANGED <<primary, granted>>
            /\ session' = NewSession(primary, refreshable)
         \/ Grant("delegated") /\ UNCHANGED primary
            /\ session' = NewSession(NewToken, refreshable)
  PROVE  SessionInv'
<1>1. SessionType /\ sent = {} /\ refreshes = 0
  BY DEF SessionInv, Starting
<1>2. CASE ~remote.delegated /\ UNCHANGED <<primary, granted>>
           /\ session' = NewSession(primary, refreshable)
  <2>1. SessionType'
    BY <1>1, <1>2 DEF SessionType, NewSession
  <2>. QED
    BY <1>1, <1>2, <2>1 DEF SessionInv, Starting, NewSession
<1>3. CASE Grant("delegated") /\ UNCHANGED primary /\ session' = NewSession(NewToken, refreshable)
  <2>1. /\ granted' \in Seq([kind : Kinds, timed : BOOLEAN])
        /\ Len(granted) \in Nat /\ Len(granted') = Len(granted) + 1
        /\ NewToken = Len(granted) + 1 /\ granted'[NewToken].kind = "delegated"
    BY <1>1, <1>3, Granted DEF Kinds
  <2>2. SessionType'
    BY <1>1, <1>3, <2>1 DEF SessionType, NewSession
  <2>3. session'.token = NewToken /\ session'.refreshed = FALSE
    BY <1>3 DEF NewSession
  <2>. QED
    BY <1>1, <1>3, <2>1, <2>2, <2>3 DEF SessionInv, Starting
<1>. QED
  BY <1>2, <1>3

(* The one refresh of a run.                                               *)
LEMMA InvRefresh ==
  ASSUME SessionInv, Refresh
  PROVE  SessionInv'
<1>1. SessionType /\ ~session.refreshed /\ refreshes = 0 /\ stage \in {"catalog", "command"}
      /\ stage' \notin Starting
  BY DEF SessionInv, Refresh, Refreshable, Asking, Starting, Is
<1>2. RefreshKind \in Kinds /\ (remote.delegated => RefreshKind = "delegated")
  BY DEF RefreshKind, Kinds
<1>3. /\ granted' \in Seq([kind : Kinds, timed : BOOLEAN])
      /\ Len(granted) \in Nat /\ Len(granted') = Len(granted) + 1
      /\ DOMAIN granted = 1 .. Len(granted) /\ DOMAIN granted' = 1 .. Len(granted')
      /\ NewToken = Len(granted) + 1 /\ granted'[NewToken].kind = RefreshKind
      /\ \A t \in DOMAIN granted : granted'[t] = granted[t]
  BY <1>1, <1>2, Granted DEF Refresh
<1>4. /\ session' = [session EXCEPT !.token = NewToken, !.forced = FALSE, !.refreshed = TRUE]
      /\ refreshes' = refreshes + 1 /\ sent' = sent \cup {NewToken}
      /\ UNCHANGED <<remote, primary>>
  BY DEF Refresh, Refreshed, Is
<1>5. SessionType'
  <2>1. NewToken \in 0 .. Len(granted') /\ primary' \in 0 .. Len(granted')
    BY <1>1, <1>3, <1>4 DEF SessionType
  <2>2. session' \in [token : 0 .. Len(granted'), refreshable : BOOLEAN, refreshed : BOOLEAN,
                      forced : BOOLEAN]
    BY <1>1, <1>4, <2>1 DEF SessionType
  <2>3. sent' \subseteq DOMAIN granted'
    BY <1>1, <1>3, <1>4 DEF SessionType
  <2>. QED
    BY <1>3, <2>1, <2>2, <2>3 DEF SessionType
<1>6. session'.token = NewToken /\ session'.refreshed = TRUE
  BY <1>1, <1>4 DEF SessionType
<1>7. remote.delegated => /\ \A t \in sent' : granted'[t].kind = "delegated"
                          /\ session'.token # 0 /\ granted'[session'.token].kind = "delegated"
  BY <1>1, <1>2, <1>3, <1>4, <1>6 DEF SessionInv, SessionType
<1>. QED
  BY <1>1, <1>4, <1>5, <1>6, <1>7 DEF SessionInv

LEMMA InvSend ==
  ASSUME SessionInv, Send
  PROVE  SessionInv'
<1>1. SessionType /\ stage \in {"catalog", "command"} /\ stage' \notin Starting
      /\ DOMAIN granted = 1 .. Len(granted)
  BY DEF SessionInv, SessionType, Send, Asking, Starting, Is
<1>2. sent' = sent \cup ({session.token} \ {0})
      /\ UNCHANGED <<remote, primary, session, granted, refreshes>>
  BY DEF Send, Is
<1>3. SessionType'
  BY <1>1, <1>2 DEF SessionType
<1>. QED
  BY <1>1, <1>2, <1>3 DEF SessionInv, Starting

LEMMA SessionInvStep ==
  ASSUME SessionInv, SessionStep
  PROVE  SessionInv'
<1>1. CASE Handshake \/ TokenExpires \/ Interrupt \/ BrowserLogin
  <2>1. /\ UNCHANGED <<remote, primary, session, granted, sent, refreshes>>
        /\ stage' \in {stage, "ended"} \/ (stage = "handshake" /\ stage' = "primary")
    <3>1. CASE Handshake
      BY <3>1 DEF Handshake, Fail, Is
    <3>2. CASE TokenExpires
      BY <3>2 DEF TokenExpires
    <3>3. CASE Interrupt
      BY <3>3 DEF Interrupt
    <3>4. CASE BrowserLogin
      <4>1. UNCHANGED sessionVars
        BY <3>4, Zenon DEF BrowserLogin
      <4>. QED
        BY <4>1 DEF sessionVars
    <3>. QED
      BY <1>1, <3>1, <3>2, <3>3, <3>4
  <2>. QED
    BY <2>1, InvMoves DEF Starting
<1>2. CASE ProvidedToken \/ ClientToken \/ BrowserLoginEnds
  BY <1>2, InvPrimary, InvMoves DEF ProvidedToken, ClientToken, BrowserLoginEnds, Fail, Is, Kinds
<1>3. CASE StartSession \/ Delegate
  BY <1>3, InvSession, InvMoves DEF StartSession, Delegate, Fail, Is
<1>4. CASE PreflightFails
  BY <1>4, InvMoves DEF PreflightFails, Fail
<1>5. CASE Refresh \/ Send
  BY <1>5, InvRefresh, InvSend
<1>6. ASSUME NEW answer, Answer(answer) PROVE SessionInv'
  <2>1. stage \in {"catalog_sent", "command_sent"} /\ stage' \in {"ended", "command"}
    BY <1>6 DEF Answer, CatalogAnswer, CommandAnswer, Is
  <2>2. \E forced \in BOOLEAN : session' = [session EXCEPT !.forced = forced]
    BY <1>6 DEF Answer
  <2>. QED
    BY <1>6, <2>1, <2>2, InvMoves DEF Answer, Starting
<1>7. CASE NextRun
  <2>1. granted' = << >> /\ sent' = {} /\ primary' = 0 /\ session' = NewSession(0, FALSE)
        /\ refreshes' = 0 /\ stage' = "handshake"
    BY <1>7 DEF NextRun, Fresh
  <2>2. SessionType'
    BY <2>1 DEF SessionType, NewSession
  <2>. QED
    BY <2>1, <2>2 DEF SessionInv, Starting, NewSession
<1>. QED
  BY <1>1, <1>2, <1>3, <1>4, <1>5, <1>6, <1>7 DEF SessionStep

LEMMA SessionInvNext == SessionInv /\ [Next]_vars => SessionInv'
<1>. SUFFICES ASSUME SessionInv, [Next]_vars PROVE SessionInv'
  OBVIOUS
<1>1. SessionStep \/ UNCHANGED sessionVars
  BY DEF Next, Runtime, Client, Time, vars
<1>. QED
  BY <1>1, SessionInvStep, InvMoves DEF sessionVars

(* The invariant of a run of the CLI: where it is, it has the tokens it    *)
(* needs, and it refreshes only while it may (TokenSession).               *)
THEOREM SessionInvariant == Spec => []SessionInv
<1>1. Init => SessionInv
  BY SessionInvInit DEF Init
<1>. QED
  BY <1>1, SessionInvNext, PTL DEF Spec

(* However often the token is about to expire and the runtime rejects it,  *)
(* and whatever the user does between runs, a run refreshes its token once *)
(* at the most (TokenSession).                                             *)
THEOREM OneRefreshPerRun == Spec => []RefreshOnce
<1>1. SessionInv => RefreshOnce
  BY DEF SessionInv, RefreshOnce
<1>. QED
  BY <1>1, SessionInvariant, PTL

(* A runtime that wants delegated tokens is sent no other, in any mode and *)
(* after a refresh too (resolveDelegatedRuntimeToken).                     *)
THEOREM OnlyDelegatedIsSent == Spec => []DelegatedOnly
<1>1. SessionInv => DelegatedOnly
  BY DEF SessionInv, DelegatedOnly
<1>. QED
  BY <1>1, SessionInvariant, PTL
=============================================================================
