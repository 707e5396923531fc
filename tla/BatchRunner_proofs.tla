-------------------------- MODULE BatchRunner_proofs --------------------------
(***************************************************************************)
(* Proofs about BatchRunner and the sign-in under it, for any logins,      *)
(* visits, queue, faults and bounds: type correctness, that a refresh      *)
(* token is used once whoever asks for credentials, that a stop leaves at  *)
(* most one stream, and that logins made one at a time never wedge the     *)
(* prompt.                                                                 *)
(***************************************************************************)
EXTENDS BatchRunner, TLAPS

Nobody == Credentials \cup {Absent}

\* What a token was presented for: it is in the one exchange under way, or was
\* used up by one that succeeded, and then it is no longer what is stored.
TokensKept ==
  /\ Stored \in Nobody
  /\ \A t \in Tokens : presented[t] \in {0, 1} /\ (t > minted => presented[t] = 0)
  /\ inflight # Absent => inflight.refresh <= minted /\ presented[inflight.refresh] = 1
  /\ Stored # Absent =>
       /\ Stored.refresh <= minted
       /\ \/ presented[Stored.refresh] = 0
          \/ inflight # Absent /\ inflight.refresh = Stored.refresh

\* A loop at the head of its table is at a row, or past the last one.
Positioned == \A v \in Visits : batch[v].at = "next" => batch[v].idx # 0

IInv == TypeOK /\ TokensKept /\ Positioned

LoginRest == UNCHANGED <<clock, keyring, vault, inflight, minted, exchanged, presented>>

-------------------------------------------------------------------------------
(* The vault ---------------------------------------------------------------*)
\* Credentials are never the mark for none.
LEMMA CredentialsAreThere == Absent \notin Credentials
  BY AbsentAssumption, LifeAssumption DEF Credentials, Tokens

\* What the provider hands out are credentials, while there are any left.
LEMMA MintedIsCredentials ==
  ASSUME LoginTypeOK, minted < MaxMinted
  PROVE  Minted \in Credentials /\ Minted.refresh = minted + 1
<1>1. clock + Life \in 0 .. MaxTime + Life /\ minted + 1 \in 1 .. MaxMinted
  BY LifeAssumption DEF LoginTypeOK
<1> QED
  BY <1>1 DEF Minted, Credentials, Tokens

\* The vault's part of the type invariant.
VaultOK(w) == w.file \in Files /\ w.entries \in [Names -> Credentials \cup {Key, Absent}]

\* A secret that was set is what is read back.
LEMMA SetReadsBack ==
  ASSUME VaultOK(vault), NEW c \in Nobody
  PROVE  LET w == SetSecret(vault, "oauth:openai", c)
         IN  VaultOK(w) /\ GetSecret(w, "oauth:openai") = c
  BY NamesAssumption DEF VaultOK, Nobody, SetSecret, GetSecret, ReadFile, Blank, Files

\* A secret that was deleted is gone, and the rest of the file is a vault.
LEMMA DeleteReadsBack ==
  ASSUME VaultOK(vault)
  PROVE  LET w == DeleteSecret(vault, "oauth:openai")
         IN  VaultOK(w) /\ GetSecret(w, "oauth:openai") = Absent
<1>1. CASE GetSecret(vault, "oauth:openai") = Absent
  BY <1>1, NamesAssumption DEF VaultOK, DeleteSecret, AfterRead, GetSecret, ReadFile, Blank, Files
<1>2. CASE GetSecret(vault, "oauth:openai") # Absent
  BY <1>2, SetReadsBack DEF DeleteSecret, Nobody
<1> QED
  BY <1>1, <1>2

\* Who waits for an exchange finds credentials to exchange.
LEMMA LoadedIsStored ==
  ASSUME TokensKept, LoadStored # Absent
  PROVE  LoadStored = Stored /\ Stored \in Credentials
  BY DEF LoadStored, TokensKept, Nobody

-------------------------------------------------------------------------------
(* The sign-in -------------------------------------------------------------*)
LoginPart == LoginTypeOK /\ TokensKept

\* At the start nobody is signed in.
LEMMA InitLogin == Init => LoginPart
<1> SUFFICES ASSUME Init PROVE LoginPart
  OBVIOUS
<1> USE DEF Init, LoginInit
<1>1. VaultOK(vault) /\ Stored = Absent
  BY VaultsAssumption, NamesAssumption DEF VaultOK, Stored, GetSecret, ReadFile, Blank
<1>2. keyring \in BOOLEAN
  BY KeyringsAssumption
<1>3. LoginTypeOK
  BY <1>1, <1>2, LifeAssumption DEF LoginTypeOK, VaultOK
<1>4. TokensKept
  BY <1>1 DEF TokensKept, Nobody, Tokens
<1> QED
  BY <1>3, <1>4 DEF LoginPart

\* Asking for credentials presents a token only when nobody presents one, and
\* then the stored one, which nobody has presented.
LEMMA AwaitKeeps == ASSUME LoginPart, AwaitRefresh PROVE LoginPart' /\ inflight' # Absent
<1> USE DEF LoginPart, AwaitRefresh
<1>0. LoadStored = Stored /\ Stored \in Credentials /\ Stored # Absent
  BY LoadedIsStored DEF Stale
<1>a. Stored.refresh \in Tokens /\ presented \in [Tokens -> Nat]
  BY <1>0 DEF Credentials, LoginTypeOK
<1>b. Stored' = Stored
  BY DEF Stored
<1>1. CASE MayExchange
  <2>1. inflight = Absent /\ inflight' = Stored
    BY <1>0, <1>1 DEF MayExchange
  <2>2. presented' = [presented EXCEPT ![Stored.refresh] = @ + 1]
    BY <1>0, <1>1
  <2>3. presented[Stored.refresh] = 0 /\ Stored.refresh <= minted
    BY <1>0, <2>1 DEF TokensKept
  <2>4. LoginTypeOK'
    BY <1>0, <1>a, <2>1, <2>2 DEF LoginTypeOK
  <2>5. \A t \in Tokens : presented'[t] \in {0, 1} /\ (t > minted => presented'[t] = 0)
    BY <1>a, <2>2, <2>3 DEF TokensKept, Tokens, LoginTypeOK
  <2>6. inflight'.refresh <= minted /\ presented'[inflight'.refresh] = 1
    BY <1>a, <2>1, <2>2, <2>3
  <2>7. TokensKept'
    BY <1>0, <1>b, <2>1, <2>3, <2>5, <2>6 DEF TokensKept, Nobody
  <2> QED
    BY <1>0, <2>1, <2>4, <2>7
<1>2. CASE ~MayExchange
  BY <1>2, <1>b DEF LoginTypeOK, TokensKept, MayExchange
<1> QED
  BY <1>1, <1>2

\* The end of an exchange: the token it used up is replaced in the vault, or it
\* came to nothing and counts as not presented.
LEMMA RefreshKeeps ==
  ASSUME LoginPart, NEW result \in Credentials, RefreshEnds(result)
  PROVE  LoginPart'
<1> USE DEF LoginPart
<1>a. /\ clock \in 0..MaxTime /\ keyring \in BOOLEAN /\ VaultOK(vault)
      /\ minted \in 0..MaxMinted /\ presented \in [Tokens -> Nat]
  BY DEF LoginTypeOK, VaultOK
<1>b. /\ inflight \in Credentials /\ inflight # Absent /\ inflight' = Absent
      /\ inflight.refresh \in Tokens
  BY DEF RefreshEnds, LoginTypeOK, Credentials
<1>c. presented[inflight.refresh] = 1
  BY <1>b DEF TokensKept
<1>d. UNCHANGED <<clock, keyring, login, resolver, cleanup>>
  BY DEF RefreshEnds
<1>e. minted' \in 0..MaxMinted /\ minted' >= minted /\ exchanged' \subseteq Tokens
  BY <1>a, <1>b, LifeAssumption DEF RefreshEnds, LoginTypeOK
<1>1. CASE /\ CanPersist /\ minted < MaxMinted /\ minted' = minted + 1
           /\ vault' = SetSecret(vault, "oauth:openai", Minted)
           /\ UNCHANGED presented
  <2>1. Minted \in Credentials /\ Minted.refresh = minted + 1
    BY <1>1, MintedIsCredentials
  <2>2. VaultOK(vault') /\ Stored' = Minted
    BY <1>1, <1>a, <2>1, SetReadsBack DEF Stored, Nobody
  <2>3. LoginTypeOK'
    BY <1>1, <1>b, <1>d, <1>e, <2>2 DEF LoginTypeOK, VaultOK
  <2>4. Minted.refresh \in Tokens /\ presented[Minted.refresh] = 0
    BY <2>1, <1>a DEF TokensKept, Credentials
  <2>5. \A t \in Tokens : presented[t] \in {0, 1} /\ (t > minted' => presented[t] = 0)
    BY <1>1, <1>a DEF TokensKept, Tokens
  <2> QED
    BY <1>1, <1>a, <1>b, <2>1, <2>2, <2>3, <2>4, <2>5 DEF TokensKept, Nobody
<1>2. CASE /\ presented' = [presented EXCEPT ![inflight.refresh] = @ - 1]
           /\ UNCHANGED vault
  <2>1. Stored' = Stored
    BY <1>2 DEF Stored
  <2>2. presented' \in [Tokens -> Nat] /\ presented'[inflight.refresh] = 0
    BY <1>2, <1>a, <1>b, <1>c
  <2>3. LoginTypeOK'
    BY <1>2, <1>b, <1>d, <1>e, <2>2 DEF LoginTypeOK
  <2>4. \A t \in Tokens : /\ presented'[t] \in {0, 1}
                          /\ t > minted' => presented'[t] = 0
    BY <1>2, <1>a, <1>b, <1>e, <2>2 DEF TokensKept, Tokens
  <2>5. Stored # Absent =>
          Stored.refresh \in Tokens /\ Stored.refresh <= minted' /\ presented'[Stored.refresh] = 0
    <3> SUFFICES ASSUME Stored # Absent
                 PROVE  Stored.refresh \in Tokens /\ Stored.refresh <= minted'
                          /\ presented'[Stored.refresh] = 0
      OBVIOUS
    <3>1. Stored.refresh \in Tokens /\ Stored.refresh <= minted
      BY DEF TokensKept, Nobody, Credentials
    <3>2. presented[Stored.refresh] = 0 \/ inflight.refresh = Stored.refresh
      BY DEF TokensKept
    <3> QED
      BY <1>2, <1>a, <1>b, <1>e, <2>2, <3>1, <3>2 DEF Tokens
  <2> QED
    BY <1>b, <2>1, <2>3, <2>4, <2>5 DEF TokensKept, Nobody
<1> QED
  BY <1>1, <1>2 DEF RefreshEnds

LoginStates == [Logins -> [at : {"idle", "begun", "waiting", "over"},
                           timer : {"none", "armed", "fired", "cleared"}]]

\* The end of a login leaves every login a record of its own kind.
LEMMA EndsTyped ==
  ASSUME LoginTypeOK, NEW l \in Logins, Finally(l)
  PROVE  /\ login' \in LoginStates /\ resolver' = Absent /\ cleanup' = Absent
         /\ login' \in [Logins -> [at : {"idle", "begun", "waiting", "over"},
                                   timer : {"none", "armed", "fired", "cleared"}]]
  BY DEF Finally, LoginTypeOK, LoginStates

\* Every step of the sign-in but the end of an exchange keeps types and tokens.
LEMMA LoginStepKeeps == ASSUME LoginPart, LoginStep PROVE LoginPart'
<1> USE DEF LoginPart
<1>a. /\ clock \in 0..MaxTime /\ keyring \in BOOLEAN /\ VaultOK(vault)
      /\ minted \in 0..MaxMinted /\ presented \in [Tokens -> Nat]
  BY DEF LoginTypeOK, VaultOK
<1>1. ASSUME NEW l \in Logins,
             StartLogin(l) \/ OnManualCodeInput(l) \/ FallbackTimer(l) \/ OnPrompt(l) \/ LoginFails(l)
      PROVE  LoginPart'
  <2>1. LoginTypeOK'
    <3>1. CASE StartLogin(l)
      BY <3>1 DEF LoginTypeOK, StartLogin
    <3>2. CASE OnManualCodeInput(l)
      BY <3>2 DEF LoginTypeOK, OnManualCodeInput
    <3>3. CASE FallbackTimer(l)
      BY <3>3 DEF LoginTypeOK, FallbackTimer
    <3>4. CASE OnPrompt(l)
      BY <3>4 DEF LoginTypeOK, OnPrompt
    <3>5. CASE LoginFails(l)
      BY <3>5, EndsTyped DEF LoginTypeOK, LoginFails
    <3> QED
      BY <1>1, <3>1, <3>2, <3>3, <3>4, <3>5
  <2>2. LoginRest
    BY <1>1 DEF LoginRest, StartLogin, OnManualCodeInput, FallbackTimer, OnPrompt,
                LoginFails
  <2>3. TokensKept'
    BY <2>2 DEF TokensKept, Stored, LoginRest
  <2> QED
    BY <2>1, <2>3
<1>2. ASSUME NEW l \in Logins, LoginSucceeds(l) PROVE LoginPart'
  <2> USE DEF LoginSucceeds
  <2>1. Minted \in Credentials /\ Minted.refresh = minted + 1
    BY <1>2, MintedIsCredentials
  <2>2. VaultOK(vault') /\ (Stored' = Minted \/ Stored' = Stored)
    BY <1>2, <1>a, <2>1, SetReadsBack DEF Stored, Nobody
  <2>3. login' \in LoginStates
    BY <1>2, EndsTyped
  <2>4. LoginTypeOK'
    <3>1. minted' \in 0..MaxMinted
      BY <1>2, <1>a, LifeAssumption
    <3>2. resolver' = Absent /\ cleanup' = Absent
      BY <1>2 DEF Finally
    <3> QED
      BY <1>2, <2>2, <2>3, <3>1, <3>2 DEF LoginTypeOK, VaultOK, LoginStates
  <2>5. TokensKept'
    <3>1. \A t \in Tokens : presented[t] \in {0, 1} /\ (t > minted' => presented[t] = 0)
      BY <1>2, <1>a DEF TokensKept, Tokens
    <3>2. inflight # Absent => inflight.refresh <= minted' /\ presented[inflight.refresh] = 1
      BY <1>2, <1>a DEF TokensKept, LoginTypeOK, Credentials, Tokens
    <3>3. CASE Stored' = Minted
      <4>1. Minted.refresh \in Tokens /\ Minted.refresh > minted
        BY <2>1, <1>a DEF Credentials
      <4>2. presented[Minted.refresh] = 0
        BY <4>1 DEF TokensKept
      <4> QED
        BY <1>2, <2>1, <3>1, <3>2, <3>3, <4>2, <1>a DEF TokensKept, Nobody
    <3>4. CASE Stored' = Stored
      <4>1. Stored # Absent => Stored.refresh \in Nat /\ Stored.refresh <= minted
        BY DEF TokensKept, Nobody, Credentials, Tokens
      <4> QED
        BY <1>2, <3>1, <3>2, <3>4, <4>1, <1>a DEF TokensKept, Nobody
    <3> QED
      BY <2>2, <3>3, <3>4
  <2> QED
    BY <2>4, <2>5
<1>3. CASE HandlePromptResponse \/ Tick
  <2>1. LoginTypeOK'
    BY <1>3, <1>a, LifeAssumption DEF LoginTypeOK, HandlePromptResponse, Tick
  <2>2. UNCHANGED <<vault, inflight, minted, presented>>
    BY <1>3 DEF HandlePromptResponse, Tick
  <2>3. TokensKept'
    BY <2>2 DEF TokensKept, Stored
  <2> QED
    BY <2>1, <2>3
<1>5. CASE Disconnect
  <2>1. VaultOK(vault') /\ Stored' = Absent
    BY <1>5, <1>a, DeleteReadsBack DEF Disconnect, Stored
  <2>2. LoginTypeOK'
    BY <1>5, <2>1 DEF Disconnect, LoginTypeOK, VaultOK
  <2>3. TokensKept'
    BY <1>5, <2>1 DEF Disconnect, TokensKept, Nobody
  <2> QED
    BY <2>2, <2>3
<1>6. CASE AwaitRefresh
  BY <1>6, AwaitKeeps
<1> QED
  BY <1>1, <1>2, <1>3, <1>5, <1>6 DEF LoginStep

-------------------------------------------------------------------------------
(* The batches -------------------------------------------------------------*)
BatchPart ==
  /\ page \in Visits \cup {0}
  /\ batch \in [Visits -> Batches]
  /\ \A v \in Visits :
       /\ batch[v].handle <=> batch[v].at = "streaming"
       /\ batch[v].at \in Loops \ {"choosing", "next"} => batch[v].idx \in 1..Queue
       /\ batch[v].at = "refreshing" => inflight # Absent
  /\ Positioned

\* What one batch keeps to.
Sound(b, exchanging) ==
  /\ b \in Batches
  /\ b.handle <=> b.at = "streaming"
  /\ b.at \in Loops \ {"choosing", "next"} => b.idx \in 1..Queue
  /\ b.at = "refreshing" => exchanging
  /\ b.at = "next" => b.idx # 0

\* The batches are sound, each by itself.
LEMMA EachSound ==
  BatchPart <=> /\ page \in Visits \cup {0}
                /\ batch = [v \in Visits |-> batch[v]]
                /\ \A v \in Visits : Sound(batch[v], inflight # Absent)
  BY DEF BatchPart, Sound, Positioned

LEMMA RestSound ==
  ASSUME NEW b \in Batches, NEW rows \in [1..Queue -> {"pending", "running", "done", "failed", "skipped"}],
         NEW exchanging
  PROVE  Sound(AtRest(b, rows), exchanging) /\ AtRest(b, rows).late = 0
<1>1. Unvisited \in Batches
  BY QueueAssumption DEF Unvisited, Batches, Pending
<1>2. CASE b.mounted
  BY <1>1, <1>2 DEF AtRest, Sound, Batches, Unvisited, Loops
<1>3. CASE ~b.mounted
  BY <1>1, <1>3 DEF AtRest, Gone, Sound, Batches, Unvisited, Loops
<1> QED
  BY <1>2, <1>3

LEMMA RowsTyped ==
  ASSUME NEW v \in Visits, batch[v] \in Batches,
         NEW status \in {"pending", "running", "done", "failed", "skipped"}
  PROVE  Row(v, status) \in [1..Queue -> {"pending", "running", "done", "failed", "skipped"}]
  BY DEF Row, Batches, Pending

LEMMA ActiveKnown == Configured # {} => Active \in {"openai", "other"}
  BY DEF Configured, Active

\* A step that replaces one batch by a sound one keeps them all sound.
LEMMA OneChanges ==
  ASSUME BatchPart, NEW v \in Visits, NEW new, batch' = [batch EXCEPT ![v] = new],
         Sound(new, inflight' # Absent), page' \in Visits \cup {0},
         inflight # Absent => inflight' # Absent
  PROVE  BatchPart'
<1>1. batch' = [u \in Visits |-> IF u = v THEN new ELSE batch[u]]
  BY DEF BatchPart
<1>2. \A u \in Visits : Sound(batch'[u], inflight' # Absent)
  BY <1>1, EachSound DEF Sound
<1> QED
  BY <1>1, <1>2 DEF BatchPart, Sound, Positioned

\* What the page does to its batch.
LEMMA PageKeeps ==
  ASSUME BatchPart, NEW v \in Visits, Mount(v) \/ Unmount(v) \/ OnStop(v) \/ OnRun(v)
  PROVE  BatchPart'
<1>a. inflight' = inflight /\ page' \in Visits \cup {0}
  BY DEF Mount, Unmount, OnStop, OnRun, loginVars, BatchPart
<1>b. Sound(batch[v], inflight # Absent) /\ batch[v] \in Batches
  BY EachSound DEF Sound
<1>c. Unvisited \in Batches /\ Pending \in [1..Queue -> {"pending", "running", "done", "failed", "skipped"}]
  BY QueueAssumption DEF Unvisited, Batches, Pending
<1>d. Sound(Closed(batch[v]), inflight # Absent)
  BY <1>b DEF Closed, Sound, Batches
<1>1. CASE Mount(v)
  <2>1. Sound([batch[v] EXCEPT !.at = "idle", !.mounted = TRUE], inflight # Absent)
    BY <1>1, <1>b DEF Mount, Sound, Batches, Loops
  <2>2. batch' = [batch EXCEPT ![v] = [batch[v] EXCEPT !.at = "idle", !.mounted = TRUE]]
    BY <1>1 DEF Mount, BatchPart
  <2> QED
    BY <1>a, <2>1, <2>2, OneChanges
<1>2. CASE Unmount(v)
  <2>1. Sound([Closed(batch[v]) EXCEPT !.mounted = FALSE, !.stop = TRUE, !.rows = Pending],
              inflight # Absent)
    BY <1>c, <1>d DEF Sound, Batches
  <2>2. Sound(Gone, inflight # Absent)
    BY <1>c DEF Gone, Unvisited, Sound, Batches, Loops
  <2>3. \E new \in {Gone, [Closed(batch[v]) EXCEPT !.mounted = FALSE, !.stop = TRUE, !.rows = Pending]} :
          batch' = [batch EXCEPT ![v] = new]
    BY <1>2 DEF Unmount, BatchPart
  <2> QED
    BY <1>a, <2>1, <2>2, <2>3, OneChanges
<1>3. CASE OnStop(v)
  <2>1. Sound([Closed(batch[v]) EXCEPT !.stop = TRUE], inflight # Absent)
    BY <1>d DEF Sound, Batches
  <2> QED
    BY <1>3, <1>a, <2>1, OneChanges DEF OnStop
<1>4. CASE OnRun(v)
  <2>1. Sound([batch[v] EXCEPT !.at = "choosing", !.stop = FALSE], inflight # Absent)
    BY <1>4, <1>b DEF OnRun, Goes, Sound, Batches, Loops
  <2> QED
    BY <1>4, <1>a, <2>1, OneChanges DEF OnRun, Goes
<1> QED
  BY <1>1, <1>2, <1>3, <1>4

\* What the loop does, step by step.
LEMMA LoopKeeps ==
  ASSUME LoginPart, BatchPart, NEW v \in Visits, LoopStep(v)
  PROVE  LoginPart' /\ BatchPart'
<1>b. Sound(batch[v], inflight # Absent) /\ batch[v] \in Batches
  BY EachSound DEF Sound
<1>p. page \in Visits \cup {0}
  BY DEF BatchPart
<1>f. batch[v].idx \in 1..Queue => Sound(Failed(v), inflight # Absent)
  <2> SUFFICES ASSUME batch[v].idx \in 1..Queue PROVE Sound(Failed(v), inflight # Absent)
    OBVIOUS
  <2>1. Row(v, "failed") \in [1..Queue -> {"pending", "running", "done", "failed", "skipped"}]
    BY <1>b, RowsTyped
  <2>2. batch[v].idx + 1 \in 0 .. Queue + 1 /\ batch[v].idx + 1 # 0
    BY QueueAssumption
  <2> QED
    BY <1>b, <2>1, <2>2 DEF Failed, Sound, Batches, Loops
<1>1. CASE ConfigureAwaits(v)
  <2>1. LoginPart' /\ inflight' # Absent
    BY <1>1, AwaitKeeps DEF ConfigureAwaits
  <2>2. Sound([batch[v] EXCEPT !.at = "refreshing"], inflight' # Absent)
    BY <1>1, <1>b, <2>1 DEF ConfigureAwaits, Goes, Sound, Batches, Loops
  <2> QED
    BY <1>1, <1>p, <2>1, <2>2, OneChanges DEF ConfigureAwaits, Goes
<1>2. ASSUME UNCHANGED <<loginVars, page>>,
             \E from, new : Goes(v, from, new) /\ Sound(new, inflight # Absent)
      PROVE  LoginPart' /\ BatchPart'
  <2>1. inflight' = inflight /\ page' = page
    BY <1>2 DEF loginVars
  <2>2. LoginPart'
    BY <1>2 DEF loginVars, LoginPart, LoginTypeOK, TokensKept, Stored
  <2> QED
    BY <1>2, <1>p, <2>1, <2>2, OneChanges DEF Goes
<1>3. CASE NoProvider(v)
  BY <1>2, <1>3, <1>b, RestSound DEF NoProvider, Batches
<1>4. CASE ResolveActiveProvider(v)
  <2>1. Active \in {"openai", "other"} /\ ActiveAuth \in {"oauth", "api_key"}
    BY <1>4, ActiveKnown DEF ResolveActiveProvider, ActiveAuth
  <2>2. Sound([batch[v] EXCEPT !.at = "next", !.provider = Active, !.auth = ActiveAuth,
                               !.rows = Pending, !.idx = 1], inflight # Absent)
    <3>1. /\ Pending \in [1..Queue -> {"pending", "running", "done", "failed", "skipped"}]
          /\ 1 \in 0 .. Queue + 1
      BY QueueAssumption DEF Pending
    <3>2. batch[v].at = "choosing"
      BY <1>4 DEF ResolveActiveProvider, Goes
    <3>3. ~batch[v].handle
      BY <1>b, <3>2 DEF Sound
    <3>4. [batch[v] EXCEPT !.at = "next", !.provider = Active, !.auth = ActiveAuth,
                           !.rows = Pending, !.idx = 1] \in Batches
      BY <1>b, <2>1, <3>1 DEF Batches, Loops
    <3> QED
      BY <1>b, <3>3, <3>4 DEF Sound, Batches, Loops
  <2> QED
    BY <1>2, <1>4, <2>2 DEF ResolveActiveProvider
<1>5. CASE NextTicker(v)
  <2> DEFINE skipped == [i \in 1..Queue |-> IF i >= batch[v].idx THEN "skipped" ELSE batch[v].rows[i]]
             on == [batch[v] EXCEPT !.at = "config", !.rows = Row(v, "running")]
  <2>1. skipped \in [1..Queue -> {"pending", "running", "done", "failed", "skipped"}]
    BY <1>b DEF Batches
  <2>2. Sound(AtRest(batch[v], batch[v].rows), inflight # Absent)
         /\ Sound(AtRest(batch[v], skipped), inflight # Absent)
    BY <1>b, <2>1, RestSound DEF Batches
  <2>3. batch[v].at = "next" /\ ~(batch[v].idx > Queue) => Sound(on, inflight # Absent)
    <3>1. Row(v, "running") \in [1..Queue -> {"pending", "running", "done", "failed", "skipped"}]
      BY <1>b, RowsTyped
    <3>2. batch[v].at = "next" /\ ~(batch[v].idx > Queue) => batch[v].idx \in 1..Queue
      BY <1>b, QueueAssumption DEF Sound, Batches
    <3> QED
      BY <1>b, <3>1, <3>2 DEF Sound, Batches, Loops
  <2>4. CASE batch[v].idx > Queue \/ ~batch[v].mounted
    BY <1>2, <1>5, <2>2, <2>4 DEF NextTicker
  <2>5. CASE ~(batch[v].idx > Queue \/ ~batch[v].mounted) /\ batch[v].stop
    BY <1>2, <1>5, <2>2, <2>5 DEF NextTicker
  <2>6. CASE ~(batch[v].idx > Queue \/ ~batch[v].mounted) /\ ~batch[v].stop
    <3>1. Goes(v, "next", on) /\ UNCHANGED <<loginVars, page>>
      BY <1>5, <2>6 DEF NextTicker
    <3>2. Sound(on, inflight # Absent)
      BY <2>3, <2>6, <3>1 DEF Goes
    <3> QED
      BY <1>2, <3>1, <3>2
  <2> QED
    BY <2>4, <2>5, <2>6
<1>6. CASE Configure(v)
  <2>1. batch[v].at = "config"
    BY <1>6 DEF Configure, Goes
  <2>2. \A creds \in {"oauth", "api_key", "stub"} :
          Sound([batch[v] EXCEPT !.at = "reserving", !.creds = creds], inflight # Absent)
    BY <1>b, <2>1 DEF Sound, Batches, Loops
  <2> QED
    BY <1>2, <1>6, <2>2 DEF Configure, Keyed
<1>7. CASE Reserves(v)
  <2>1. batch[v].at = "reserving"
    BY <1>7 DEF Reserves, Goes
  <2>2. Sound([batch[v] EXCEPT !.at = "connecting"], inflight # Absent)
    BY <1>b, <2>1 DEF Sound, Batches, Loops
  <2> QED
    BY <1>2, <1>7, <2>2 DEF Reserves
<1>8. CASE CostBlocked(v)
  <2>1. Row(v, "failed") \in [1..Queue -> {"pending", "running", "done", "failed", "skipped"}]
    BY <1>b, RowsTyped
  <2> QED
    BY <1>2, <1>8, <1>b, <2>1, RestSound DEF CostBlocked
<1>9. CASE Throws(v)
  <2>1. batch[v].idx \in 1..Queue
    BY <1>9, <1>b DEF Throws, Goes, Sound, Loops
  <2> QED
    BY <1>2, <1>9, <1>f, <2>1 DEF Throws
<1>10. CASE Connects(v)
  <2>1. batch[v].at = "connecting" /\ batch[v].late \in Nat
    BY <1>10, <1>b DEF Connects, Goes, Batches
  <2>2. \A late \in Nat :
          Sound([batch[v] EXCEPT !.at = "streaming", !.stream = "open", !.handle = TRUE,
                                 !.late = late], inflight # Absent)
    BY <1>b, <2>1 DEF Sound, Batches, Loops
  <2>3. Goes(v, "connecting",
          [batch[v] EXCEPT !.at = "streaming", !.stream = "open", !.handle = TRUE,
                           !.late = IF batch[v].stop THEN batch[v].late + 1 ELSE batch[v].late])
    BY <1>10 DEF Connects
  <2>4. (IF batch[v].stop THEN batch[v].late + 1 ELSE batch[v].late) \in Nat
    BY <2>1
  <2>5. UNCHANGED <<loginVars, page>>
    BY <1>10 DEF Connects
  <2> QED
    BY <1>2, <2>2, <2>3, <2>4, <2>5
<1>11. CASE StreamEnds(v)
  <2>0. batch[v].idx \in 1..Queue
    BY <1>11, <1>b DEF StreamEnds, Goes, Sound, Loops
  <2>1. Row(v, "done") \in [1..Queue -> {"pending", "running", "done", "failed", "skipped"}]
    BY <1>b, RowsTyped
  <2>2. batch[v].idx + 1 \in 0 .. Queue + 1 /\ batch[v].idx + 1 # 0
    BY <2>0, QueueAssumption
  <2>3. Sound([batch[v] EXCEPT !.at = "next", !.rows = Row(v, "done"), !.idx = @ + 1,
                               !.stream = "none", !.handle = FALSE], inflight # Absent)
    BY <1>b, <2>1, <2>2 DEF Sound, Batches, Loops
  <2>4. Unvisited \in Batches
    BY QueueAssumption DEF Unvisited, Batches, Pending
  <2>5. Sound(Gone, inflight # Absent)
    BY <2>4 DEF Gone, Unvisited, Sound, Batches, Loops
  <2> QED
    BY <1>2, <1>11, <2>3, <2>5 DEF StreamEnds
<1>12. CASE StreamBreaks(v)
  <2>1. batch[v].idx \in 1..Queue
    BY <1>12, <1>b DEF StreamBreaks, Goes, Sound, Loops
  <2> QED
    BY <1>2, <1>12, <1>f, <2>1 DEF StreamBreaks
<1> QED
  BY <1>1, <1>3, <1>4, <1>5, <1>6, <1>7, <1>8, <1>9, <1>10, <1>11, <1>12 DEF LoopStep

\* The end of an exchange wakes all who wait for it.
LEMMA SettlesKeeps == ASSUME LoginPart, BatchPart, RefreshSettles PROVE LoginPart' /\ BatchPart'
<1>1. LoginPart'
  BY RefreshKeeps DEF RefreshSettles
<1>2. \A v \in Visits : Sound(batch[v], inflight # Absent)
  BY EachSound
<1>3. batch' = [v \in Visits |-> batch'[v]]
  BY DEF RefreshSettles
<1>4. ASSUME NEW v \in Visits PROVE Sound(batch'[v], inflight' # Absent)
  <2>1. Sound(batch[v], inflight # Absent)
    BY <1>2
  <2>2. CASE batch[v].at = "refreshing"
    <3>1. batch'[v] = [batch[v] EXCEPT !.at = "reserving", !.creds = "oauth"]
      BY <2>2 DEF RefreshSettles
    <3> QED
      BY <2>1, <2>2, <3>1 DEF Sound, Batches, Loops
  <2>3. CASE batch[v].at # "refreshing"
    BY <2>1, <2>3 DEF RefreshSettles, Sound
  <2> QED
    BY <2>2, <2>3
<1>5. page' \in Visits \cup {0}
  BY DEF RefreshSettles, BatchPart
<1> QED
  BY <1>1, <1>3, <1>4, <1>5 DEF BatchPart, Sound, Positioned

-------------------------------------------------------------------------------
(* The invariant -----------------------------------------------------------*)
LEMMA InitIInv == Init => IInv
<1> SUFFICES ASSUME Init PROVE LoginPart /\ BatchPart
  BY DEF IInv, TypeOK, LoginPart, BatchPart
<1>1. Unvisited \in Batches
  BY QueueAssumption DEF Unvisited, Batches, Pending
<1>2. BatchPart
  BY <1>1 DEF Init, BatchPart, Positioned, Unvisited, Loops
<1> QED
  BY <1>2, InitLogin

LEMMA StepIInv == IInv /\ [Next]_vars => IInv'
<1> SUFFICES ASSUME LoginPart, BatchPart, [Next]_vars PROVE LoginPart' /\ BatchPart'
  BY DEF IInv, TypeOK, LoginPart, BatchPart
<1>1. CASE LoginStep /\ UNCHANGED <<page, batch>>
  <2>1. LoginPart'
    BY <1>1, LoginStepKeeps
  <2>2. inflight # Absent => inflight' # Absent
    BY <1>1, AwaitKeeps DEF LoginStep, StartLogin, OnManualCodeInput, FallbackTimer, OnPrompt,
       LoginSucceeds, LoginFails, HandlePromptResponse, Disconnect, Tick
  <2> QED
    BY <1>1, <2>1, <2>2 DEF BatchPart, Positioned
<1>2. CASE RefreshSettles
  BY <1>2, SettlesKeeps
<1>3. ASSUME NEW v \in Visits, Mount(v) \/ Unmount(v) \/ OnStop(v) \/ OnRun(v)
      PROVE  LoginPart' /\ BatchPart'
  <2>1. UNCHANGED loginVars
    BY <1>3 DEF Mount, Unmount, OnStop, OnRun
  <2>2. LoginPart'
    BY <2>1 DEF loginVars, LoginPart, LoginTypeOK, TokensKept, Stored
  <2> QED
    BY <1>3, <2>2, PageKeeps
<1>4. ASSUME NEW v \in Visits, LoopStep(v) PROVE LoginPart' /\ BatchPart'
  BY <1>4, LoopKeeps
<1>5. CASE UNCHANGED vars
  BY <1>5 DEF vars, loginVars, LoginPart, LoginTypeOK, TokensKept, Stored, BatchPart, Positioned
<1> QED
  BY <1>1, <1>2, <1>3, <1>4, <1>5 DEF Next

LEMMA Inductive == Spec => []IInv
  BY InitIInv, StepIInv, PTL DEF Spec

\* Type correctness: every variable has its type; a loop in its table is at a
\* row, has a handle only for a stream that is there, and waits only for an
\* exchange that is under way.
THEOREM TypeCorrect == Spec => []TypeOK
  BY Inductive, PTL DEF IInv

\* A refresh token is single-use: refreshInFlight has every caller share one
\* exchange, so no token is presented twice unless the first time came to
\* nothing, however many batches, logins and disconnects there are.
THEOREM SingleUse == Spec => []TokenPresentedOnce
<1>1. IInv => TokenPresentedOnce
  BY DEF IInv, TokensKept, TokenPresentedOnce
<1> QED
  BY <1>1, Inductive, PTL

-------------------------------------------------------------------------------
(* A stop ------------------------------------------------------------------*)
\* The loop that was told to stop opens the stream it was setting up, and comes
\* to the head of its table, where it looks.
LateStays == \A v \in Visits :
  \/ batch[v].late = 0
  \/ batch[v].late = 1 /\ batch[v].stop /\ batch[v].at \in {"streaming", "next"}

LateOne(b) == b.late = 0 \/ (b.late = 1 /\ b.stop /\ b.at \in {"streaming", "next"})

LEMMA OneLate ==
  ASSUME BatchPart, LateStays, NEW v \in Visits, NEW new, LateOne(new),
         batch' = [batch EXCEPT ![v] = new]
  PROVE  LateStays'
  BY DEF BatchPart, LateStays, LateOne

LEMMA RestIsNotLate ==
  ASSUME NEW b \in Batches, NEW rows PROVE LateOne(AtRest(b, rows)) /\ LateOne(Gone)
  BY DEF AtRest, Gone, Unvisited, LateOne, Batches

LEMMA LateStep == ASSUME IInv, LateStays, [Next]_vars PROVE LateStays'
<1>0. BatchPart
  BY DEF IInv, TypeOK, BatchPart
<1>1. CASE UNCHANGED batch
  BY <1>1 DEF LateStays
<1>2. CASE RefreshSettles
  <2>1. ASSUME NEW v \in Visits PROVE LateOne(batch'[v])
    <3>1. LateOne(batch[v]) /\ batch[v] \in Batches
      BY <1>0 DEF LateStays, LateOne, BatchPart
    <3>2. CASE batch[v].at = "refreshing"
      <4>1. batch'[v] = [batch[v] EXCEPT !.at = "reserving", !.creds = "oauth"]
        BY <1>2, <3>2 DEF RefreshSettles
      <4> QED
        BY <3>1, <3>2, <4>1 DEF LateOne, Batches
    <3>3. CASE batch[v].at # "refreshing"
      BY <1>2, <3>1, <3>3 DEF RefreshSettles
    <3> QED
      BY <3>2, <3>3
  <2> QED
    BY <2>1 DEF LateStays, LateOne
<1>3. ASSUME NEW v \in Visits,
             Mount(v) \/ Unmount(v) \/ OnStop(v) \/ OnRun(v) \/ LoopStep(v)
      PROVE  LateStays'
  <2>b. LateOne(batch[v]) /\ batch[v] \in Batches
    BY <1>0 DEF LateStays, LateOne, BatchPart
  <2>c. LateOne(Closed(batch[v])) /\ Closed(batch[v]) \in Batches
    BY <2>b DEF Closed, LateOne, Batches
  <2>g. ASSUME NEW from, NEW new, Goes(v, from, new), LateOne(new) PROVE LateStays'
    BY <1>0, <2>g, OneLate DEF Goes
  <2>1. CASE Mount(v)
    <3>1. LateOne([batch[v] EXCEPT !.at = "idle", !.mounted = TRUE])
      BY <2>1, <2>b DEF Mount, LateOne, Batches
    <3> QED
      BY <1>0, <2>1, <3>1, OneLate DEF Mount, BatchPart
  <2>2. CASE Unmount(v)
    <3>1. LateOne([Closed(batch[v]) EXCEPT !.mounted = FALSE, !.stop = TRUE, !.rows = Pending])
      BY <2>c DEF LateOne, Batches
    <3>2. \E new \in {Gone, [Closed(batch[v]) EXCEPT !.mounted = FALSE, !.stop = TRUE, !.rows = Pending]} :
            batch' = [batch EXCEPT ![v] = new]
      BY <1>0, <2>2 DEF Unmount, BatchPart
    <3> QED
      BY <1>0, <2>b, <3>1, <3>2, OneLate, RestIsNotLate
  <2>3. CASE OnStop(v)
    <3>1. LateOne([Closed(batch[v]) EXCEPT !.stop = TRUE])
      BY <2>c DEF LateOne, Batches
    <3> QED
      BY <1>0, <2>3, <3>1, OneLate DEF OnStop
  <2>4. CASE OnRun(v)
    <3>1. LateOne([batch[v] EXCEPT !.at = "choosing", !.stop = FALSE])
      BY <2>4, <2>b DEF OnRun, Goes, LateOne, Batches
    <3> QED
      BY <2>4, <2>g, <3>1 DEF OnRun
  <2>5. CASE NoProvider(v) \/ CostBlocked(v)
    BY <2>5, <2>b, <2>g, RestIsNotLate DEF NoProvider, CostBlocked
  <2>6. CASE ResolveActiveProvider(v)
    <3>1. LateOne([batch[v] EXCEPT !.at = "next", !.provider = Active, !.auth = ActiveAuth,
                                   !.rows = Pending, !.idx = 1])
      BY <2>6, <2>b DEF ResolveActiveProvider, Goes, LateOne, Batches
    <3> QED
      BY <2>6, <2>g, <3>1 DEF ResolveActiveProvider
  <2>7. CASE NextTicker(v)
    <3> DEFINE skipped == [i \in 1..Queue |-> IF i >= batch[v].idx THEN "skipped" ELSE batch[v].rows[i]]
               on == [batch[v] EXCEPT !.at = "config", !.rows = Row(v, "running")]
    <3>1. CASE batch[v].idx > Queue \/ ~batch[v].mounted
      BY <2>7, <2>b, <2>g, <3>1, RestIsNotLate DEF NextTicker
    <3>2. CASE ~(batch[v].idx > Queue \/ ~batch[v].mounted) /\ batch[v].stop
      BY <2>7, <2>b, <2>g, <3>2, RestIsNotLate DEF NextTicker
    <3>3. CASE ~(batch[v].idx > Queue \/ ~batch[v].mounted) /\ ~batch[v].stop
      <4>1. LateOne(on)
        BY <2>b, <3>3 DEF LateOne, Batches
      <4> QED
        BY <2>7, <2>g, <3>3, <4>1 DEF NextTicker
    <3> QED
      BY <3>1, <3>2, <3>3
  <2>8. CASE Configure(v)
    <3>1. \A creds : LateOne([batch[v] EXCEPT !.at = "reserving", !.creds = creds])
      BY <2>8, <2>b DEF Configure, Goes, LateOne, Batches
    <3> QED
      BY <2>8, <2>g, <3>1 DEF Configure
  <2>9. CASE ConfigureAwaits(v)
    <3>1. LateOne([batch[v] EXCEPT !.at = "refreshing"])
      BY <2>9, <2>b DEF ConfigureAwaits, Goes, LateOne, Batches
    <3> QED
      BY <2>9, <2>g, <3>1 DEF ConfigureAwaits
  <2>10. CASE Reserves(v)
    <3>1. LateOne([batch[v] EXCEPT !.at = "connecting"])
      BY <2>10, <2>b DEF Reserves, Goes, LateOne, Batches
    <3> QED
      BY <2>10, <2>g, <3>1 DEF Reserves
  <2>11. CASE Throws(v) \/ StreamBreaks(v)
    <3>1. LateOne(Failed(v))
      BY <2>b DEF Failed, LateOne, Batches
    <3> QED
      BY <2>11, <2>g, <3>1 DEF Throws, StreamBreaks
  <2>12. CASE Connects(v)
    <3>1. batch[v].at = "connecting" /\ batch[v].late = 0
      BY <2>12, <2>b DEF Connects, Goes, LateOne
    <3>2. LateOne([batch[v] EXCEPT !.at = "streaming", !.stream = "open", !.handle = TRUE,
                                   !.late = IF batch[v].stop THEN batch[v].late + 1
                                                             ELSE batch[v].late])
      BY <2>b, <3>1 DEF LateOne, Batches
    <3> QED
      BY <2>12, <2>g, <3>2 DEF Connects
  <2>13. CASE StreamEnds(v)
    <3>1. LateOne([batch[v] EXCEPT !.at = "next", !.rows = Row(v, "done"), !.idx = @ + 1,
                                   !.stream = "none", !.handle = FALSE])
      BY <2>b DEF LateOne, Batches
    <3> QED
      BY <2>13, <2>b, <2>g, <3>1, RestIsNotLate DEF StreamEnds
  <2> QED
    BY <1>3, <2>1, <2>2, <2>3, <2>4, <2>5, <2>6, <2>7, <2>8, <2>9, <2>10, <2>11, <2>12, <2>13
       DEF LoopStep
<1> QED
  BY <1>1, <1>2, <1>3 DEF Next, vars

\* Stop and unmount reach a loop wherever it stands: of all it awaits, only the
\* stream being set up can still be opened, and no second one.
THEOREM StopHolds == Spec => []StopLeavesOne
<1>1. Init => LateStays
  BY DEF Init, Unvisited, LateStays
<1>2. IInv /\ LateStays /\ [Next]_vars => LateStays'
  BY LateStep
<1>3. IInv /\ LateStays => StopLeavesOne
  BY DEF LateStays, StopLeavesOne
<1> QED
  BY <1>1, <1>2, <1>3, Inductive, PTL DEF Spec

-------------------------------------------------------------------------------
(* The prompt --------------------------------------------------------------*)
\* The one login under way owns the open prompt and the armed timer.
PromptOwned ==
  /\ \A k, l \in Logins : UnderWay(k) /\ UnderWay(l) => k = l
  /\ resolver # Absent => resolver \in Logins /\ UnderWay(resolver)
  /\ \A l \in Logins : login[l].timer = "armed" => login[l].at = "waiting" /\ cleanup = l
  /\ \A l \in Logins : login[l].at \in {"idle", "begun"} => login[l].timer = "none"

LEMMA LoginsAreThere == Absent \notin Logins
  BY AbsentAssumption

LEMMA PromptStep == ASSUME ~Overlap, IInv, PromptOwned, [Next]_vars PROVE PromptOwned'
<1>0. login \in LoginStates
  BY DEF IInv, TypeOK, LoginTypeOK, LoginStates
<1>1. CASE UNCHANGED <<login, resolver, cleanup>>
  BY <1>1 DEF PromptOwned, UnderWay
<1>2. ASSUME NEW l \in Logins, StartLogin(l) PROVE PromptOwned'
  <2>1. \A k \in Logins : ~UnderWay(k)
    BY <1>2 DEF StartLogin
  <2>2. login' = [login EXCEPT ![l] = [login[l] EXCEPT !.at = "begun"]] /\ login[l].at = "idle"
         /\ resolver' = Absent /\ cleanup' = cleanup
    BY <1>2 DEF StartLogin
  <2>3. \A k \in Logins : k # l => login'[k] = login[k]
    BY <1>0, <2>2 DEF LoginStates
  <2>4. login'[l].at = "begun" /\ login'[l].timer = login[l].timer
    BY <1>0, <2>2 DEF LoginStates
  <2> QED
    BY <2>1, <2>2, <2>3, <2>4 DEF PromptOwned, UnderWay
<1>3. ASSUME NEW l \in Logins, OnManualCodeInput(l) PROVE PromptOwned'
  <2>2. login[l].at = "begun" /\ resolver' = resolver /\ cleanup' = l
    BY <1>3 DEF OnManualCodeInput
  <2>3. \A k \in Logins : k # l => login'[k] = login[k] /\ ~UnderWay(k)
    BY <1>0, <1>3, <2>2 DEF OnManualCodeInput, LoginStates, PromptOwned, UnderWay
  <2>4. login'[l].at = "waiting" /\ login'[l].timer = "armed"
    BY <1>0, <1>3 DEF OnManualCodeInput, LoginStates
  <2> QED
    BY <2>2, <2>3, <2>4 DEF PromptOwned, UnderWay
<1>4. ASSUME NEW l \in Logins, FallbackTimer(l) PROVE PromptOwned'
  <2>2. login[l].timer = "armed" /\ resolver' = l /\ cleanup' = cleanup
    BY <1>4 DEF FallbackTimer
  <2>3. \A k \in Logins : login'[k].at = login[k].at
           /\ (k # l => login'[k].timer = login[k].timer)
    BY <1>0, <1>4 DEF FallbackTimer, LoginStates
  <2>4. login'[l].timer = "fired"
    BY <1>0, <1>4 DEF FallbackTimer, LoginStates
  <2> QED
    BY <2>2, <2>3, <2>4 DEF PromptOwned, UnderWay
<1>5. ASSUME NEW l \in Logins, OnPrompt(l) PROVE PromptOwned'
  BY <1>5 DEF OnPrompt, PromptOwned, UnderWay
<1>6. ASSUME NEW l \in Logins, Finally(l) PROVE PromptOwned'
  <2>1. resolver' = Absent /\ cleanup' = Absent
    BY <1>6 DEF Finally
  <2>2. \A k \in Logins :
          /\ login'[k].at = IF k = l THEN "over" ELSE login[k].at
          /\ login'[k].timer = IF k = cleanup /\ login[k].timer = "armed" THEN "cleared"
                                                                       ELSE login[k].timer
    BY <1>0, <1>6 DEF Finally, LoginStates
  <2>3. \A k \in Logins : login'[k].timer # "armed"
    BY <2>2 DEF PromptOwned
  <2>4. \A k \in Logins : login'[k].at \in {"idle", "begun"} => login'[k].timer = "none"
    BY <2>2 DEF PromptOwned
  <2> QED
    BY <2>1, <2>2, <2>3, <2>4 DEF PromptOwned, UnderWay
<1>7. CASE HandlePromptResponse
  BY <1>7 DEF HandlePromptResponse, PromptOwned, UnderWay
<1>8. CASE LoginStep
  BY <1>1, <1>2, <1>3, <1>4, <1>5, <1>6, <1>7, <1>8
     DEF LoginStep, LoginSucceeds, LoginFails, AwaitRefresh, Disconnect, Tick
<1>9. CASE RefreshSettles
  BY <1>1, <1>9 DEF RefreshSettles, RefreshEnds
<1>10. ASSUME NEW v \in Visits, Mount(v) \/ Unmount(v) \/ OnStop(v) \/ OnRun(v) \/ LoopStep(v)
       PROVE  PromptOwned'
  BY <1>1, <1>10 DEF Mount, Unmount, OnStop, OnRun, LoopStep, NoProvider, ResolveActiveProvider,
     NextTicker, Configure, ConfigureAwaits, AwaitRefresh, Reserves, CostBlocked, Throws,
     Connects, StreamEnds, StreamBreaks, loginVars
<1>11. CASE UNCHANGED vars
  BY <1>1, <1>11 DEF vars, loginVars
<1> QED
  BY <1>8, <1>9, <1>10, <1>11 DEF Next

\* Logins made one after the other never wedge the sign-in: a prompt that is
\* open, by the flow or by its timer, belongs to a login that still waits.  The
\* row that started a login disables its button until it ends, which is what
\* ~Overlap says of a user who stays on the page; with two logins beside one
\* another the claim is false.
THEOREM PromptNeverWedged == ASSUME ~Overlap PROVE Spec => []LoginNotWedged
<1>1. Init => PromptOwned
  BY DEF Init, LoginInit, PromptOwned, UnderWay
<1>2. IInv /\ PromptOwned /\ [Next]_vars => PromptOwned'
  BY PromptStep
<1>3. PromptOwned => LoginNotWedged
  BY DEF PromptOwned, LoginNotWedged
<1> QED
  BY <1>1, <1>2, <1>3, Inductive, PTL DEF Spec
=============================================================================
