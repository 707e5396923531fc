------------------------------ MODULE OpenAILogin ------------------------------
(***************************************************************************)
(* The OpenAI sign-in of the main process (desktop/electron/oauth-         *)
(* openai.ts): logins that run for minutes beside one another's timers,    *)
(* one refresh at a time, and the credentials both of them store.  The     *)
(* provider and its login flow (the pi-ai package) are the environment.    *)
(***************************************************************************)
EXTENDS Naturals, FiniteSets, Vault

CONSTANTS
  Logins,      \* login attempts; each is made once
  Overlap,     \* a login may be started while another is under way
  Life,        \* ticks an access token lives
  Vaults,      \* the secrets files there may be at the start
  Lead,        \* REFRESH_LEAD_MS: a token this near its end is refreshed
  MaxTime,     \* bound on the clock
  MaxMinted,   \* bound: credentials the provider hands out
  Keyrings,    \* isEncryptionAvailable(): what it may say, the same all along
  Faults       \* subset of {"answer"}: an answer may be lost

ASSUME LifeAssumption == Life \in Nat /\ Lead \in Nat /\ MaxTime \in Nat /\ MaxMinted \in Nat
ASSUME NamesAssumption == {"oauth:openai", "openai", "other"} \subseteq Names
\* It begins signed out: the file holds at most keys.
ASSUME VaultsAssumption ==
  \A w \in Vaults : /\ w \in [file : Files, entries : [Names -> {Key, Absent}]]
                    /\ w.entries["oauth:openai"] = Absent
ASSUME KeyringsAssumption == Keyrings \subseteq BOOLEAN
\* Neither credentials, nor a key, nor a login.
ASSUME AbsentAssumption == Absent \notin [refresh : Nat, expires : Nat] \cup {Key} \cup Logins

VARIABLES
  clock,
  keyring,    \* isEncryptionAvailable()
  vault,      \* secrets.json
  login,      \* what each login attempt is doing
  resolver,   \* pendingPromptResolver: whose prompt an answer goes to
  cleanup,    \* activeFallbackCleanup: whose timer the end of a login clears
  inflight,   \* refreshInFlight: the credentials being exchanged
  minted,     \* credentials handed out so far; the n-th has refresh token n
  exchanged,  \* refresh tokens the provider has exchanged: they are used up
  presented   \* history: how often each refresh token was presented, the times
              \* that came to nothing not counted

loginVars == <<clock, keyring, vault, login, resolver, cleanup, inflight,
               minted, exchanged, presented>>

Stored == GetSecret(vault, "oauth:openai")
Tokens == 1..MaxMinted
Credentials == [refresh : Tokens, expires : 0 .. MaxTime + Life]

LoginInit ==
  /\ clock = 0
  /\ keyring \in Keyrings
  /\ vault \in Vaults
  /\ login = [l \in Logins |-> [at |-> "idle", timer |-> "none"]]
  /\ resolver = Absent /\ cleanup = Absent /\ inflight = Absent
  /\ minted = 0 /\ exchanged = {}
  /\ presented = [t \in Tokens |-> 0]

(* loadStored: a vault that cannot be read holds no credentials. *)
LoadStored == IF keyring /\ Readable(vault) THEN Stored ELSE Absent

CanPersist == keyring /\ Readable(vault)

\* What the provider hands out next.
Minted == [refresh |-> minted + 1, expires |-> clock + Life]

(* Logins ------------------------------------------------------------------*)
UnderWay(l) == login[l].at \in {"begun", "waiting"}

(* startLogin: refused when a prompt is open; the credentials are awaited. *)
StartLogin(l) ==
  /\ login[l].at = "idle" /\ keyring /\ resolver = Absent
  /\ Overlap \/ \A k \in Logins : ~UnderWay(k)
  /\ login' = [login EXCEPT ![l].at = "begun"]
  /\ UNCHANGED <<clock, keyring, vault, resolver, cleanup, inflight, minted,
                 exchanged, presented>>

(* onManualCodeInput: asked for as the flow starts, it only sets a timer. *)
OnManualCodeInput(l) ==
  /\ login[l].at = "begun"
  /\ login' = [login EXCEPT ![l].at = "waiting", ![l].timer = "armed"]
  /\ cleanup' = l
  /\ UNCHANGED <<clock, keyring, vault, resolver, inflight, minted,
                 exchanged, presented>>

(* The 20 seconds are over, whether or not the login is. *)
FallbackTimer(l) ==
  /\ login[l].timer = "armed"
  /\ login' = [login EXCEPT ![l].timer = "fired"]
  /\ resolver' = l
  /\ UNCHANGED <<clock, keyring, vault, cleanup, inflight, minted,
                 exchanged, presented>>

(* onPrompt: the flow asks for the code itself. *)
OnPrompt(l) ==
  /\ login[l].at = "waiting"
  /\ resolver' = l
  /\ UNCHANGED <<clock, keyring, vault, login, cleanup, inflight, minted,
                 exchanged, presented>>

(* The pasted code goes to whoever asked last. *)
HandlePromptResponse ==
  /\ resolver # Absent
  /\ resolver' = Absent
  /\ UNCHANGED <<clock, keyring, vault, login, cleanup, inflight, minted,
                 exchanged, presented>>

\* Mutant: the end of a login leaves its timer running.
FinallyKeepsTimer(l) ==
  /\ login' = [login EXCEPT ![l].at = "over"]
  /\ cleanup' = Absent /\ resolver' = Absent
(* The finally block: whichever timer is registered is cleared, whichever
   prompt is open is forgotten. *)
Finally(l) ==
  /\ login' = [k \in Logins |->
       [login[k] EXCEPT !.at = IF k = l THEN "over" ELSE @,
                        !.timer = IF k = cleanup /\ @ = "armed" THEN "cleared" ELSE @]]
  /\ cleanup' = Absent /\ resolver' = Absent

LoginSucceeds(l) ==
  /\ login[l].at = "waiting"
  /\ minted < MaxMinted /\ minted' = minted + 1
  /\ vault' = IF CanPersist THEN SetSecret(vault, "oauth:openai", Minted) ELSE vault
  /\ Finally(l)
  /\ UNCHANGED <<clock, keyring, inflight, exchanged, presented>>

LoginFails(l) ==
  /\ UnderWay(l)
  /\ Finally(l)
  /\ UNCHANGED <<clock, keyring, vault, inflight, minted, exchanged, presented>>

(* Credentials for a request -----------------------------------------------*)
Stale == LoadStored # Absent /\ clock + Lead >= LoadStored.expires

\* Mutant: every caller starts an exchange of its own.
MutexFree == TRUE
(* refreshInFlight is what makes the callers share one exchange. *)
MayExchange == inflight = Absent

(* refreshIfNeeded for a caller that is not answered at once: it starts the
   exchange, or waits for the one under way. *)
AwaitRefresh ==
  /\ Stale
  /\ IF MayExchange
     THEN /\ inflight' = LoadStored
          /\ presented' = [presented EXCEPT ![LoadStored.refresh] = @ + 1]
     ELSE UNCHANGED <<inflight, presented>>
  /\ UNCHANGED <<clock, keyring, vault, login, resolver, cleanup, minted,
                 exchanged>>

(* The exchange ends: fresh credentials are stored over whatever is there; or
   the provider refuses a used token, its answer is lost, or they cannot be
   stored, and the caller is left with the old ones. *)
RefreshEnds(result) ==
  LET token == inflight.refresh
      Exchanges == /\ token \notin exchanged /\ exchanged' = exchanged \cup {token}
                   /\ minted < MaxMinted /\ minted' = minted + 1
      Refuses == UNCHANGED <<minted, exchanged>>
  IN  /\ inflight # Absent /\ inflight' = Absent
      /\ \/ /\ Exchanges /\ CanPersist
            /\ result = Minted
            /\ vault' = SetSecret(vault, "oauth:openai", Minted)
            /\ UNCHANGED presented
         \/ /\ \/ Exchanges /\ (~CanPersist \/ "answer" \in Faults)
               \/ Refuses
            /\ result = inflight
            /\ presented' = [presented EXCEPT ![token] = @ - 1]
            /\ UNCHANGED vault
      /\ UNCHANGED <<clock, keyring, login, resolver, cleanup>>

Disconnect ==
  /\ CanPersist
  /\ vault' = DeleteSecret(vault, "oauth:openai")
  /\ UNCHANGED <<clock, keyring, login, resolver, cleanup, inflight, minted,
                 exchanged, presented>>

(* The environment ---------------------------------------------------------*)
Tick ==
  /\ clock < MaxTime /\ clock' = clock + 1
  /\ UNCHANGED <<keyring, vault, login, resolver, cleanup, inflight, minted,
                 exchanged, presented>>

LoginStep ==
  \/ \E l \in Logins : \/ StartLogin(l) \/ OnManualCodeInput(l) \/ FallbackTimer(l)
                       \/ OnPrompt(l) \/ LoginSucceeds(l) \/ LoginFails(l)
  \/ HandlePromptResponse \/ AwaitRefresh \/ Disconnect
  \/ Tick

(* Properties --------------------------------------------------------------*)
LoginTypeOK ==
  /\ clock \in 0..MaxTime /\ keyring \in BOOLEAN
  /\ vault.file \in Files
  /\ vault.entries \in [Names -> Credentials \cup {Key, Absent}]
  /\ login \in [Logins -> [at : {"idle", "begun", "waiting", "over"},
                           timer : {"none", "armed", "fired", "cleared"}]]
  /\ resolver \in Logins \cup {Absent} /\ cleanup \in Logins \cup {Absent}
  /\ inflight \in Credentials \cup {Absent}
  /\ minted \in 0..MaxMinted /\ exchanged \subseteq Tokens
  /\ presented \in [Tokens -> Nat]

\* An open prompt belongs to a login that is still waiting for it: no timer of
\* a login that is over reopens one, which would refuse every later login.
LoginNotWedged == resolver # Absent => UnderWay(resolver)

\* A refresh token is single-use: it is presented a second time only when the
\* first exchange came to nothing, whoever asks for credentials meanwhile.
TokenPresentedOnce == \A t \in Tokens : presented[t] <= 1
=============================================================================
