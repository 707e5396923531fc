--------------------------------- MODULE Vault ---------------------------------
(***************************************************************************)
(* The secrets file of the main process (desktop/electron/secrets.ts): one *)
(* JSON file that every operation reads whole and replaces whole.  A vault *)
(* is what the file is and, when it can be read, what it holds.            *)
(***************************************************************************)

CONSTANTS
  Names,     \* the secrets' names
  Absent,    \* not a secret
  Key        \* an API key

Files == {"none", "good", "corrupt", "newer"}

Blank == [file |-> "none", entries |-> [n \in Names |-> Absent]]

\* A newer app's file is refused: readFile() throws.
Readable(vault) == vault.file # "newer"

\* A corrupt file is moved aside and counts as empty.
ReadFile(vault) == IF vault.file = "good" THEN vault ELSE Blank

\* What a read leaves behind: the corrupt file is gone.
AfterRead(vault) == IF vault.file = "corrupt" THEN Blank ELSE vault

GetSecret(vault, name) == ReadFile(vault).entries[name]

ListSecrets(vault) == {n \in Names : ReadFile(vault).entries[n] # Absent}

SetSecret(vault, name, value) ==
  [file |-> "good", entries |-> [ReadFile(vault).entries EXCEPT ![name] = value]]

\* Deleting what is not there writes nothing.
DeleteSecret(vault, name) ==
  IF GetSecret(vault, name) = Absent THEN AfterRead(vault) ELSE SetSecret(vault, name, Absent)
=============================================================================
