---------------------------- MODULE MCBatchRunner ----------------------------
(* Instances of BatchRunner. *)
EXTENDS BatchRunner

Secrets == {"oauth:openai", "openai", "other"}
NoSecrets == [file |-> "none", entries |-> [n \in Secrets |-> Absent]]
NewerFile == [NoSecrets EXCEPT !.file = "newer"]
WithKey(n) == [file |-> "good", entries |-> [NoSecrets.entries EXCEPT ![n] = Key]]
Corrupt == [WithKey("other") EXCEPT !.file = "corrupt"]
CorruptNewerKeyed == {Corrupt, NewerFile, WithKey("openai")}
=============================================================================
