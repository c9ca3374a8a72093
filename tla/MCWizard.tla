------------------------------ MODULE MCWizard ------------------------------
(* Accounts, broadcasts, files and options for Wizard.                       *)
EXTENDS Wizard

Creds(key, device) == [key |-> key, device |-> device]
NoCreds == Creds(Unset, Unset)
MCFiles == {Creds(Absent, Absent), Creds("saved", Unset)}

Option(noCloud, yes, shots, cli) ==
  [noCloud |-> noCloud, yes |-> yes, model |-> "model" \in shots,
   shadow |-> "shadow" \in shots, issue |-> "issue" \in shots, cli |-> cli]
Shots == {{}, {"issue"}, {"model", "shadow", "issue"}}

\* With options for what the file lacks, or without any.
MCOptions ==
  {Option(noCloud, yes, shots, cli) : noCloud \in BOOLEAN, yes \in BOOLEAN,
     shots \in Shots, cli \in {NoCreds, Creds(Unset, "option")}}

\* As in UNBOXING.md, with -y.
AllGiven == {Option(FALSE, TRUE, {}, Creds("option", "option"))}

\* The larger account does not fit into the table.
MCAccounts == {<<"a", "b">>, <<"a", "b", "c", "e">>}

=============================================================================
