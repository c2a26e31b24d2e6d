---------------------------- MODULE MCCommands ----------------------------
(***************************************************************************)
(* The administrator's and the developer's commands, one scene each: in a  *)
(* scene only that command's part of the world moves, and the rest stays   *)
(* as it is at first.                                                      *)
(***************************************************************************)
EXTENDS StoredTokens, Credential, Setup, Migrate, Archive, TLC

VARIABLE scene

\* What --repos may say, the prefixes up to the first star, and the ids of their rules.
MCLockedAs == "me/*" :> "me/" @@ "me/a.b" :> "me/a.b/" @@ "me/ab" :> "me/ab/" @@ "*/x" :> ""
MCRuleId ==
  "me/" :> "me" @@ "me/a.b/" :> "meab" @@ "me/ab/" :> "meab" @@ "" :> "" @@ "shared/" :> "shared"
MCKeysOf ==
  LET mine == {"a.b", "ab", "c"}
  IN "me/" :> mine @@ "me/a.b/" :> {"a.b"} @@ "me/ab/" :> {"ab"} @@ "shared/" :> {"shared"}
     @@ "" :> mine \cup {"shared", "trash", "others"}

MCTried ==
  [repos : {{"me/a.b", "me/ab"}, {"me/a.b", "*/x"}, {"me/*", "me/ab", "*/x"}},
   layout : {"per-repo"}, lock : BOOLEAN, trash : BOOLEAN, deploy : BOOLEAN]
    \cup [repos : {{"me/*"}}, layout : {"shared"}, lock : {TRUE}, trash : {TRUE}, deploy : BOOLEAN]

MCEntry ==
  {[link |-> FALSE, name |-> n, size |-> s, target |-> 0] : n \in {10, 101}, s \in {0, 513}}
    \cup {[link |-> TRUE, name |-> 10, size |-> 0, target |-> t] : t \in {20, 120}}
MCEntries == UNION {[1..n -> MCEntry] : n \in 0..3}

CommandsInit ==
  /\ scene \in {"tokens", "login", "rotation", "setup", "migrate", "archive"}
  /\ TokensInit
  /\ CredentialInit /\ login = {CHOOSE l \in Login : TRUE}
  /\ SetupInit
  /\ MigrateInit
  /\ scene # "migrate" => origin = {} /\ override = "none" /\ lfsconfig.first = "old"
  /\ ArchiveInit /\ attempt.limit = 3072
  /\ scene # "archive" => tagged = <<>>

CommandsNext ==
  /\ scene' = scene
  /\ scene # "tokens" => UNCHANGED tokenVars
  /\ scene \notin {"login", "rotation"} => UNCHANGED credentialVars
  /\ scene # "setup" => UNCHANGED setupVars
  /\ scene # "migrate" => UNCHANGED migrateVars
  /\ scene # "archive" => UNCHANGED archiveVars
  /\ \/ scene = "tokens" /\ TokensNext
     \* What a switch of logins leaves behind takes longer to go, and one git to show.
     \/ scene = "login" /\ CredentialNext /\ secret' = secret
          /\ Cardinality({g \in Git : git'[g] # Away}) <= 1
     \/ scene = "rotation" /\ CredentialNext /\ login' = login /\ clock' <= 3
     \/ scene = "setup" /\ SetupNext
     \* --from is not given, or right.
     \/ scene = "migrate" /\ MigrateNext
          /\ (Migrating("refs")' => migration'.from \in {"none", lfsconfig.first})
     \/ scene = "archive" /\ ArchiveNext

CommandsSpec == CommandsInit /\ [][CommandsNext]_<<scene, tokenVars, credentialVars, setupVars, migrateVars, archiveVars>>

Symmetry == Permutations(Call) \cup Permutations(Token) \cup Permutations(Blob)
=============================================================================
