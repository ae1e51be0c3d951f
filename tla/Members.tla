------------------------------ MODULE Members ------------------------------
(* One member of a shared host: the commands the operator runs for that      *)
(* member (ops/provision-member.sh, ops/revoke-member.sh, pair-code and       *)
(* unpair), the files they leave behind and the gateway systemd runs from     *)
(* them. A command is a sequence of steps; it can fail at a step, be killed   *)
(* between two, and up to MaxRunning commands run at once. A gateway keeps    *)
(* the settings it was started with.                                          *)
EXTENDS Naturals, FiniteSets

CONSTANTS
  Commands,    \* invocations; each is run at most once
  KindOf,      \* "provision", "revoke", "paircode" or "unpair"
  Hosts,       \* host names other than loopback
  HostOf,      \* the host in the relay URL of a command, Local for loopback
  Local, Foreign, NoAccount, NoFile, Down, NoToken,
  MaxRunning   \* how many commands may run at once

Kinds == {"provision", "revoke", "paircode", "unpair"}

\* A token is named by who drew it: 48 random characters are never drawn twice.
Tokens == Commands \X {"script", "cli"}

\* A profile's .env: the relay token, the host names the listener lets in, and
\* whether the provider keys the member's credentials name are there.
Settings == [token : Tokens \union {NoToken}, hosts : SUBSET Hosts, keys : BOOLEAN]
Unpaired == [token |-> NoToken, hosts |-> {}, keys |-> FALSE]

ASSUME ConstantsAssumption ==
  /\ KindOf \in [Commands -> Kinds]
  /\ HostOf \in [Commands -> Hosts \union {Local}]
  /\ Local \notin Hosts
  /\ Foreign \notin Commands /\ NoAccount \notin Commands /\ Foreign # NoAccount
  /\ NoToken \notin Tokens
  /\ NoFile \notin Settings /\ Down \notin Settings
  /\ MaxRunning \in Nat

VARIABLES
  account,  \* the OS user: NoAccount, Foreign, or the command whose useradd made it
  unit,     \* the unit file exists
  enabled,  \* the unit starts at boot
  env,      \* the profile's .env, or NoFile
  tmp,      \* .env.tmp, which every save_pairing of the profile writes
  gateway,  \* the settings the running gateway was started with, or Down
  pc,       \* the step each command is at
  hook,     \* ON_FAIL_HOOK is rollback
  draft,    \* the settings each command has read or is about to write
  apart,    \* history: no two commands have run at once
  handed,   \* history: the tokens in pairing codes of this account
  revoked,  \* history: those handed out before a revocation reported success
  cold,     \* history: the commands that found the gateway stopped and started it
  warned,   \* history: those that only warned of keys they did not find
  stuck,    \* history: those whose rollback could not delete the account
  leftover  \* history: a member was deleted and its unit has been there ever since

host == <<account, unit, enabled>>
profile == <<env, tmp>>
\* How the runs have ended, which only the steps that end them that way change.
outcome == <<warned, stuck, leftover>>
history == <<apart, handed, revoked, cold, outcome>>
vars == <<host, profile, gateway, pc, hook, draft, history>>

Undoing == {"undo_service", "undo_unit", "undo_account"}
Over == {"idle", "done", "failed", "killed"}
Steps == Over \union Undoing \union
  {"prepare", "write", "seed", "install", "enable", "verify",
   "load", "save", "rename", "print", "wipe"}

Running(c) == pc[c] \notin Over
NoneRunning == \A c \in Commands : ~Running(c)

\* Mutant: loopback names are written too.
IngressOfAny(c) == {HostOf[c]}

\* Loopback names are not written to the list of ingress hosts.
IngressOf(c) == {HostOf[c]} \ {Local}

\* What a process that starts now finds in .env.
Loaded == IF env = NoFile THEN Unpaired ELSE env

\* A gateway without a token registers no platform and opens no port.
Listening == gateway # Down /\ gateway.token # NoToken

Init ==
  /\ account \in {NoAccount, Foreign}
  /\ unit = FALSE /\ enabled = FALSE
  /\ env = NoFile /\ tmp = NoFile
  /\ gateway = Down
  /\ pc = [c \in Commands |-> "idle"]
  /\ hook = [c \in Commands |-> FALSE]
  /\ draft = [c \in Commands |-> Unpaired]
  /\ apart = TRUE /\ handed = {} /\ revoked = {} /\ cold = {}
  /\ warned = {} /\ stuck = {} /\ leftover = FALSE

\* A command goes on with what it has read, or with new settings to write; what it
\* had in mind ends with it.
GotoWith(c, step, settings) ==
  /\ pc' = [pc EXCEPT ![c] = step]
  /\ draft' = [draft EXCEPT ![c] = settings]
Goto(c, step) == GotoWith(c, step, IF step \in Over THEN Unpaired ELSE draft[c])

\* The operator runs a command.
Begins(c, kind) ==
  /\ KindOf[c] = kind
  /\ pc[c] = "idle"
  /\ Cardinality({d \in Commands : Running(d)}) < MaxRunning
  /\ apart' = (apart /\ NoneRunning)
  /\ UNCHANGED <<handed, revoked, cold, outcome>>

\* Mutant: fail always undoes the run.
AlwaysUndo(c) == "undo_service"
\* Mutant: fail only exits.
NeverUndo(c) == "failed"

\* fail: the hook, when one is set, undoes the run before it exits.
AfterFail(c) == IF hook[c] THEN "undo_service" ELSE "failed"

\* Mutant: the token is derived from the label.
TokenOfLabel(c, by) == <<CHOOSE d \in Commands : TRUE, by>>

\* A new random token.
NewToken(c, by) == <<c, by>>

-----------------------------------------------------------------------------
(* provision-member.sh *)

\* Mutant: any account will do.
AdoptsAny == TRUE

\* A pre-existing account is a member's if it has the member's unit.
MayAdopt == unit

\* ensure_os_user: an account without a unit is never adopted; useradd is the
\* claim on the label, and only the run that made the account sets the hook.
EnsureUser(c) ==
  /\ Begins(c, "provision")
  /\ IF account # NoAccount
     THEN /\ Goto(c, IF MayAdopt THEN "prepare" ELSE "failed")
          /\ UNCHANGED <<account, hook>>
     ELSE \/ /\ account' = c
             /\ hook' = [hook EXCEPT ![c] = TRUE]
             /\ Goto(c, "prepare")
          \/ Goto(c, "failed") /\ UNCHANGED <<account, hook>>
  /\ UNCHANGED <<unit, enabled, profile, gateway>>

TokenFor(c) == IF env = NoFile THEN NewToken(c, "script") ELSE env.token

\* Mutant: the host is left to pair-code.
EnvWithoutHost(c) == [token |-> TokenFor(c), hosts |-> {}, keys |-> FALSE]

\* The .env of a run: the token there is, or a new one, and the host of the URL.
\* Whatever else was in it goes.
EnvOf(c) == [token |-> TokenFor(c), hosts |-> IngressOf(c), keys |-> FALSE]

\* Directories and config.yaml, then the token to use: that of an existing
\* .env, which must have one, or a new one.
Prepare(c) ==
  /\ pc[c] = "prepare"
  /\ account # NoAccount
  /\ IF env # NoFile /\ env.token = NoToken
     THEN Goto(c, AfterFail(c))
     ELSE GotoWith(c, "write", EnvOf(c))
  /\ UNCHANGED <<host, profile, gateway, hook, history>>

\* ensure_env_file replaces the file.
WriteEnv(c) ==
  /\ pc[c] = "write"
  /\ account # NoAccount
  /\ env' = draft[c]
  /\ GotoWith(c, "seed", Unpaired)
  /\ UNCHANGED <<host, tmp, gateway, hook, history>>

\* Mutant: only a new member is given the keys.
MergedIfNew(c) == [Loaded EXCEPT !.keys = @ \/ hook[c]]

\* merge_env_file keeps the other lines.
Merged(c) == [Loaded EXCEPT !.keys = TRUE]

\* profile_seed.py: config.yaml and auth.json from the gateway's profile, then
\* the keys these name. A profile that is not there, one without credentials, and
\* keys that are not in its .env are worth a warning. The shim follows.
Seed(c) ==
  /\ pc[c] = "seed"
  /\ account # NoAccount
  /\ \/ env' = Merged(c) /\ UNCHANGED warned
     \/ warned' = warned \union {c} /\ UNCHANGED env
  /\ Goto(c, "install")
  /\ UNCHANGED <<host, tmp, gateway, hook, apart, handed, revoked, cold, stuck, leftover>>

\* install_unit: a rendered unit is on disk before it is enabled.
RenderUnit(c) ==
  /\ pc[c] = "install"
  /\ unit' = TRUE
  /\ Goto(c, "enable")
  /\ UNCHANGED <<account, enabled, profile, gateway, hook, history>>

\* systemctl enable --now starts a stopped unit and leaves a running one alone.
Enable(c) ==
  /\ pc[c] = "enable"
  /\ unit
  /\ enabled' = TRUE
  /\ IF gateway = Down /\ account # NoAccount
     THEN gateway' = Loaded /\ cold' = cold \union {c}
     ELSE UNCHANGED <<gateway, cold>>
  /\ Goto(c, "verify")
  /\ UNCHANGED <<account, unit, profile, hook, apart, handed, revoked, outcome>>

\* verify_unit_listening succeeds on any open port; from here on nothing is
\* undone. serve_on_tailnet follows, which can only warn.
Verify(c) ==
  /\ pc[c] = "verify"
  /\ Listening
  /\ hook' = [hook EXCEPT ![c] = FALSE]
  /\ Goto(c, "load")
  /\ UNCHANGED <<host, profile, gateway, history>>

\* Any command of a step may fail; the script then calls fail.
StepFails(c) ==
  /\ pc[c] \in {"prepare", "write", "seed", "install", "enable", "verify", "load"}
  /\ Goto(c, AfterFail(c))
  /\ UNCHANGED <<host, profile, gateway, hook, history>>

\* rollback disables and stops the service before it removes the unit file, and
\* goes on if systemctl could do neither or did not stop it ...
UndoService(c) ==
  /\ pc[c] = "undo_service"
  /\ \/ enabled' = FALSE /\ gateway' \in {Down, gateway}
     \/ UNCHANGED <<enabled, gateway>>
  /\ Goto(c, "undo_unit")
  /\ UNCHANGED <<account, unit, profile, hook, history>>

\* ... removes the unit file before the account ...
UndoUnit(c) ==
  /\ pc[c] = "undo_unit"
  /\ unit' = FALSE /\ leftover' = FALSE
  /\ Goto(c, "undo_account")
  /\ UNCHANGED <<account, enabled, profile, gateway, hook, apart, handed, revoked, cold, warned, stuck>>

\* userdel -r takes the home with it.
Deleted == account' = NoAccount /\ env' = NoFile /\ tmp' = NoFile /\ handed' = {}

\* ... and ignores it when userdel refuses, which it does while a process of the
\* user runs, and may for reasons of its own.
UndoAccount(c) ==
  /\ pc[c] = "undo_account"
  /\ \/ gateway = Down /\ Deleted /\ UNCHANGED stuck
     \/ stuck' = stuck \union {c} /\ UNCHANGED <<account, profile, handed>>
  /\ Goto(c, "failed")
  /\ UNCHANGED <<unit, enabled, gateway, hook, apart, revoked, cold, warned, leftover>>

-----------------------------------------------------------------------------
(* stagewhisper-hermes pair-code and unpair, and save_pairing *)

\* pair-code reads the settings, draws a token if there is none and adds the
\* host of its URL; it saves only what that changed.
Load(c) ==
  /\ \/ pc[c] = "load" /\ UNCHANGED history
     \/ Begins(c, "paircode") /\ account \in Commands
  /\ account # NoAccount
  /\ LET token == IF Loaded.token = NoToken THEN NewToken(c, "cli") ELSE Loaded.token
         code == [Loaded EXCEPT !.token = token, !.hosts = @ \union IngressOf(c)]
     IN GotoWith(c, IF code = Loaded THEN "print" ELSE "save", code)
  /\ UNCHANGED <<host, profile, gateway, hook>>

\* unpair saves settings that hold nothing.
Unpair(c) ==
  /\ Begins(c, "unpair")
  /\ account \in Commands
  /\ GotoWith(c, "save", Unpaired)
  /\ UNCHANGED <<host, profile, gateway, hook>>

\* save_pairing reads the file again for the lines that are not the plugin's.
Kept(c) == [draft[c] EXCEPT !.keys = Loaded.keys]

\* The temporary file has one name, whoever writes it.
Save(c) ==
  /\ pc[c] = "save"
  /\ account # NoAccount
  /\ tmp' = Kept(c)
  /\ Goto(c, "rename")
  /\ UNCHANGED <<host, env, gateway, hook, history>>

\* os.replace; without the file it raises, and the command fails.
Rename(c) ==
  /\ pc[c] = "rename"
  /\ IF tmp = NoFile
     THEN Goto(c, "failed") /\ UNCHANGED profile
     ELSE /\ env' = tmp
          /\ tmp' = NoFile
          /\ Goto(c, IF KindOf[c] = "unpair" THEN "done" ELSE "print")
  /\ UNCHANGED <<host, gateway, hook, history>>

\* The pairing code is printed, and the command is done.
PrintCode(c) ==
  /\ pc[c] = "print"
  /\ handed' = handed \union {draft[c].token}
  /\ Goto(c, "done")
  /\ UNCHANGED <<host, profile, gateway, hook, apart, revoked, cold, outcome>>

-----------------------------------------------------------------------------
(* revoke-member.sh *)

\* Disable and stop the unit, and wait until it is not active; it may not stop.
\* The port is then taken off the tailnet, whatever comes of that.
StopService(c) ==
  /\ Begins(c, "revoke")
  /\ \/ account = NoAccount /\ Goto(c, "failed") /\ UNCHANGED <<enabled, gateway>>
     \/ /\ account # NoAccount
        /\ unit \/ gateway = Down
        /\ enabled' = (enabled /\ ~unit)
        /\ gateway' = Down
        /\ Goto(c, "wipe")
     \/ /\ account # NoAccount
        /\ gateway # Down
        /\ enabled' \in {enabled, enabled /\ ~unit}
        /\ Goto(c, "failed") /\ UNCHANGED gateway
  /\ UNCHANGED <<account, unit, profile, hook>>

\* remove-owned-file, then the report; it refuses a file that is not the member's.
WipeEnv(c) ==
  /\ pc[c] = "wipe"
  /\ \/ /\ account # NoAccount
        /\ env' = NoFile
        /\ revoked' = revoked \union handed
        /\ Goto(c, "done")
     \/ Goto(c, "failed") /\ UNCHANGED <<env, revoked>>
  /\ UNCHANGED <<host, tmp, gateway, hook, apart, handed, cold, outcome>>

-----------------------------------------------------------------------------
(* The host around the commands *)

\* A command is killed: neither script sets a trap.
Kill(c) ==
  /\ Running(c)
  /\ Goto(c, "killed")
  /\ UNCHANGED <<host, profile, gateway, hook, history>>

\* Restart=always, or an operator's systemctl restart.
Restart ==
  /\ gateway # Down
  /\ gateway' = Loaded
  /\ UNCHANGED <<host, profile, pc, hook, draft, history>>

\* An operator's systemctl start.
ManualStart ==
  /\ gateway = Down
  /\ NoneRunning
  /\ unit /\ account # NoAccount
  /\ gateway' = Loaded
  /\ UNCHANGED <<host, profile, pc, hook, draft, history>>

\* A reboot kills what runs and starts the unit if it is enabled.
Reboot ==
  /\ pc' = [c \in Commands |-> IF Running(c) THEN "killed" ELSE pc[c]]
  /\ draft' = [c \in Commands |-> Unpaired]
  /\ gateway' = IF enabled /\ unit /\ account # NoAccount THEN Loaded ELSE Down
  /\ UNCHANGED <<host, profile, hook, history>>

\* The operator removes a .env without a token, as ensure_env_file tells them to.
RemoveEnvByHand ==
  /\ NoneRunning
  /\ env # NoFile /\ env.token = NoToken
  /\ env' = NoFile
  /\ UNCHANGED <<host, tmp, gateway, pc, hook, draft, history>>

\* userdel -r and nothing else, as revoke-member.sh and ops/README.md tell the
\* operator to delete a member: a unit that is there stays.
DeleteMember ==
  /\ NoneRunning
  /\ account \in Commands /\ gateway = Down
  /\ Deleted
  /\ leftover' = unit
  /\ UNCHANGED <<unit, enabled, gateway, pc, hook, draft, apart, revoked, cold, warned, stuck>>

\* Somebody else makes an account of that name.
NewAccount ==
  /\ NoneRunning
  /\ account = NoAccount
  /\ account' = Foreign
  /\ UNCHANGED <<unit, enabled, profile, gateway, pc, hook, draft, history>>

Next ==
  \/ \E c \in Commands :
       \/ EnsureUser(c) \/ Prepare(c) \/ WriteEnv(c) \/ Seed(c)
       \/ RenderUnit(c) \/ Enable(c) \/ Verify(c) \/ StepFails(c)
       \/ UndoService(c) \/ UndoUnit(c) \/ UndoAccount(c)
       \/ Load(c) \/ Unpair(c) \/ Save(c) \/ Rename(c) \/ PrintCode(c)
       \/ StopService(c) \/ WipeEnv(c) \/ Kill(c)
  \/ Restart \/ ManualStart \/ Reboot
  \/ RemoveEnvByHand \/ DeleteMember \/ NewAccount

Spec == Init /\ [][Next]_vars

-----------------------------------------------------------------------------
(* Properties *)

TypeOK ==
  /\ account \in Commands \union {Foreign, NoAccount}
  /\ unit \in BOOLEAN /\ enabled \in BOOLEAN /\ apart \in BOOLEAN
  /\ env \in Settings \union {NoFile} /\ tmp \in Settings \union {NoFile}
  /\ gateway \in Settings \union {Down}
  /\ pc \in [Commands -> Steps]
  /\ hook \in [Commands -> BOOLEAN]
  /\ draft \in [Commands -> Settings]
  /\ handed \subseteq Tokens /\ revoked \subseteq Tokens
  /\ cold \subseteq Commands /\ warned \subseteq Commands /\ stuck \subseteq Commands
  /\ leftover \in BOOLEAN

\* A rollback deletes the account its own run made, whatever runs beside it, and
\* never a member who was given a pairing code (as long as commands do not
\* overlap): only useradd sets the hook, and verify_unit_listening clears it.
RollbackUndoesOwnRun ==
  \A c \in Commands : pc[c] \in Undoing => account = c /\ (apart => handed = {})

\* Provisioning leaves an account without a unit, which later runs refuse to adopt,
\* only while the run that made the account is still under way, if that run was
\* killed, or if userdel refused in its rollback. Without an account there is no
\* .env and no gateway, and no unit but one that outlived a deleted member.
NothingHalfMade ==
  apart =>
    /\ \A c \in Commands : account = c /\ ~unit =>
         (Running(c) /\ hook[c]) \/ pc[c] = "killed" \/ c \in stuck
    /\ account = NoAccount => env = NoFile /\ gateway = Down /\ (unit => leftover)

\* Once a revocation has reported success no gateway accepts a token that was
\* handed out before it, and no restart, reboot or later run brings one back.
RevokedStaysOut ==
  apart => /\ gateway # Down => gateway.token \notin revoked
           /\ env # NoFile => env.token \notin revoked

\* An account of another person that has a member's name is not taken over, nor is
\* a gateway started for it: provisioning knows it by the missing unit. This leaves
\* out the account that comes after a deleted member whose unit is still there.
ForeignAccountUntouched ==
  apart /\ account = Foreign /\ ~leftover => env = NoFile /\ gateway = Down

Prints(c) == KindOf[c] = "provision" /\ pc[c] = "print" /\ pc'[c] = "done"

\* The running gateway lets a client with this code in: bearer token and Host.
Accepts(c) ==
  /\ gateway # Down
  /\ gateway.token = draft[c].token
  /\ IngressOf(c) \subseteq gateway.hosts

\* A run that started the gateway prints a code this gateway accepts.
FreshCodeIsAccepted ==
  [][\A c \in cold : apart /\ Prints(c) => Accepts(c)]_vars

\* When a run that gave no warning prints its code the member has the provider
\* keys, and so has the gateway if the run started it, although every run first
\* rewrites .env without them and earlier ones may have failed, warned or been
\* killed just then; a pair-code or an unpair that saves the file keeps them.
ProviderKeysStay ==
  [][apart => \A c \in Commands :
       /\ Prints(c) /\ c \notin warned =>
            env # NoFile /\ env.keys /\ (c \in cold => gateway.keys)
       /\ Rename(c) => env'.keys = Loaded.keys]_vars

\* Every run prints a code the gateway accepts: "Install Tailscale and re-run to
\* fix it", "Remove it by hand, then re-run" (provision-member.sh).
CodeIsAccepted ==
  [][\A c \in Commands : apart /\ Prints(c) => Accepts(c)]_vars
=============================================================================
