------------------------------- MODULE Installer -------------------------------
(***************************************************************************)
(* The commands that set the registry up on a user's machine: init         *)
(* (local_personal.py), up, repair and uninstall (local_manager.py),       *)
(* install-codex and uninstall-codex (codex_install.py).                   *)
(*                                                                         *)
(* They share files with each other, with Codex and with the user, and     *)
(* none of them is atomic: a command writes several files one after the    *)
(* other and may end, with an error or a crash, between any two of them.   *)
(* Write_text truncates before it writes, so a crash inside leaves an      *)
(* empty file; _atomic_write does not.  One command runs at a time, but    *)
(* the user edits files whenever he likes.                                 *)
(*                                                                         *)
(* config.toml of Codex is the user's own content (a revision), the key in *)
(* the managed block (0: no block) and whether the user configured the     *)
(* server himself.  Incomplete markers, ports, file modes and the compose  *)
(* files are left out.                                                     *)
(***************************************************************************)
EXTENDS Naturals, FiniteSets

CONSTANTS
  Command,       \* the commands that are given
  Link,          \* the legacy skill links
  Foreign, Taken,\* a symlink of the user, a directory of the user
  Files,         \* how many files the plugin has
  MaxCommands, MaxKeys, MaxReleases, MaxEdits, MaxBreaks    \* bounds

Commands ==
  {"init", "up", "repair", "install codex", "uninstall codex",
   "uninstall", "restore backup", "purge"}

ASSUME InstallerAssumption ==
  /\ Command \subseteq Commands
  /\ Files \in Nat \ {0}
  /\ Foreign \notin Nat /\ Taken \notin Nat
  /\ {MaxCommands, MaxKeys, MaxEdits, MaxBreaks} \subseteq Nat
  /\ MaxReleases \in Nat \ {0}

PluginFile == 1 .. Files
Market == Files + 1               \* the file that describes the marketplace
Payload == PluginFile \cup {Market}
Root == 1 .. MaxReleases

Blank == [there |-> FALSE, own |-> 0, block |-> 0, users |-> FALSE]
Emptied == [Blank EXCEPT !.there = TRUE]
NoRecord == [there |-> FALSE, block |-> 0, links |-> [l \in Link |-> 0]]
NoPlugin == [f \in PluginFile |-> 0]
NoPlan == [market |-> FALSE, plugin |-> FALSE, changed |-> FALSE,
           old |-> NoRecord, record |-> NoRecord, claimed |-> FALSE,
           free |-> {}]
NoJob == [cmd |-> "none", step |-> "idle", key |-> 0, seen |-> Blank,
          plan |-> NoPlan]

VARIABLES
  config,    \* config.toml of Codex
  saved,     \* the backup beside it
  managed,   \* the managed config of the registry: [mode, key]
  valid,     \* the API keys that the local server accepts
  issued,
  links,     \* link -> the root it points to, 0, Foreign or Taken
  payload,   \* managed plugin files -> release, 0
  record,    \* the install state: what install-codex has taken away
  codex,     \* what Codex has registered: [market, plugin]
  release,   \* the installed package
  root,      \* and where its assets are
  job,       \* the command that runs
  given, edits, breaks,
  wrote      \* history: the last revision of the user's own content

machine == <<config, saved, managed, valid, issued, links, payload, record,
             codex, release, root>>
deskVars == <<machine, job, given, edits, breaks, wrote>>
-----------------------------------------------------------------------------
(***************************************************************************)
(* Contents of config.toml                                                 *)
(***************************************************************************)

\* upsert_managed_codex_config; it refuses when the user has the section.
Upsert(c, k) == [c EXCEPT !.there = TRUE, !.block = k]
Clashes(c) == c.block = 0 /\ c.users

\* remove_managed_codex_block, and unlink when nothing is left.
Without(c) == IF c.own = 0 /\ ~c.users THEN Blank ELSE [c EXCEPT !.block = 0]

Step(s) == job.step = s
Reach(s) == job' = [job EXCEPT !.step = s]
Finish == job' = NoJob

\* A command begins; the managed config is read first.
Give(c, s) ==
  /\ Step("idle") /\ c \in Command /\ given < MaxCommands
  /\ given' = given + 1
  /\ job' = [NoJob EXCEPT !.cmd = c, !.step = s, !.key = managed.key]
  /\ UNCHANGED <<machine, edits, breaks, wrote>>

Quiet(others) == UNCHANGED <<others, given, edits, breaks, wrote>>

InstallerInit ==
  /\ config \in {Blank, [Blank EXCEPT !.there = TRUE, !.own = 1]}
  /\ saved = Blank
  /\ managed = [mode |-> "none", key |-> 0]
  /\ valid = {} /\ issued = 0
  /\ links = [l \in Link |-> 0]
  /\ payload = [f \in Payload |-> 0]
  /\ record = NoRecord
  /\ codex = [market |-> FALSE, plugin |-> NoPlugin]
  /\ release = 1 /\ root = 1
  /\ job = NoJob
  /\ given = 0 /\ edits = 0 /\ breaks = 0
  /\ wrote = config.own
-----------------------------------------------------------------------------
(***************************************************************************)
(* init, and what install-codex does first.  A managed config that cannot  *)
(* be read, because it was truncated, is refused by every command; init    *)
(* also refuses a shared one.  Refusals change nothing.                    *)
(***************************************************************************)
AfterInit == IF job.cmd = "init" THEN "verified" ELSE "plan"

Initialize(c) ==
  /\ c \in {"init", "install codex"}
  /\ \/ managed.mode = "none" /\ Give(c, "create")
     \/ managed.mode = "personal" /\ Give(c, "check")
     \/ managed.mode = "shared" /\ c = "install codex" /\ Give(c, "plan")

\* os.open with O_EXCL; the content comes after.
CreateConfig ==
  /\ Step("create")
  /\ managed' = [mode |-> "torn", key |-> 0]
  /\ Reach("fill")
  /\ Quiet(<<config, saved, valid, issued, links, payload, record, codex,
             release, root>>)

FillConfig ==
  /\ Step("fill")
  /\ managed' = [mode |-> "personal", key |-> 0]
  /\ Reach("check")
  /\ Quiet(<<config, saved, valid, issued, links, payload, record, codex,
             release, root>>)

\* Migrations, the integrity check and the blob directories.
CheckRegistry ==
  /\ Step("check")
  /\ IF job.cmd = "init" THEN Finish
     ELSE Reach("plan")
  /\ Quiet(machine)
-----------------------------------------------------------------------------
(***************************************************************************)
(* up and repair                                                           *)
(***************************************************************************)
Up == managed.mode # "torn" /\ Give("up", "configure")

Repair == managed.mode \in {"personal", "shared"} /\ Give("repair", "mend")

\* write_managed_local_config: a personal config becomes a shared one.  With
\* --skip-start neither the stack is started nor a key looked for.
Configure(start) ==
  /\ Step("configure")
  /\ managed' = [mode |-> "shared", key |-> job.key]
  /\ Reach(IF start THEN "key" ELSE "editor")
  /\ Quiet(<<config, saved, valid, issued, links, payload, record, codex,
             release, root>>)

\* Repair asks for a key when it has none and the server answers.
Mend ==
  /\ Step("mend")
  /\ \/ Reach("editor")
     \/ job.key = 0 /\ managed.mode = "shared" /\ Reach("key")
  /\ Quiet(machine)

KeepKey ==
  /\ Step("key") /\ job.key \in valid
  /\ Reach("save")
  /\ Quiet(machine)

\* The key is not accepted, or the server did not answer in time.
IssueKey ==
  /\ Step("key") /\ issued < MaxKeys
  /\ issued' = issued + 1
  /\ valid' = valid \cup {issued'}
  /\ job' = [job EXCEPT !.key = issued', !.step = "save"]
  /\ Quiet(<<config, saved, managed, links, payload, record, codex, release,
             root>>)

SaveKey ==
  /\ Step("save")
  /\ managed' = [managed EXCEPT !.key = job.key]
  /\ Reach("editor")
  /\ Quiet(<<config, saved, valid, issued, links, payload, record, codex,
             release, root>>)

\* ensure_codex_mcp_config: read, back up what differs, write.
ReadEditor ==
  /\ Step("editor")
  /\ IF job.key = 0
     THEN Reach("link")
     ELSE /\ ~Clashes(config)
          /\ job' = [job EXCEPT
               !.seen = config,
               !.step = IF config.there /\ config # Upsert(config, job.key)
                        THEN "back up" ELSE "write"]
  /\ Quiet(machine)

\* Variant: the backup is not written.
SkipBackUp ==
  /\ Step("back up")
  /\ Reach("write")
  /\ Quiet(machine)

BackUp ==
  /\ Step("back up")
  /\ saved' = job.seen
  /\ Reach("write")
  /\ Quiet(<<config, managed, valid, issued, links, payload, record, codex,
             release, root>>)

WriteEditor ==
  /\ Step("write")
  /\ config' = Upsert(job.seen, job.key)
  /\ Reach("link")
  /\ Quiet(<<saved, managed, valid, issued, links, payload, record, codex,
             release, root>>)

\* ensure_skill_links replaces symlinks and keeps directories.
ToLink == {l \in Link : links[l] \notin {root, Taken}}

EnsureLink(l) ==
  /\ Step("link") /\ l \in ToLink
  /\ links' = [links EXCEPT ![l] = root]
  /\ UNCHANGED job
  /\ Quiet(<<config, saved, managed, valid, issued, payload, record, codex,
             release, root>>)

Linked ==
  /\ Step("link") /\ ToLink = {}
  /\ Finish
  /\ Quiet(machine)
-----------------------------------------------------------------------------
(***************************************************************************)
(* install-codex                                                           *)
(***************************************************************************)
Ours(l) == links[l] = root                     \* _managed_legacy_links

\* _load_state refuses links to roots that it does not know.
Loads == \A l \in Link : record.links[l] \in {0, root}

\* _capture_legacy_state: the first block that was captured is kept.
Captured ==
  [there |-> TRUE,
   block |-> IF record.block = 0 THEN config.block ELSE record.block,
   links |-> [l \in Link |-> IF Ours(l) THEN root ELSE record.links[l]]]

\* What will be changed is decided here, from what is there now.
PlanInstall ==
  /\ Step("plan") /\ Loads
  /\ job' = [job EXCEPT !.step = "payload", !.plan =
       [NoPlan EXCEPT !.market = codex.market,
                      !.plugin = codex.plugin # NoPlugin,
                      !.changed = \E f \in PluginFile : payload[f] # release,
                      !.record = Captured]]
  /\ Quiet(machine)

\* A release has files of its own; the description of the marketplace is
\* the same in all.
Wanted(f) == IF f = Market THEN 1 ELSE release
ToWrite == {f \in Payload : payload[f] # Wanted(f)}

WritePayload(f) ==
  /\ Step("payload") /\ f \in ToWrite
  /\ \A e \in ToWrite : f <= e
  /\ payload' = [payload EXCEPT ![f] = Wanted(f)]
  /\ UNCHANGED job
  /\ Quiet(<<config, saved, managed, valid, issued, links, record, codex,
             release, root>>)

WriteRecord ==
  /\ Step("payload") /\ ToWrite = {}
  /\ record' = job.plan.record
  /\ Reach("strip")
  /\ Quiet(<<config, saved, managed, valid, issued, links, payload, codex,
             release, root>>)

\* _apply_legacy_removal; uninstall_local_runtime removes the block the same
\* way.
ReadBlock(s) ==
  /\ Step(s)
  /\ IF config.block = 0
     THEN Reach("unlink")
     ELSE job' = [job EXCEPT !.seen = config, !.step = "remove"]
  /\ Quiet(machine)

RemoveBlock ==
  /\ Step("remove")
  /\ config' = Without(job.seen)
  /\ Reach("unlink")
  /\ Quiet(<<saved, managed, valid, issued, links, payload, record, codex,
             release, root>>)

Unlink(l) ==
  /\ Step("unlink") /\ Ours(l)
  /\ links' = [links EXCEPT ![l] = 0]
  /\ UNCHANGED job
  /\ Quiet(<<config, saved, managed, valid, issued, payload, record, codex,
             release, root>>)

Unlinked(cmds, s) ==
  /\ Step("unlink") /\ job.cmd \in cmds
  /\ \A l \in Link : ~Ours(l)
  /\ Reach(s)
  /\ Quiet(machine)

\* codex plugin marketplace add, codex plugin add: the second copies the
\* plugin, and is called when the plan says so.
Register ==
  /\ Step("register")
  /\ codex' = [codex EXCEPT !.market = TRUE]
  /\ Reach("add")
  /\ Quiet(<<config, saved, managed, valid, issued, links, payload, record,
             release, root>>)

AddPlugin ==
  /\ Step("add") /\ (job.plan.plugin => job.plan.changed)
  /\ codex' = [codex EXCEPT !.plugin = [f \in PluginFile |-> payload[f]]]
  /\ Finish
  /\ UNCHANGED <<config, saved, managed, valid, issued, links, payload,
                 record, release, root, given, edits, breaks, wrote>>

KeepPlugin ==
  /\ Step("add") /\ job.plan.plugin /\ ~job.plan.changed
  /\ Finish
  /\ Quiet(machine)
-----------------------------------------------------------------------------
(***************************************************************************)
(* uninstall-codex                                                         *)
(***************************************************************************)

\* _restoration_plan: what will still be recorded afterwards.
Remaining ==
  [there |-> TRUE,
   block |-> IF config.block = 0 /\ config.users THEN record.block ELSE 0,
   links |-> [l \in Link |-> IF links[l] \in {0, record.links[l]}
                             THEN 0 ELSE record.links[l]]]

Restored(r) == r.block = 0 /\ \A l \in Link : r.links[l] = 0

PlanRemoval ==
  /\ Step("plan removal") /\ Loads
  /\ job' = [job EXCEPT !.step = "unregister", !.plan =
       [NoPlan EXCEPT !.old = record, !.record = Remaining,
                      !.free = {l \in Link : links[l] = 0}]]
  /\ Quiet(machine)

RemovePlugin ==
  /\ Step("unregister") /\ codex.plugin # NoPlugin
  /\ codex' = [codex EXCEPT !.plugin = NoPlugin]
  /\ UNCHANGED job
  /\ Quiet(<<config, saved, managed, valid, issued, links, payload, record,
             release, root>>)

RemoveMarket ==
  /\ Step("unregister") /\ codex.plugin = NoPlugin
  /\ codex' = [codex EXCEPT !.market = FALSE]
  /\ Reach("restore")
  /\ Quiet(<<config, saved, managed, valid, issued, links, payload, record,
             release, root>>)

\* _apply_restoration looks again at what is there.
ReadRestore ==
  /\ Step("restore")
  /\ IF job.plan.old.block # 0 /\ config.block = 0 /\ ~config.users
     THEN job' = [job EXCEPT !.seen = config, !.step = "put back"]
     ELSE Reach("relink")
  /\ Quiet(machine)

PutBack ==
  /\ Step("put back")
  /\ config' = Upsert(job.seen, job.plan.old.block)
  /\ Reach("relink")
  /\ Quiet(<<saved, managed, valid, issued, links, payload, record, codex,
             release, root>>)

ToRelink == {l \in Link : job.plan.old.links[l] # 0 /\ links[l] = 0}

Relink(l) ==
  /\ Step("relink") /\ l \in ToRelink
  /\ links' = [links EXCEPT ![l] = job.plan.old.links[l]]
  /\ UNCHANGED job
  /\ Quiet(<<config, saved, managed, valid, issued, payload, record, codex,
             release, root>>)

Relinked ==
  /\ Step("relink") /\ ToRelink = {}
  /\ Reach("clear")
  /\ Quiet(machine)

\* _remove_managed_payloads: the state goes last, and only when nothing is
\* left to restore; otherwise what is left is written.
RemovePayload(f) ==
  /\ Step("clear") /\ payload[f] # 0
  /\ \A e \in Payload : e < f => payload[e] = 0
  /\ payload' = [payload EXCEPT ![f] = 0]
  /\ UNCHANGED job
  /\ Quiet(<<config, saved, managed, valid, issued, links, record, codex,
             release, root>>)

RemoveRecord ==
  /\ Step("clear") /\ \A f \in Payload : payload[f] = 0
  /\ record' = IF Restored(job.plan.record) THEN NoRecord ELSE job.plan.record
  /\ Finish
  /\ Quiet(<<config, saved, managed, valid, issued, links, payload, codex,
             release, root>>)
-----------------------------------------------------------------------------
(***************************************************************************)
(* uninstall, with --restore-codex-backup or --purge-data                  *)
(***************************************************************************)
Uninstall(c) ==
  /\ c \in {"uninstall", "restore backup", "purge"}
  /\ managed.mode # "torn"
  /\ Give(c, "stop")

\* Docker stops the stack, and drops its volumes for a purge; that it could
\* not is a warning.
StopStack ==
  /\ Step("stop")
  /\ \/ UNCHANGED valid
     \/ job.cmd = "purge" /\ managed.mode # "none" /\ valid' = {}
  /\ Reach(IF job.cmd = "restore backup" /\ saved.there
           THEN "roll back" ELSE "take out")
  /\ Quiet(<<config, saved, managed, issued, links, payload, record, codex,
             release, root>>)

\* restore_codex_config_backup
RollBack ==
  /\ Step("roll back")
  /\ config' = saved
  /\ Reach("unlink")
  /\ Quiet(<<saved, managed, valid, issued, links, payload, record, codex,
             release, root>>)

Purge ==
  /\ Step("purge")
  /\ managed' = IF job.cmd = "purge" THEN [mode |-> "none", key |-> 0]
                ELSE managed
  /\ Finish
  /\ Quiet(<<config, saved, valid, issued, links, payload, record, codex,
             release, root>>)
-----------------------------------------------------------------------------
(***************************************************************************)
(* Ends that were not planned, and what the user does                      *)
(***************************************************************************)

\* A file that write_text was writing when the process died.
Truncate ==
  \/ UNCHANGED <<config, saved, managed>>
  \/ /\ \/ Step("write") \/ Step("roll back")
        \/ Step("remove") /\ job.cmd # "install codex"
     /\ config' = Emptied
     /\ UNCHANGED <<saved, managed>>
  \/ /\ Step("back up")
     /\ saved' = Emptied
     /\ UNCHANGED <<config, managed>>
  \/ /\ \/ Step("configure") \/ Step("save")
     /\ managed' = [mode |-> "torn", key |-> 0]
     /\ UNCHANGED <<config, saved>>

\* An error or a crash, at any step.
Break ==
  /\ ~Step("idle") /\ breaks < MaxBreaks
  /\ breaks' = breaks + 1
  /\ job' = NoJob
  /\ Truncate
  /\ UNCHANGED <<valid, issued, links, payload, record, codex, release, root, given, edits, wrote>>

\* plan.claimed is history: he has claimed the server name since
\* uninstall-codex made its plan.
Edit(users) ==
  /\ edits < MaxEdits
  /\ users => config.block = 0
  /\ edits' = edits + 1 /\ wrote' = wrote + 1
  /\ config' = [config EXCEPT !.there = TRUE, !.own = wrote', !.users = users]
  /\ job' = IF users /\ ~config.users /\ job.cmd = "uninstall codex"
            THEN [job EXCEPT !.plan.claimed = TRUE] ELSE job
  /\ UNCHANGED <<saved, managed, valid, issued, links, payload, record, codex,
                 release, root, given, breaks>>

Occupy(l, what) ==
  /\ edits < MaxEdits /\ links[l] = 0
  /\ edits' = edits + 1
  /\ links' = [links EXCEPT ![l] = what]
  /\ UNCHANGED <<config, saved, managed, valid, issued, payload, record, codex,
                 release, root, job, given, breaks, wrote>>

\* Another release is installed, at the same place or elsewhere.
Upgrade(moved) ==
  /\ Step("idle") /\ release < MaxReleases
  /\ release' = release + 1
  /\ root' = IF moved THEN release' ELSE root
  /\ UNCHANGED <<config, saved, managed, valid, issued, links, payload, record,
                 codex, job, given, edits, breaks, wrote>>

User ==
  \/ \E users \in BOOLEAN : Edit(users)
  \/ \E l \in Link, what \in {Foreign, Taken} : Occupy(l, what)
  \/ \E moved \in BOOLEAN : Upgrade(moved)

InstallCodex ==
  \/ \E c \in Command : Initialize(c)
  \/ CreateConfig \/ FillConfig \/ CheckRegistry
  \/ PlanInstall \/ WriteRecord \/ ReadBlock("strip") \/ RemoveBlock
  \/ \E f \in Payload : WritePayload(f)
  \/ \E l \in Link : Unlink(l)
  \/ Unlinked({"install codex"}, "register")
  \/ Register \/ AddPlugin \/ KeepPlugin

SetUp ==
  \/ Up \/ Repair \/ Mend \/ KeepKey \/ IssueKey \/ SaveKey
  \/ \E start \in BOOLEAN : Configure(start)
  \/ ReadEditor \/ BackUp \/ WriteEditor \/ Linked
  \/ \E l \in Link : EnsureLink(l)

UninstallCodex ==
  \/ Give("uninstall codex", "plan removal")
  \/ PlanRemoval \/ RemovePlugin \/ RemoveMarket
  \/ ReadRestore \/ PutBack \/ Relinked \/ RemoveRecord
  \/ \E l \in Link : Relink(l)
  \/ \E f \in Payload : RemovePayload(f)

TakeDown ==
  \/ \E c \in Command : Uninstall(c)
  \/ StopStack \/ RollBack \/ ReadBlock("take out") \/ Purge
  \/ Unlinked({"uninstall", "restore backup", "purge"}, "purge")

InstallerNext ==
  \/ SetUp \/ InstallCodex \/ UninstallCodex \/ TakeDown
  \/ User \/ Break

InstallerSpec == InstallerInit /\ [][InstallerNext]_deskVars
-----------------------------------------------------------------------------
InstallerTypeOK ==
  LET Config == [there : BOOLEAN, own : 0 .. MaxEdits + 1,
                 block : 0 .. MaxKeys, users : BOOLEAN]
      Record == [there : BOOLEAN, block : 0 .. MaxKeys,
                 links : [Link -> {0} \cup Root]]
  IN /\ config \in Config /\ saved \in Config
     /\ managed.mode \in {"none", "torn", "personal", "shared"}
     /\ managed.key \in 0 .. MaxKeys /\ valid \subseteq 1 .. issued
     /\ \A l \in Link : links[l] \in {0, Foreign, Taken} \cup Root
     /\ DOMAIN payload = Payload /\ record \in Record
     /\ codex.market \in BOOLEAN
     /\ codex.plugin \in [PluginFile -> 0 .. MaxReleases]
     /\ release \in Root /\ root \in Root
     /\ job.cmd \in Commands \cup {"none"}
     /\ job.key \in 0 .. MaxKeys /\ job.plan.record \in Record
     /\ edits \in 0 .. MaxEdits /\ breaks \in 0 .. MaxBreaks

\* A block leaves config.toml only when the state file has one to restore, and
\* leaves the state file only when config.toml has one, or the user has claimed
\* the server name since the plan was made (he may have given it up again); the
\* same for the links.
LegacyStep ==
  /\ config.block # 0 /\ config'.block = 0 /\ job.cmd = "install codex"
       => record.block # 0
  /\ record.block # 0 /\ record'.block = 0
       => config.block # 0 \/ job.plan.claimed
  /\ \A l \in Link :
       /\ links[l] # 0 /\ links'[l] = 0 /\ job.cmd = "install codex"
            => record.links[l] = links[l]
       /\ record.links[l] # 0 /\ record'.links[l] = 0
            => (links[l] = record.links[l] \/ l \in job.plan.free)

\* The user's own configuration of Codex: its last revision is in config.toml
\* or in the backup beside it, and no step of a command loses it (config.toml
\* "remains untouched", docs/codex-plugin.md:80), except: one that writes over
\* an edit made since it read the file; one that rolls back on request; a
\* backup of a file that an earlier crash has emptied, though a block may be in
\* it again, over the backup that still had it; and a crash in a write that no
\* backup precedes, which are those of uninstall and of an up or repair that
\* changes nothing.
OwnThere == wrote \in {config.own, saved.own}

Overtaken == job.seen.own # config.own
Unguarded ==
  \/ Step("remove") /\ job.cmd # "install codex"
  \/ Step("write") /\ job.seen = Upsert(job.seen, job.key)

OwnStep ==
  OwnThere =>
    \/ OwnThere' \/ Overtaken \/ Step("roll back")
    \/ Step("back up") /\ job.seen.own = 0
    \/ Unguarded /\ breaks' # breaks

\* What was in the user's files before is kept wherever a command is cut short:
\* what install-codex takes away, for uninstall-codex to restore (docs/
\* codex-plugin.md:82), and the user's own configuration.
ContentKept == [][LegacyStep /\ OwnStep]_deskVars
=============================================================================
