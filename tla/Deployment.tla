------------------------------- MODULE Deployment -------------------------------
(***************************************************************************)
(* Installing and upgrading an enclave: scripts/airgap-install.sh and      *)
(* scripts/airgap-upgrade.sh, with the bundle of images that               *)
(* scripts/build-release-images.sh makes, the dumps of                     *)
(* scripts/backup-db.sh and the operator who stages bundles, starts        *)
(* scripts with one set of options or another, and follows the rollback    *)
(* recipe of a failed upgrade.  Releases are numbered; a release brings    *)
(* one migration, and a schema is named by the last release migrated to.   *)
(***************************************************************************)
EXTENDS Naturals, Sequences, FiniteSets

CONSTANTS
    Latest,     \* releases are 1..Latest
    Major,      \* the major number of each release
    Reporting,  \* releases whose GET /health names a version
    WithEdits,  \* releases whose schema has message_edits
    MaxFaults   \* bound: commands that fail, and bundles staged with a file broken

Releases == 1..Latest

ASSUME DeploymentAssumption ==
    /\ Latest \in Nat \ {0} /\ MaxFaults \in Nat
    /\ Major \in [Releases -> Nat]
    /\ Reporting \subseteq Releases /\ WithEdits \subseteq Releases

Options == {"CONFIRM_MAJOR_UPGRADE", "ASSUME_PREVIOUS_VERSION", "SKIP_BACKUP", "SKIP_FIRST_ADMIN"}
Careful == {"CONFIRM_MAJOR_UPGRADE", "ASSUME_PREVIOUS_VERSION"}

VARIABLES
    first,      \* the release the operator installs, any of them
    staged,     \* releases whose tars are under images/
    broken,     \* of those, the ones that were damaged on the way
    manifest,   \* the release whose tars images/CHECKSUMS.sha256 lists, 0 before any
    loaded,     \* releases whose images `docker load` has put on the host
    running,    \* the release the backend answers with, 0 while it does not answer
    schema,     \* the last migration applied to the database
    admin,      \* the first administrator exists
    backups,    \* the schemas of the complete dumps under backups/
    script,     \* the script that runs
    guidance,   \* the release that the last rollback recipe names, 0 if none is open
    reported,   \* releases whose install or upgrade ran to its report
    skipped,    \* history: an upgrade went past the backup without one
    hurried,    \* history: an upgrade was started from a release that never got its report
    faults      \* history: how many so far

bundle == <<staged, broken, manifest>>
host == <<loaded, running, schema, admin, backups>>
histories == <<skipped, hurried>>
deploymentVars == <<first, bundle, host, script, guidance, reported, histories, faults>>
untouched == <<bundle, host, reported, histories, faults>>

NoScript == [kind |-> "none", at |-> "none", target |-> 0, previous |-> 0,
             bringing |-> FALSE, skip |-> FALSE]

DeploymentInit ==
    /\ first \in Releases
    /\ staged = {} /\ broken = {} /\ manifest = 0 /\ loaded = {}
    /\ running = 0 /\ schema = 0 /\ admin = FALSE /\ backups = {}
    /\ script = NoScript /\ guidance = 0 /\ reported = {}
    /\ skipped = FALSE /\ hurried = FALSE /\ faults = 0

------------------------------------------------------------------------------
(* The runtime user's grants, as the migrations leave them and as each script  *)
(* expects them; one table stands for each group.                              *)

Full == {"DELETE", "INSERT", "SELECT", "UPDATE"}
Kept == Full \ {"DELETE"}           \* organizations, users, workspaces, channels, messages
AppendOnly == {"INSERT", "SELECT"}

Tables == {"audit_logs", "users", "embedding_jobs"} \cup
          (IF schema \in WithEdits THEN {"message_edits"} ELSE {})

Granted(t) ==
    CASE t \in {"audit_logs", "message_edits"} -> AppendOnly
      [] t = "users" -> Kept
      [] OTHER -> Full

\* Mutant: the matrix before message_edits was learnt about.
MatrixOfOld(kind, t) ==
    CASE t = "audit_logs" -> AppendOnly [] t = "users" -> Kept [] OTHER -> Full

\* phase_grants, the case statement of each script.
Matrix(kind, t) ==
    CASE t = "audit_logs" \/ (kind = "upgrade" /\ t = "message_edits") -> AppendOnly
      [] t = "users" -> Kept
      [] OTHER -> Full

------------------------------------------------------------------------------
(* How a script runs: phases in order, `set -e` and `fail` at any of them.     *)

\* main() of each script.
InstallPhases == <<"preflight", "load", "bundle", "postgres", "migrate", "grants", "models",
                   "up", "health", "config", "admin", "smoke", "audit", "report">>

\* Mutant: the dump is taken once the images are loaded and the schema is migrated.
PhasesBackupLate == <<"preflight", "load", "bundle", "migrate", "backup", "grants", "up",
                      "health", "repair", "audit", "report">>

UpgradePhases == <<"preflight", "backup", "load", "bundle", "migrate", "grants", "up",
                   "health", "repair", "audit", "report">>

After(kind, phase) ==
    LET phases == IF kind = "install" THEN InstallPhases ELSE UpgradePhases
        i == CHOOSE j \in DOMAIN phases : phases[j] = phase
    IN  phases[i + 1]

Idle == script = NoScript
At(phase) == script.at = phase
Goto(s) == script' = [s EXCEPT !.at = After(s.kind, s.at)] /\ UNCHANGED guidance
Pass == Goto(script)

\* Mutant: the recipe names the version of the env file.
FailsNamingTarget ==
    /\ script' = NoScript
    /\ guidance' = IF script.bringing THEN script.target ELSE guidance

\* exit 1: on_exit prints the recipe once new containers were being brought up.
Fails ==
    /\ script' = NoScript
    /\ guidance' = IF script.bringing THEN script.previous ELSE guidance

PassIf(condition) == IF condition THEN Pass ELSE Fails

------------------------------------------------------------------------------
(* The operator.                                                               *)

\* A bundle is built and carried over, whole or not.  Its manifest, which lists its own tars
\* only, takes the place of the one before; the tars of other releases stay.
Transfer(v, whole) ==
    /\ Idle
    /\ whole \/ faults < MaxFaults
    /\ faults' = IF whole THEN faults ELSE faults + 1
    /\ staged' = staged \cup {v} /\ manifest' = v
    /\ broken' = IF whole THEN broken \ {v} ELSE broken \cup {v}
    /\ UNCHANGED <<host, script, guidance, reported, histories>>

\* phase_preflight: refused without a staged bundle, and an upgrade also without a live
\* /health to take the running version from, to the version that runs, or to another major
\* one without confirmation.  A refusal changes nothing.
Preflight(kind, v, options) ==
    /\ v \in staged
    /\ kind = "upgrade" =>
          /\ running # 0 /\ running # v
          /\ running \in Reporting \/ "ASSUME_PREVIOUS_VERSION" \in options
          /\ Major[running] = Major[v] \/ "CONFIRM_MAJOR_UPGRADE" \in options

Start(kind, v, options) ==
    /\ Idle /\ Preflight(kind, v, options)
    /\ script' = [kind |-> kind, at |-> After(kind, "preflight"), target |-> v,
                  previous |-> running, bringing |-> FALSE,
                  skip |-> options \cap {"SKIP_BACKUP", "SKIP_FIRST_ADMIN"} # {}]
    /\ UNCHANGED <<bundle, host, guidance, reported, skipped, faults>>

StartInstall(options) ==
    /\ reported = {} /\ Start("install", first, options) /\ UNCHANGED hurried

StartUpgrade(v, options) ==
    /\ Start("upgrade", v, options)
    /\ hurried' = (hurried \/ running \notin reported)

\* The recipe: the previous version into the env file, `up -d --no-deps backend frontend`.
RollBack ==
    /\ Idle /\ guidance # 0 /\ guidance \in loaded
    /\ running' = guidance
    /\ UNCHANGED <<bundle, loaded, schema, admin, backups, script, guidance, reported,
                   histories, faults>>
------------------------------------------------------------------------------
(* The phases.                                                                 *)

\* scripts/backup-db.sh, into a file of a new name.
Dumped == backups \cup {schema}

\* phase_backup.
Backup ==
    /\ At("backup") /\ Pass
    /\ IF script.skip THEN skipped' = TRUE /\ UNCHANGED backups
       ELSE backups' = Dumped /\ UNCHANGED skipped
    /\ UNCHANGED <<bundle, loaded, running, schema, admin, reported, hurried, faults>>

\* `sha256sum -c` on the manifest: the tars of the bundle that came last, not the target's.
Intact == manifest \notin broken

\* `docker load` refuses a damaged tar, which the manifest may no longer list.
Loads == Intact /\ script.target \notin broken

Load ==
    /\ At("load") /\ PassIf(Loads)
    /\ loaded' = IF Loads THEN loaded \cup {script.target} ELSE loaded
    /\ UNCHANGED <<bundle, running, schema, admin, backups, reported, histories, faults>>

\* Phases that leave nothing behind which a later one depends on, each of which may fail
\* (CommandFails): the URL baked into the frontend, Postgres and its extension brought up,
\* the models the GPU host serves, the origins in the env file, a message and a summary
\* through the application, and the hash chain of the audit log.
BundleCheck == At("bundle") /\ Pass /\ UNCHANGED untouched
Postgres == At("postgres") /\ Pass /\ UNCHANGED untouched
ServedModels == At("models") /\ Pass /\ UNCHANGED untouched
ValidateConfig == At("config") /\ Pass /\ UNCHANGED untouched
SmokeTest == At("smoke") /\ Pass /\ UNCHANGED untouched
AuditVerify == At("audit") /\ Pass /\ UNCHANGED untouched

\* backfill-sentiment-scores.mjs, whose failure the script tolerates.
DataRepair == At("repair") /\ Pass /\ UNCHANGED untouched

\* The migrations still to come, each in its transaction; a release that lacks one the
\* database has is refused.
Migrate ==
    /\ At("migrate")
    /\ IF schema < script.target THEN schema' = schema + 1 /\ UNCHANGED <<script, guidance>>
       ELSE PassIf(schema = script.target) /\ UNCHANGED schema
    /\ UNCHANGED <<bundle, loaded, running, admin, backups, reported, histories, faults>>

Grants ==
    /\ At("grants")
    /\ PassIf(\A t \in Tables : Granted(t) = Matrix(script.kind, t))
    /\ UNCHANGED untouched

\* `up -d backend frontend` on the tags of the env file.
BringUp ==
    /\ At("up")
    /\ running' = script.target
    /\ Goto([script EXCEPT !.bringing = (script.kind = "upgrade")])
    /\ UNCHANGED <<bundle, loaded, schema, admin, backups, reported, histories, faults>>

\* An upgrade wants the new version from /health, an install any answer.
Health ==
    /\ At("health")
    /\ PassIf(script.kind = "install" \/ script.target \in Reporting)
    /\ UNCHANGED untouched

\* phase_first_admin: SKIP_FIRST_ADMIN.
SkipsAdmin == script.skip

\* create-first-admin.mjs refuses a username that is taken.
FirstAdmin ==
    /\ At("admin")
    /\ PassIf(SkipsAdmin \/ ~admin)
    /\ admin' = (admin \/ ~SkipsAdmin)
    /\ UNCHANGED <<bundle, loaded, running, schema, backups, reported, histories, faults>>

WriteReport ==
    /\ At("report") /\ script' = NoScript
    /\ reported' = reported \cup {script.target} /\ guidance' = 0
    /\ UNCHANGED <<bundle, host, histories, faults>>

\* A command fails and ends the script, as does an interrupt.
CommandFails ==
    /\ ~Idle /\ script.at # "up"
    /\ faults < MaxFaults /\ faults' = faults + 1 /\ Fails
    /\ UNCHANGED <<bundle, host, reported, histories>>

\* Or `up -d` does: the old containers may still serve, or none.
UpFails ==
    /\ At("up") /\ faults < MaxFaults /\ faults' = faults + 1
    /\ running' \in {0, running, script.target}
    /\ script' = NoScript
    /\ guidance' = IF script.kind = "upgrade" THEN script.previous ELSE guidance
    /\ UNCHANGED <<bundle, loaded, schema, admin, backups, reported, histories>>

Phase ==
    \/ Backup \/ Load \/ BundleCheck \/ Postgres \/ Migrate \/ Grants \/ ServedModels
    \/ BringUp \/ Health \/ DataRepair \/ ValidateConfig \/ FirstAdmin \/ SmokeTest
    \/ AuditVerify \/ WriteReport

DeploymentStep ==
    \/ \E v \in Releases, whole \in BOOLEAN : Transfer(v, whole)
    \/ \E options \in SUBSET Options : StartInstall(options)
    \/ \E v \in Releases, options \in SUBSET Options : StartUpgrade(v, options)
    \/ RollBack
    \/ Phase \/ CommandFails \/ UpFails

DeploymentNext == DeploymentStep /\ UNCHANGED first

DeploymentSpec == DeploymentInit /\ [][DeploymentNext]_deploymentVars

\* A script that is started runs on.  The operator keeps trying: stages the bundle,
\* installs, follows a rollback recipe, and upgrades to the latest release with the options
\* the script asks for.
Fairness ==
    /\ WF_deploymentVars(Phase /\ UNCHANGED first)
    /\ \A v \in Releases :
          SF_deploymentVars(v \in {first, Latest} /\ Transfer(v, TRUE) /\ UNCHANGED first)
    /\ \A options \in {Careful, {"SKIP_FIRST_ADMIN"}} :
          SF_deploymentVars(StartInstall(options) /\ UNCHANGED first)
    /\ SF_deploymentVars(StartUpgrade(Latest, Careful) /\ UNCHANGED first)
    /\ SF_deploymentVars(RollBack /\ UNCHANGED first)

FairSpec == DeploymentSpec /\ Fairness

------------------------------------------------------------------------------
\* A recipe never leads to a dead end: the release it names is on the host, and it is one
\* that worked, unless the operator went on from one that did not (airgap-upgrade.sh:102).
RecipeLeadsBack ==
    guidance # 0 => guidance \in loaded /\ (guidance \in reported \/ hurried)

\* While the database is ahead of the release that serves, there is a complete dump that
\* this release can read, unless SKIP_BACKUP was used: "this is the actual rollback
\* mechanism" (airgap-upgrade.sh, phase_backup), over any sequence of failed attempts.
DumpForWhatServes ==
    running # 0 /\ schema > running /\ ~skipped /\ ~hurried => running \in backups

\* Whatever failed on the way, an operator who keeps trying gets from a release without
\* message_edits to the latest one.  From any later release, the current one included, there
\* is no way in: airgap-install.sh never learnt of that append-only table, so its phase E
\* refuses the grants the migrations make, no backend comes up for an upgrade to start from,
\* and nothing is ever reported, however often the operator tries.
UpgradeCompletes ==
    /\ first \notin WithEdits => <>(Latest \in reported)
    /\ first \in WithEdits => [](reported = {})

==============================================================================
