------------------------------ MODULE Updater --------------------------------
(***************************************************************************)
(* Automatic updates of the local server: UpdateManager and its loops      *)
(* (updater/manager.py), the two sources of version information            *)
(* (version_checker.py, heartbeat.py), the download, the backup and the    *)
(* script that installs, probes and rolls back while no server runs        *)
(* (installer.py), and what main.py does at start.                         *)
(*                                                                         *)
(* Releases are numbered; Broken is what an installer that fails half-way  *)
(* leaves, Corrupt a package that is not what was published.  Names ending *)
(* in "Mutant" are faulty variants of the definition that follows them.    *)
(***************************************************************************)
EXTENDS Naturals

CONSTANTS
    MaxVersion,  \* bound: releases
    Bad,         \* releases whose server does not start
    MaxProbes,   \* bound: probes of the script, 20 in the code
    MaxMishaps   \* bound: what goes wrong in the world

ASSUME UpdaterAssumption ==
    /\ MaxVersion \in Nat \ {0}
    /\ MaxProbes \in Nat
    /\ MaxMishaps \in Nat

Broken == 0
Versions == 1 .. MaxVersion
Corrupt == MaxVersion + 1

VARIABLES
    installed,   \* what the installation directory holds
    server,      \* down, up
    started,     \* releases that have come up at least once
    published,   \* the latest release
    info,        \* UpdateManager.state.info: latest release, what its URL leads to
    downloading, \* the download under way
    package,     \* the installer that is ready, 0 when there is none
    marker,      \* status in pending_rollback.json
    script,      \* where the script is
    job,         \* what the script was written with
    probes,      \* its ATTEMPTS
    night,       \* outside no_update_start .. no_update_end
    brokerSet,   \* app.state.broker is set
    trading,     \* an engine runs
    mishaps,     \* how many of them so far
    disturbed    \* power loss, crash, or no backup since the script started?

updVars == <<installed, server, started, published, info, downloading, package, marker,
             script, job, probes, night, brokerSet, trading, mishaps, disturbed>>

NoInfo == [latest |-> 0, file |-> 0, hashed |-> FALSE]
NoDownload == [file |-> 0, hashed |-> FALSE]
NoJob == [package |-> 0, target |-> 0, backup |-> 0, forced |-> FALSE]

UpdaterTypeOK ==
    /\ installed \in Versions \union {Broken}
    /\ server \in {"down", "up"}
    /\ started \subseteq Versions
    /\ published \in Versions
    /\ info \in [latest : 0 .. MaxVersion, file : 0 .. MaxVersion, hashed : BOOLEAN]
    /\ downloading \in [file : 0 .. MaxVersion, hashed : BOOLEAN]
    /\ package \in 0 .. Corrupt
    /\ marker \in {"none", "installing", "verifying", "rolled_back"}
    /\ script \in {"off", "waiting", "installing", "starting", "probing", "settling",
                   "restarting"}
    /\ job \in [package : 0 .. Corrupt, target : 0 .. MaxVersion, backup : 0 .. MaxVersion,
                forced : BOOLEAN]
    /\ probes \in 0 .. MaxProbes
    /\ night \in BOOLEAN
    /\ brokerSet \in BOOLEAN
    /\ trading \in BOOLEAN
    /\ mishaps \in 0 .. MaxMishaps
    /\ disturbed \in BOOLEAN

UpdaterInit ==
    /\ installed = 1
    /\ server = "down"
    /\ started = {1}
    /\ published \in Versions
    /\ info = NoInfo
    /\ downloading = NoDownload
    /\ package = 0
    /\ marker = "none"
    /\ script = "off"
    /\ job = NoJob
    /\ probes = 0
    /\ night \in BOOLEAN
    /\ brokerSet = FALSE
    /\ trading = FALSE
    /\ mishaps = 0
    /\ disturbed = FALSE

Up == server = "up"
Mishap == mishaps < MaxMishaps /\ mishaps' = mishaps + 1

----------------------------------------------------------------------------
(* Start of a server                                                       *)

FromGitHub == [latest |-> published, file |-> published, hashed |-> TRUE]

\* The temporary directory is emptied and forgotten, a marker "rolled_back" is read
\* and removed, the latest release is asked for before the first request is served.
ServerStarts ==
    IF ~Up /\ installed \in Versions \ Bad
      THEN /\ server' = "up"
           /\ started' = started \union {installed}
           /\ info' \in {FromGitHub, NoInfo}
           /\ downloading' = NoDownload
           /\ package' = 0
           /\ marker' = IF marker = "rolled_back" THEN "none" ELSE marker
      ELSE UNCHANGED <<server, started, info, downloading, package, marker>>

\* The user starts it, or the autostart of the machine.
Boot ==
    /\ script = "off"
    /\ ~Up
    /\ ServerStarts
    /\ UNCHANGED <<installed, published, script, job, probes, night, brokerSet, trading,
                   mishaps, disturbed>>

ServerGoesDown ==
    /\ server' = "down"
    /\ brokerSet' = FALSE
    /\ trading' = FALSE

----------------------------------------------------------------------------
(* Version information and download                                        *)

CheckUpdate ==
    /\ Up
    /\ info' = FromGitHub
    /\ UNCHANGED <<installed, server, started, published, downloading, package, marker,
                   script, job, probes, night, brokerSet, trading, mishaps, disturbed>>

\* A heartbeat's answer names a release; without a URL of its own it keeps the URL
\* known so far, with one there is no hash to compare with.
OnHeartbeat(latest, url) ==
    /\ Up
    /\ latest > installed
    /\ info' = IF url = 0
                 THEN [info EXCEPT !.latest = latest]
                 ELSE [latest |-> latest, file |-> url, hashed |-> FALSE]
    /\ UNCHANGED <<installed, server, started, published, downloading, package, marker,
                   script, job, probes, night, brokerSet, trading, mishaps, disturbed>>

StartDownload ==
    /\ Up
    /\ info.latest > installed
    /\ info.file # 0
    /\ downloading = NoDownload
    /\ package = 0
    /\ downloading' = [file |-> info.file, hashed |-> info.hashed]
    /\ UNCHANGED <<installed, server, started, published, info, package, marker, script, job,
                   probes, night, brokerSet, trading, mishaps, disturbed>>

\* All tries fail, or a package is there: the published one when its hash was compared.
EndDownload ==
    /\ Up
    /\ downloading # NoDownload
    /\ downloading' = NoDownload
    /\ \/ /\ package' = downloading.file
          /\ UNCHANGED mishaps
       \/ /\ Mishap
          /\ package' \in IF downloading.hashed THEN {0} ELSE {0, Corrupt}
    /\ UNCHANGED <<installed, server, started, published, info, marker, script, job, probes,
                   night, brokerSet, trading, disturbed>>

----------------------------------------------------------------------------
(* Installation                                                            *)

CanInstallNowMutant == TRUE

\* can_install_now: the engine it looks for is never set; a broker's answer is a
\* coroutine nobody awaits, which counts as open orders.
CanInstallNow == ~brokerSet

\* A copy of what is installed; none when copying fails.
Backups == {installed, 0}

\* execute_update: the marker, and a script with all it needs to know in its text.
ExecuteUpdate(backup, forced) ==
    /\ marker' = "installing"
    /\ script' = "waiting"
    /\ job' = [package |-> package, target |-> info.latest, backup |-> backup,
               forced |-> forced]

\* Backup, marker, script, exit.
Install(forced) ==
    /\ Up
    /\ script = "off"
    /\ package # 0
    /\ forced \/ CanInstallNow
    /\ \E backup \in Backups :
        /\ backup = 0 => Mishap
        /\ backup # 0 => UNCHANGED mishaps
        /\ ExecuteUpdate(backup, forced)
        /\ disturbed' = (backup = 0)
    /\ ServerGoesDown
    /\ UNCHANGED <<installed, started, published, info, downloading, package, probes, night>>

\* The loop, every ten minutes: longer than the script takes.
InstallLoop == night /\ Install(FALSE)

\* A request, with or without force: the time of day does not matter.
InstallRequest == Install(FALSE) \/ Install(TRUE)

----------------------------------------------------------------------------
(* The script                                                              *)

MarkVerifying ==
    /\ script = "waiting"
    /\ marker' = "verifying"
    /\ script' = "installing"
    /\ UNCHANGED <<installed, server, started, published, info, downloading, package, job,
                   probes, night, brokerSet, trading, mishaps, disturbed>>

RunInstaller ==
    /\ script = "installing"
    /\ \/ /\ installed' = IF job.package = Corrupt THEN Broken ELSE job.package
          /\ UNCHANGED mishaps
       \/ /\ Mishap
          /\ installed' \in {installed, Broken}
    /\ script' = "starting"
    /\ UNCHANGED <<server, started, published, info, downloading, package, marker, job,
                   probes, night, brokerSet, trading, disturbed>>

StartNew ==
    /\ script = "starting"
    /\ ServerStarts
    /\ probes' = 0
    /\ script' = "probing"
    /\ UNCHANGED <<installed, published, job, night, brokerSet, trading, mishaps, disturbed>>

\* The text of the target version anywhere in the answer of /health, which names the
\* running version and the latest one known.
ShowsTarget == Up /\ job.target \in {installed, info.latest}

\* A slow start costs probes.
Probe ==
    /\ script = "probing"
    /\ probes < MaxProbes
    /\ \/ ShowsTarget /\ script' = "settling" /\ UNCHANGED <<probes, mishaps>>
       \/ ~ShowsTarget /\ probes' = probes + 1 /\ UNCHANGED <<script, mishaps>>
       \/ ShowsTarget /\ Mishap /\ probes' = MaxProbes /\ UNCHANGED script
    /\ UNCHANGED <<installed, server, started, published, info, downloading, package, marker,
                   job, night, brokerSet, trading, disturbed>>

\* Fifteen seconds later /health answers with 200.
Answers == Up

Settles ==
    /\ script = "settling"
    /\ Answers
    /\ marker' = "none"
    /\ script' = "off"
    /\ job' = NoJob
    /\ UNCHANGED <<installed, server, started, published, info, downloading, package,
                   probes, night, brokerSet, trading, mishaps, disturbed>>

GivesUp ==
    \/ script = "probing" /\ probes = MaxProbes
    \/ script = "settling" /\ ~Answers

RestoredMutant == installed

\* Without a backup the copy brings nothing back.
Restored == IF job.backup # 0 THEN job.backup ELSE installed

AfterRollBackMutant == "none"

AfterRollBack == "rolled_back"

\* The server is killed, the backup copied back.
RollBack ==
    /\ GivesUp
    /\ ServerGoesDown
    /\ installed' = Restored
    /\ marker' = AfterRollBack
    /\ script' = "restarting"
    /\ UNCHANGED <<started, published, info, downloading, package, job, probes, night, mishaps,
                   disturbed>>

StartOld ==
    /\ script = "restarting"
    /\ ServerStarts
    /\ script' = "off"
    /\ job' = NoJob
    /\ UNCHANGED <<installed, published, probes, night, brokerSet, trading, mishaps,
                   disturbed>>

ScriptStep ==
    MarkVerifying \/ RunInstaller \/ StartNew \/ Probe \/ Settles \/ RollBack \/ StartOld

----------------------------------------------------------------------------
(* The world                                                               *)

\* The machine loses power: what is on disk stays, the script is gone.
PowerLoss ==
    /\ Mishap
    /\ ServerGoesDown
    /\ installed' \in IF script = "installing" THEN {installed, Broken} ELSE {installed}
    /\ script' = "off"
    /\ job' = NoJob
    /\ disturbed' = TRUE
    /\ UNCHANGED <<started, published, info, downloading, package, marker, probes, night>>

Crash ==
    /\ Up
    /\ Mishap
    /\ ServerGoesDown
    /\ disturbed' = TRUE
    /\ UNCHANGED <<installed, started, published, info, downloading, package, marker, script,
                   job, probes, night>>

\* A release, the time of day, the broker connection, the engine (which needs one).
WorldChanges ==
    /\ \/ published < MaxVersion /\ published' = published + 1
          /\ UNCHANGED <<night, brokerSet, trading>>
       \/ night' = ~night /\ UNCHANGED <<published, brokerSet, trading>>
       \/ Up /\ ~trading /\ brokerSet' = ~brokerSet /\ UNCHANGED <<published, night, trading>>
       \/ Up /\ brokerSet /\ trading' = ~trading /\ UNCHANGED <<published, night, brokerSet>>
    /\ UNCHANGED <<installed, server, started, info, downloading, package, marker, script, job,
                   probes, mishaps, disturbed>>

UpdaterNext ==
    \/ Boot
    \/ CheckUpdate
    \/ \E latest \in 1 .. published, url \in 0 .. published : OnHeartbeat(latest, url)
    \/ StartDownload \/ EndDownload
    \/ InstallLoop \/ InstallRequest
    \/ ScriptStep
    \/ PowerLoss \/ Crash
    \/ WorldChanges

\* The script is a process of its own that waits a fixed time at each step.
UpdaterFairness == WF_updVars(ScriptStep)

UpdaterSpec == UpdaterInit /\ [][UpdaterNext]_updVars /\ UpdaterFairness

----------------------------------------------------------------------------
\* Without a marker the files on disk are a release that has come up: a marker is
\* removed only by a server that runs or by a script that saw one.
NoMarkerMeansStarted == marker = "none" /\ script = "off" => installed \in started

\* No server runs that the script did not start while it works on the files, and what
\* runs is what is installed and has come up.
OneServer ==
    /\ Up => installed \in started
    /\ Up => script \notin {"waiting", "installing", "starting", "restarting"}
    /\ trading => brokerSet
    /\ brokerSet => Up

\* The marker stays as long as the script, and says whether it has rolled back.
MarkerTellsScript ==
    /\ script # "off" => marker # "none"
    /\ script \notin {"off", "restarting"} => marker # "rolled_back"

\* Without force an installation never stops a running engine.
AutoInstallSparesTrading ==
    [][script = "off" /\ script' = "waiting" /\ ~job'.forced => ~trading]_updVars

UpdaterInv == UpdaterTypeOK /\ NoMarkerMeansStarted /\ OneServer /\ MarkerTellsScript

\* However the installation goes, in the end a server runs again, unless the power
\* fails, the server crashes, or the backup could not be made.
ServerComesBack == script # "off" ~> (script = "off" /\ Up) \/ disturbed

\* The marker is deleted when the target version has come up.
VerifiedMeansTarget ==
    [][script = "settling" /\ script' = "off" /\ ~disturbed' => installed = job.target]_updVars
=============================================================================
