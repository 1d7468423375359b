---- MODULE Onboarding ----
(***************************************************************************)
(* Setup of the host plugins by the command line: what init and uninstall   *)
(* do in each repository, with registrations the repositories share.  A     *)
(* command may fail, be interrupted or die before any of its steps; a       *)
(* command of a host that fails after it took effect is the same as one     *)
(* that dies right after it.  Commands of different repositories interleave. *)
(***************************************************************************)
EXTENDS Naturals, FiniteSets

CONSTANTS
    Repos,        \* repositories, each with a data directory of its own
    Hosts,        \* the agents whose plugin is installed
    InPlace,      \* hosts in which a registration replaces another one
    Stranger,     \* who registered a catalogue of the same name that is not Graphlin's
    NoRepo,
    MaxVersion,   \* bounds the versions of the command line
    MaxCommands,  \* bounds the commands
    MaxMishaps    \* bounds failures, and what is done by hand

ASSUME OnboardingAssumption ==
    /\ InPlace \subseteq Hosts
    /\ Stranger \notin Repos /\ NoRepo \notin Repos \union {Stranger}
    /\ {MaxVersion, MaxCommands, MaxMishaps} \subseteq Nat

VARIABLES
    market,    \* the package a host has registered under the name of the marketplace
    plugin,    \* the repository that installed the plugin of a host
    packages,  \* the directory of a package: absent, begun or complete
    receipt,   \* the installation in settings.json
    consent,   \* repositories whose policy is in their project's settings.json
    cmd,       \* the command that runs in a repository
    torn,      \* ghost: who last removed a registration of a host and put none in its place
    done,      \* ghost: the version whose installation was completed
    spent      \* commands and mishaps so far

setupVars == <<market, plugin, packages, receipt, consent, cmd, torn, done, spent>>

Versions == 1..MaxVersion
Unregistered == [repo |-> NoRepo, version |-> 0]
NoReceipt == [hosts |-> {}, pending |-> {}, version |-> 0]
NoCommand == [at |-> "idle", version |-> 0, saved |-> NoReceipt,
              installed |-> {}, pending |-> {}, todo |-> {}, host |-> {}]

SetupInit ==
    /\ market = [h \in Hosts |-> Unregistered]
    /\ plugin = [h \in Hosts |-> NoRepo]
    /\ packages = [r \in Repos |-> [v \in Versions |-> "absent"]]
    /\ receipt = [r \in Repos |-> NoReceipt]
    /\ consent = {}
    /\ cmd = [r \in Repos |-> NoCommand]
    /\ torn = [h \in Hosts |-> NoRepo]
    /\ done = [r \in Repos |-> [h \in Hosts |-> 0]]
    /\ spent = [commands |-> 0, mishaps |-> 0]

Root(r) == [repo |-> r, version |-> cmd[r].version]

\* Whether a run of this version without a command sets up first (needsOnboarding).
needsOnboarding(r, v) ==
    \/ r \notin consent \/ receipt[r].hosts = {} \/ receipt[r].pending # {}
    \/ receipt[r].version # v
    \/ packages[r][v] # "complete"
    \/ \E h \in receipt[r].hosts : plugin[h] = NoRepo

\* verifyManagedMarketplace: a complete package, of whichever repository, or one this
\* repository installed and that was deleted since.
Verified(r, h) ==
    LET root == market[h]
    IN  \/ root = Unregistered
        \/ /\ root.repo \in Repos
           /\ \/ packages[root.repo][root.version] = "complete"
              \/ /\ root.repo = r /\ packages[r][root.version] = "absent"
                 /\ cmd[r].saved.version = root.version /\ h \in cmd[r].saved.hosts

Goes(r, place) == cmd' = [cmd EXCEPT ![r].at = place]
Ends(r) == cmd' = [cmd EXCEPT ![r] = NoCommand]

\* saveSettings: one write replaces the receipts as a whole.
Saves(r, installation) == receipt' = [receipt EXCEPT ![r] = installation]

\* installation(): the old version until nothing is pending.
Recorded(c) ==
    [hosts |-> c.installed, pending |-> c.pending,
     version |-> IF c.pending # {} /\ c.saved.version # 0 THEN c.saved.version ELSE c.version]

\* The next host, or the end of the loop.
Onward(c, place, end) == IF c.todo = {} THEN [c EXCEPT !.at = end] ELSE [c EXCEPT !.at = place]

\* Updates the selected host only.
MutantToInstall(saved, v, selected) == selected \union saved.pending

\* The hosts that were selected, what is pending, and all that are recorded if the version
\* is another one.
ToInstall(saved, v, selected) ==
    LET upgrading == saved.hosts \union saved.pending # {} /\ saved.version # v
    IN  selected \union saved.pending \union (IF upgrading THEN saved.hosts ELSE {})

\* The command reads the receipts and chooses its hosts; without a selection it resumes.
BeginInit(r) ==
    \E v \in Versions, selected \in SUBSET Hosts :
        LET saved == receipt[r]
            hosts == ToInstall(saved, v, selected)
        IN  /\ v >= saved.version
            /\ selected # {} \/ saved.pending # {}
            /\ cmd' = [cmd EXCEPT ![r] =
                   [at |-> "verify", version |-> v, saved |-> saved,
                    installed |-> saved.hosts, pending |-> hosts, todo |-> hosts, host |-> {}]]

\* No host recorded: the command only resets the consent, unless one is named.
BeginUninstall(r) ==
    \E v \in Versions, selected \in SUBSET Hosts :
        LET saved == receipt[r]
            hosts == IF selected = {} THEN saved.hosts \union saved.pending ELSE selected
        IN  /\ v >= saved.version
            /\ cmd' = [cmd EXCEPT ![r] =
                   Onward([at |-> "", version |-> v, saved |-> saved,
                           installed |-> saved.hosts, pending |-> saved.pending,
                           todo |-> hosts, host |-> {}], "dismiss", "reset")]

Begin(r) ==
    /\ cmd[r] = NoCommand /\ spent.commands < MaxCommands
    /\ spent' = [spent EXCEPT !.commands = @ + 1]
    /\ BeginInit(r) \/ BeginUninstall(r)
    /\ UNCHANGED <<market, plugin, packages, receipt, consent, torn, done>>

\* Before anything is prepared, every registration is verified.
Verify(r) ==
    /\ cmd[r].at = "verify"
    /\ IF \A h \in cmd[r].todo : Verified(r, h) THEN Goes(r, "prepare") ELSE Ends(r)
    /\ UNCHANGED <<market, plugin, packages, receipt, consent, torn, done, spent>>

\* preparePackages: the marker is written when everything else is; what is complete stays.
Prepare(r) ==
    LET v == cmd[r].version
    IN  /\ cmd[r].at = "prepare"
        /\ IF packages[r][v] = "absent"
           THEN packages' = [packages EXCEPT ![r][v] = "begun"] /\ UNCHANGED cmd
           ELSE packages' = [packages EXCEPT ![r][v] = "complete"] /\ Goes(r, "record")
        /\ UNCHANGED <<market, plugin, receipt, consent, torn, done, spent>>

\* saveSettings with what is to be done, before it is done.
Record(r) ==
    /\ cmd[r].at = "record"
    /\ Saves(r, Recorded(cmd[r]))
    /\ consent' = consent \union {r}
    /\ Goes(r, "configure")
    /\ UNCHANGED <<market, plugin, packages, torn, done, spent>>

\* configureMarketplace reads the registration again: the host is done with one, must give
\* its old one up, or takes the new one.
Configure(r) ==
    /\ cmd[r].at = "configure"
    /\ \E h \in cmd[r].todo :
          IF ~ Verified(r, h) THEN Ends(r)
          ELSE cmd' = [cmd EXCEPT ![r].host = {h}, ![r].todo = @ \ {h},
                          ![r].at = IF market[h] = Root(r) THEN "install"
                                    ELSE IF market[h] = Unregistered \/ h \in InPlace THEN "add" ELSE "unbind"]
    /\ UNCHANGED <<market, plugin, packages, receipt, consent, torn, done, spent>>

Unbind(r) ==
    /\ cmd[r].at = "unbind"
    /\ \E h \in cmd[r].host :
          /\ market' = [market EXCEPT ![h] = Unregistered]
          /\ torn' = [torn EXCEPT ![h] = r]
          /\ cmd' = [cmd EXCEPT ![r].at = "unbound", ![r].installed = @ \ {h}]
    /\ UNCHANGED <<plugin, packages, receipt, consent, done, spent>>

\* onRemoved.
Unbound(r) ==
    /\ cmd[r].at = "unbound"
    /\ Saves(r, Recorded(cmd[r]))
    /\ Goes(r, "add")
    /\ UNCHANGED <<market, plugin, packages, consent, torn, done, spent>>

\* A host without replacement refuses a second registration.
Add(r) ==
    /\ cmd[r].at = "add"
    /\ \E h \in cmd[r].host :
          IF market[h] \notin {Unregistered, Root(r)} /\ h \notin InPlace
          THEN Ends(r) /\ UNCHANGED <<market, torn>>
          ELSE /\ market' = [market EXCEPT ![h] = Root(r)]
               /\ torn' = [torn EXCEPT ![h] = NoRepo]
               /\ Goes(r, "check")
    /\ UNCHANGED <<plugin, packages, receipt, consent, done, spent>>

\* The registration is listed once more, and is the one asked for.
Check(r) ==
    /\ cmd[r].at = "check"
    /\ IF \E h \in cmd[r].host : market[h] = Root(r) THEN Goes(r, "install") ELSE Ends(r)
    /\ UNCHANGED <<market, plugin, packages, receipt, consent, torn, done, spent>>

\* The host installs the plugin from whatever is registered.
Install(r) ==
    /\ cmd[r].at = "install"
    /\ \E h \in cmd[r].host :
          IF market[h].repo = NoRepo
          THEN Ends(r) /\ UNCHANGED <<plugin, done>>
          ELSE /\ plugin' = [plugin EXCEPT ![h] = r]
               /\ done' = [done EXCEPT ![r][h] = cmd[r].version]
               /\ cmd' = [cmd EXCEPT ![r].at = "installed", ![r].installed = @ \union {h},
                                     ![r].pending = @ \ {h}]
    /\ UNCHANGED <<market, packages, receipt, consent, torn, spent>>

Installed(r) ==
    /\ cmd[r].at = "installed"
    /\ Saves(r, Recorded(cmd[r]))
    /\ cmd' = [cmd EXCEPT ![r] = IF cmd[r].todo = {} THEN NoCommand ELSE [cmd[r] EXCEPT !.at = "configure"]]
    /\ UNCHANGED <<market, plugin, packages, consent, torn, done, spent>>
----
\* A host that is pending and not installed may prove to have nothing to remove.
Dismiss(r) ==
    /\ cmd[r].at = "dismiss"
    /\ \E h \in cmd[r].todo :
          LET c == [cmd[r] EXCEPT !.todo = @ \ {h}, !.host = {h}]
          IN  IF h \in c.pending \ c.installed /\ plugin[h] = NoRepo
              THEN cmd' = [cmd EXCEPT ![r] = [c EXCEPT !.at = "dismissed", !.pending = @ \ {h}]]
              ELSE cmd' = [cmd EXCEPT ![r] = [c EXCEPT !.at = "remove"]]
    /\ UNCHANGED <<market, plugin, packages, receipt, consent, torn, done, spent>>

\* A host may refuse to remove what it does not have.
Remove(r) ==
    /\ cmd[r].at = "remove"
    /\ \E h \in cmd[r].host :
          \/ plugin[h] = NoRepo /\ Ends(r) /\ UNCHANGED plugin
          \/ /\ plugin' = [plugin EXCEPT ![h] = NoRepo]
             /\ cmd' = [cmd EXCEPT ![r].at = "dismissed", ![r].installed = @ \ {h}, ![r].pending = @ \ {h}]
    /\ UNCHANGED <<market, packages, receipt, consent, torn, done, spent>>

\* record(): the version stays what it was.
Dismissed(r) ==
    /\ cmd[r].at = "dismissed"
    /\ LET c == cmd[r]
           version == IF c.saved.version # 0 THEN c.saved.version ELSE c.version
       IN  Saves(r, [hosts |-> c.installed, pending |-> c.pending, version |-> version])
    /\ torn' = [h \in Hosts |-> IF h \in cmd[r].host /\ torn[h] = r THEN NoRepo ELSE torn[h]]
    /\ done' = [done EXCEPT ![r] = [h \in Hosts |-> IF h \in cmd[r].host THEN 0 ELSE @[h]]]
    /\ cmd' = [cmd EXCEPT ![r] = Onward(@, "dismiss", "reset")]
    /\ UNCHANGED <<market, plugin, packages, consent, spent>>

Reset(r) ==
    /\ cmd[r].at = "reset"
    /\ consent' = consent \union {r}
    /\ Ends(r)
    /\ UNCHANGED <<market, plugin, packages, receipt, torn, done, spent>>
----
Mishap == spent.mishaps < MaxMishaps /\ spent' = [spent EXCEPT !.mishaps = @ + 1]

\* The command fails, is interrupted, or dies.
Stop(r) ==
    /\ cmd[r] # NoCommand /\ Mishap
    /\ Ends(r)
    /\ UNCHANGED <<market, plugin, packages, receipt, consent, torn, done>>

\* By hand: a package is deleted, ...
Delete(r) ==
    /\ Mishap
    /\ \E v \in Versions :
          /\ packages[r][v] = "complete"
          /\ packages' = [packages EXCEPT ![r][v] = "absent"]
    /\ UNCHANGED <<market, plugin, receipt, consent, cmd, torn, done>>

\* ... and another catalogue is registered under the name; not between the moment a
\* command lists the registrations and the moment it changes one.
Estrange(h) ==
    /\ Mishap
    /\ market[h].repo # Stranger
    /\ \A r \in Repos : h \in cmd[r].host => cmd[r].at \notin {"unbind", "unbound", "add"}
    /\ market' = [market EXCEPT ![h] = [repo |-> Stranger, version |-> 0]]
    /\ torn' = [torn EXCEPT ![h] = NoRepo]
    /\ UNCHANGED <<plugin, packages, receipt, consent, cmd, done>>

SetupNext ==
    \/ \E r \in Repos :
          \/ Begin(r) \/ Verify(r) \/ Prepare(r) \/ Record(r) \/ Configure(r) \/ Unbind(r)
          \/ Unbound(r) \/ Add(r) \/ Check(r) \/ Install(r) \/ Installed(r)
          \/ Dismiss(r) \/ Remove(r) \/ Dismissed(r) \/ Reset(r)
          \/ Stop(r) \/ Delete(r)
    \/ \E h \in Hosts : Estrange(h)
----
(***************************************************************************)
(* Properties                                                               *)
(***************************************************************************)
\* A repository that has installed a plugin last knows it, so that its uninstall finds it.
NoOrphan == \A h \in Hosts : \A r \in Repos : plugin[h] = r => h \in receipt[r].hosts \union receipt[r].pending

\* A registration that was removed to be replaced is pending until it is (docs/usage.md:111).
TornIsPending == \A h \in Hosts : \A r \in Repos : torn[h] = r => h \in receipt[r].pending

\* A repository that needs no setup has every recorded host installed, by a command of its
\* version or of a later one: no partial upgrade passes for a whole one.
CompleteIsInstalled ==
    \A r \in Repos, v \in Versions :
        ~ needsOnboarding(r, v) => \A h \in receipt[r].hosts : plugin[h] # NoRepo /\ done[r][h] >= v

ReceiptsHold == NoOrphan /\ TornIsPending /\ CompleteIsInstalled

\* A catalogue that is not Graphlin's is never replaced (docs/usage.md:106).
StrangersAreKept == \A h \in Hosts : market[h].repo = Stranger => market'[h] = market[h]

SetupHolds == [][StrangersAreKept /\ ReceiptsHold']_setupVars
====
