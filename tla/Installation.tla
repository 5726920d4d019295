---------------------------- MODULE Installation ----------------------------
(***************************************************************************)
(* `pyvider install`, `pyvider provide` and how they meet: the file that   *)
(* an installation leaves in Terraform's plugin directory, and what the    *)
(* process does that starts from it -- serve, show its help, or complain   *)
(* that it was started under the wrong name.                               *)
(*                                                                         *)
(* Source: cli/install_command.py, cli/utils.py, cli/provide_command.py,   *)
(* cli/main.py, cli/context.py and common/launch_context.py.  Terraform,   *)
(* bash and the file system are external.  Only which of the files exist   *)
(* and what they start is modelled, not their paths.                       *)
(***************************************************************************)
EXTENDS Naturals, FiniteSets

CONSTANT ProjectVersions   \* contents of the project's VERSION file

VARIABLES
  instFrozen,   \* sys.frozen: the command itself is the packaged binary
  instProject,  \* the working directory is a pyvider project
  instVenv,     \* the virtual environment: its python and its pyvider command
  instVersion,  \* pyvider_version
  instPlugins,  \* for each version, what its plugin directory holds
  instLink,     \* terraform-provider-<name> in the environment's bin directory
  instResult,   \* how the last install command ended, and what it was
  instLaunch    \* how the last process went about it

instVars == <<instFrozen, instProject, instVenv, instVersion, instPlugins, instLink,
              instResult, instLaunch>>

\* "broken": bin/activate but no python; "module": no pyvider command;
\* "full": all of it.
Venvs == {"none", "broken", "module", "full"}
\* What can be in a plugin directory: the wrapper by what it executes, the
\* binary, or a binary that was copied in part.
Plugins == {"none", "wrapper:module", "wrapper:command", "binary", "partial"}
Modes == {"serve", "interactive", "misnamed", "no provider"}

NoResult == [command |-> "none", ok |-> FALSE, venv |-> "none", version |-> "none"]
NoLaunch == [by |-> "nobody", mode |-> "no provider"]

InstInit ==
  /\ instFrozen \in BOOLEAN /\ instProject \in BOOLEAN
  /\ instVenv \in Venvs /\ instLink \in BOOLEAN
  /\ instVersion \in ProjectVersions
  /\ instPlugins = [v \in ProjectVersions |-> "none"]
  /\ instResult = NoResult /\ instLaunch = NoLaunch

HasVenv == instVenv # "none"

\* _install_binary_provider: the copy may stop halfway.
PlaceBinary(here) == {[plugin |-> "binary", ok |-> TRUE], [plugin |-> "partial", ok |-> FALSE],
                      [plugin |-> here, ok |-> FALSE]}

WrapperForFull(here) == {[plugin |-> "wrapper:command", ok |-> TRUE]}  \* mutant: whatever bin holds

\* _place_terraform_provider_script: the environment is looked at when the
\* script is written, and the script is written whole or not at all.
PlaceWrapper(here) ==
  {[plugin |-> here, ok |-> FALSE]}
    \cup IF instVenv \in {"none", "broken"} THEN {}
         ELSE {[plugin |-> IF instVenv = "full" THEN "wrapper:command" ELSE "wrapper:module",
                ok |-> TRUE]}

Place(here) == IF instFrozen THEN PlaceBinary(here) ELSE PlaceWrapper(here)

\* _uninstall_provider removes terraform-provider-<name> of this version, and
\* the link if there is an environment; the directory stays, and so no parent is
\* ever empty.
Cleared(command, here) == IF command = "install" THEN here ELSE "none"
LinkAfter(command) == instLink /\ (command = "install" \/ ~HasVenv)

\* install_command, by its flags; reinstall takes away before it places.
InstallCommand(command) ==
  LET here == instPlugins[instVersion]
      outcomes == IF command = "uninstall" THEN {[plugin |-> "none", ok |-> TRUE]}
                  ELSE Place(Cleared(command, here))
  IN /\ instProject
     /\ \E outcome \in outcomes :
          /\ instPlugins' = [instPlugins EXCEPT ![instVersion] = outcome.plugin]
          /\ instResult' = [command |-> command, ok |-> outcome.ok, venv |-> instVenv,
                            version |-> instVersion]
     /\ instLink' = LinkAfter(command)
     /\ UNCHANGED <<instFrozen, instProject, instVenv, instVersion, instLaunch>>

\* Outside a project, or with both flags, nothing is touched.
RefuseInstall ==
  /\ ~instProject
  /\ instResult' = [NoResult EXCEPT !.command = "install"]
  /\ UNCHANGED <<instFrozen, instProject, instVenv, instVersion, instPlugins, instLink, instLaunch>>

\* What happens to the project between two commands.
ChangeProject(venv, version) ==
  /\ instVenv' = venv /\ instVersion' = version
  /\ UNCHANGED <<instFrozen, instProject, instPlugins, instLink, instResult, instLaunch>>

-----------------------------------------------------------------------------
WrapperIsNoExcuse(cookie, force, viaWrapper, named) ==  \* mutant: only the name counts
  IF cookie /\ ~force /\ ~named THEN "misnamed"
  ELSE IF ~cookie /\ ~force THEN "interactive" ELSE "serve"

\* provide_cmd: Terraform's cookie, --force, the variable that the wrapper
\* exports, and whether the program's name or path says terraform-provider.
ProvideMode(cookie, force, viaWrapper, named) ==
  IF cookie /\ ~force /\ ~viaWrapper /\ ~named THEN "misnamed"
  ELSE IF ~cookie /\ ~force THEN "interactive" ELSE "serve"

\* The wrapper under bash: it needs the environment and, in it, what it was
\* written to execute.
WrapperRuns(plugin) ==
  \/ plugin = "wrapper:command" /\ instVenv = "full"
  \/ plugin = "wrapper:module" /\ instVenv \in {"module", "full"}

\* What running the plugin of a version comes to, with Terraform's cookie or
\* without: a wrapper starts a program of another name.
PluginMode(plugin, cookie) ==
  IF plugin = "binary" THEN ProvideMode(cookie, FALSE, FALSE, TRUE)
  ELSE IF WrapperRuns(plugin) THEN ProvideMode(cookie, FALSE, TRUE, FALSE)
  ELSE "no provider"

TerraformStarts ==
  /\ instLaunch' = [by |-> "terraform", mode |-> PluginMode(instPlugins[instVersion], TRUE)]
  /\ UNCHANGED <<instFrozen, instProject, instVenv, instVersion, instPlugins, instLink, instResult>>

\* A person runs the plugin, or the command of the environment with --force
\* or without.  cli() without a subcommand is provide.
PersonStarts(force) ==
  /\ instVenv = "full" \/ (~force /\ instPlugins[instVersion] # "none")
  /\ instLaunch' =
       [by |-> IF force THEN "force" ELSE "person",
        mode |-> IF force THEN ProvideMode(FALSE, TRUE, FALSE, FALSE)
                 ELSE IF instVenv = "full" THEN ProvideMode(FALSE, FALSE, FALSE, FALSE)
                 ELSE PluginMode(instPlugins[instVersion], FALSE)]
  /\ UNCHANGED <<instFrozen, instProject, instVenv, instVersion, instPlugins, instLink, instResult>>

InstNext ==
  \/ \E command \in {"install", "uninstall", "reinstall"} : InstallCommand(command)
  \/ RefuseInstall
  \/ \E venv \in Venvs, version \in ProjectVersions : ChangeProject(venv, version)
  \/ TerraformStarts
  \/ \E force \in BOOLEAN : PersonStarts(force)

InstSpec == InstInit /\ [][InstNext]_instVars

-----------------------------------------------------------------------------
\* What the last command said it installed, Terraform can start, as long as the
\* project is what it was at that time; Terraform never lands in the help text,
\* and a person never in a server that was not asked for.
InstalledServes ==
  /\ instResult.command \in {"install", "reinstall"} /\ instResult.ok
       /\ instVersion = instResult.version
       /\ (instVenv = instResult.venv \/ instFrozen)
     => PluginMode(instPlugins[instVersion], TRUE) = "serve"
  /\ instLaunch.by = "terraform" => instLaunch.mode # "interactive"
  /\ instLaunch.by = "person" => instLaunch.mode # "serve"
=============================================================================
