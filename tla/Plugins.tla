------------------------------ MODULE Plugins ------------------------------
(***************************************************************************)
(* The plugin system: the registry that Discover builds from the manifests *)
(* on disk and from the configuration (plugin_registry.cpp), the start of  *)
(* the sidecar with the plugins that are enabled (plugin_system.cpp), and  *)
(* the calls that the gateway's methods and the web routes forward to it.  *)
(* The sidecar's own life cycle is the module Sidecar; here it is running, *)
(* or it is not.                                                           *)
(*                                                                         *)
(* A plugin is a number, because Discover lists plugins in the order of    *)
(* their identifiers.  The directories of one origin are one place, where  *)
(* a plugin has no manifest, one that PluginManifest::Parse accepts, or    *)
(* one it throws on.                                                       *)
(***************************************************************************)
EXTENDS Naturals, Sequences, FiniteSets

CONSTANTS
  Id,             \* the plugins that may have a manifest on disk
  Stray,          \* plugins that only the sidecar knows of
  Tool,           \* the names of tools
  ToolsOf,        \* the tools that the sidecar reports for a plugin
  BundledDefault, \* kBundledEnabledByDefault
  Configs,        \* the configurations the gateway may be given
  Disks,          \* what the plugin directories may hold
  None,
  MaxReloads      \* bound: reloads and changes of a plugin's flag

VARIABLES
  config,   \* config.plugins_config
  disk,     \* the manifest of each plugin in the directories of each origin
  plugins,  \* PluginRegistry::plugins_ (id_index_ is its inverse)
  sidecar,  \* "none", "up" or "down"
  told,     \* enabled_plugins of the options the sidecar was started with
  began,    \* the configuration the sidecar was started under
  phase,    \* "new", "on" or "off"
  answer,   \* what the last call returned
  reloads

vars == <<config, disk, plugins, sidecar, told, began, phase, answer, reloads>>

\* The order in which discover_candidates scans.
Origins == <<"config", "workspace", "global", "bundled">>

Record(id, origin, enabled) ==
  [id |-> id, origin |-> origin, enabled |-> enabled,
   status |-> IF enabled THEN "loaded" ELSE "disabled", tools |-> {}]

Ids == {plugins[i].id : i \in DOMAIN plugins}

Config ==
  [on: BOOLEAN, deny: SUBSET Id, allow: SUBSET Id, slot: Id \cup {None},
   entry: [Id -> {"unset", "on", "off"}]]

TypeOK ==
  /\ config \in Configs /\ Configs \subseteq Config
  /\ disk \in Disks
  /\ \A i \in DOMAIN plugins :
       /\ plugins[i].id \in Id \cup Stray
       /\ plugins[i].enabled \in BOOLEAN
       /\ plugins[i].tools \subseteq Tool
  /\ sidecar \in {"none", "up", "down"}
  /\ told \subseteq Id
  /\ began \in Configs \cup {None}
  /\ phase \in {"new", "on", "off"}
  /\ answer \in {"none", "result", "empty", "error", "502", "503"}
  /\ reloads \in 0 .. MaxReloads

-----------------------------------------------------------------------------

\* PluginManifest::LoadFromFile and Parse: a file that is no JSON, has no text
\* for an identifier or a value of a wrong type throws.
Parses(manifest) == manifest = "good"

\* The manifests that the scan of one origin keeps: the others are skipped.
scan_directory(d, origin) == {id \in Id : Parses(d[origin][id])}

\* Where each plugin is taken from: the first origin that has it.
discover_candidates(d) ==
  [id \in {x \in Id : \E k \in DOMAIN Origins : x \in scan_directory(d, Origins[k])} |->
     Origins[CHOOSE k \in DOMAIN Origins :
               /\ id \in scan_directory(d, Origins[k])
               /\ \A j \in 1 .. (k - 1) : id \notin scan_directory(d, Origins[j])]]

\* Mutant of should_enable: the plugin's own flag is read before the lists.
should_enable_flag_first(c, id, origin) ==
  /\ c.on
  /\ \/ c.entry[id] = "on"
     \/ /\ c.entry[id] = "unset"
        /\ id \notin c.deny
        /\ (c.allow = {} \/ id \in c.allow)

should_enable(c, id, origin) ==
  /\ c.on
  /\ id \notin c.deny
  /\ (c.allow = {} \/ id \in c.allow)
  /\ \/ c.slot = id
     \/ c.entry[id] = "on"
     \/ c.entry[id] = "unset" /\ (origin = "bundled" => id \in BundledDefault)

\* The registry that Discover builds: candidates are sorted by identifier, so
\* there is one.
Discover(c, d) ==
  LET found == discover_candidates(d)
      n     == Cardinality(DOMAIN found)
  IN  {[i \in 1 .. n |-> Record(ids[i], found[ids[i]], should_enable(c, ids[i], found[ids[i]]))] :
         ids \in {f \in [1 .. n -> DOMAIN found] : \A i, j \in 1 .. n : i < j => f[i] < f[j]}}

EnabledPluginIds(ps) == {ps[i].id : i \in {j \in DOMAIN ps : ps[j].enabled}}

\* What the sidecar lists, in an order of its own: the tools of the plugins it
\* knows are added to what is recorded, and one without a record gets one.
UpdateFromSidecar(ps, listed) ==
  LET fresh   == listed \ {ps[i].id : i \in DOMAIN ps}
      With(r) == IF r.id \in listed THEN [r EXCEPT !.tools = @ \cup ToolsOf[r.id]] ELSE r
  IN  {[i \in 1 .. (Len(ps) + Cardinality(fresh)) |->
          With(IF i <= Len(ps) THEN ps[i] ELSE Record(order[i - Len(ps)], "config", TRUE))] :
         order \in {f \in [1 .. Cardinality(fresh) -> fresh] :
                     \A i, j \in DOMAIN f : f[i] = f[j] => i = j}}

-----------------------------------------------------------------------------

Init ==
  /\ config \in Configs /\ disk \in Disks
  /\ plugins = << >> /\ sidecar = "none" /\ told = {} /\ began = None
  /\ phase = "new" /\ answer = "none" /\ reloads = 0

\* PluginSystem::Initialize when no sidecar comes of it: nothing is enabled,
\* no script is installed, or Start fails.
InitializeAlone ==
  /\ phase = "new"
  /\ plugins' \in Discover(config, disk)
  /\ phase' = "on"
  /\ UNCHANGED <<config, disk, sidecar, told, began, answer, reloads>>

\* PluginSystem::Initialize with a sidecar: it is given the enabled plugins
\* and lists those it could load, and perhaps others; the list may fail.
InitializeWithSidecar ==
  /\ phase = "new"
  /\ \E found \in Discover(config, disk) :
       /\ EnabledPluginIds(found) # {}
       /\ told' = EnabledPluginIds(found)
       /\ \/ plugins' = found
          \/ \E listed \in SUBSET (told' \cup Stray) :
               plugins' \in UpdateFromSidecar(found, listed)
  /\ sidecar' = "up" /\ began' = config /\ phase' = "on"
  /\ UNCHANGED <<config, disk, answer, reloads>>

\* The sidecar dies, and its monitor starts it again with the same options.
SidecarLost ==
  /\ phase = "on" /\ sidecar = "up" /\ sidecar' = "down"
  /\ UNCHANGED <<config, disk, plugins, told, began, phase, answer, reloads>>

SidecarBack ==
  /\ phase = "on" /\ sidecar = "down" /\ sidecar' = "up"
  /\ UNCHANGED <<config, disk, plugins, told, began, phase, answer, reloads>>

\* PluginSystem::Reload: the registry is built anew, without what the sidecar
\* had reported.  The sidecar gets a signal that it does not act on.
Reload(c) ==
  /\ phase = "on" /\ reloads < MaxReloads
  /\ config' = c
  /\ plugins' \in Discover(c, disk)
  /\ reloads' = reloads + 1
  /\ UNCHANGED <<disk, sidecar, told, began, phase, answer>>

\* PluginRegistry::SetPluginEnabled: the flag changes, the status does not.
SetPluginEnabled(id, enabled) ==
  /\ phase = "on" /\ reloads < MaxReloads /\ id \in Ids
  /\ plugins' = [i \in DOMAIN plugins |->
                   IF plugins[i].id = id THEN [plugins[i] EXCEPT !.enabled = enabled]
                                         ELSE plugins[i]]
  /\ reloads' = reloads + 1
  /\ UNCHANGED <<config, disk, sidecar, told, began, phase, answer>>

\* PluginSystem::Shutdown, from the destructor.
Shutdown ==
  /\ phase = "on"
  /\ phase' = "off" /\ sidecar' = "none"
  /\ UNCHANGED <<config, disk, plugins, told, began, answer, reloads>>

\* A call that reads, through the sidecar: an empty list without one, or when
\* its answer is an error or does not come.
Lists ==
  /\ phase = "on"
  /\ answer' \in IF sidecar = "up" THEN {"result", "empty"} ELSE {"empty"}
  /\ UNCHANGED <<config, disk, plugins, sidecar, told, began, phase, reloads>>

\* A call that acts, through the sidecar: an error in those cases.
Acts ==
  /\ phase = "on"
  /\ answer' \in IF sidecar = "up" THEN {"result", "error"} ELSE {"error"}
  /\ UNCHANGED <<config, disk, plugins, sidecar, told, began, phase, reloads>>

GetToolSchemas     == Lists
ListSidecarPlugins == Lists
ListServices       == Lists
ListProviders      == Lists
ListCommands       == Lists
ListGatewayMethods == Lists

CallTool       == Acts
HandleCli      == Acts
StartService   == Acts
StopService    == Acts
ExecuteCommand == Acts

\* The routes under /plugins/ tell an absent sidecar from a failed call.
HandleHttp ==
  /\ phase = "on"
  /\ answer' \in IF sidecar = "up" THEN {"result", "502"} ELSE {"503"}
  /\ UNCHANGED <<config, disk, plugins, sidecar, told, began, phase, reloads>>

\* plugins.call_tool and the route of the same name without a tool's name.
CallToolUnnamed ==
  /\ phase = "on" /\ answer' = "error"
  /\ UNCHANGED <<config, disk, plugins, sidecar, told, began, phase, reloads>>

\* The plugins methods of the gateway.
PluginMethods ==
  \/ GetToolSchemas \/ ListServices \/ ListProviders \/ ListCommands \/ ListGatewayMethods
  \/ CallTool \/ StartService \/ StopService \/ ExecuteCommand \/ CallToolUnnamed

\* The plugin routes of the web server, those that are no method as well.
PluginRoutes == HandleHttp

Next ==
  \/ InitializeAlone \/ InitializeWithSidecar \/ Shutdown
  \/ SidecarLost \/ SidecarBack
  \/ \E c \in Configs : Reload(c)
  \/ \E id \in Id \cup Stray, enabled \in BOOLEAN : SetPluginEnabled(id, enabled)
  \/ PluginMethods \/ PluginRoutes \/ ListSidecarPlugins \/ HandleCli

Spec == Init /\ [][Next]_vars

-----------------------------------------------------------------------------

\* The places of the enabled plugins that provide a tool.
Providing(t) == {i \in DOMAIN plugins : plugins[i].enabled /\ t \in plugins[i].tools}

First(I) == CHOOSE i \in I : \A j \in I : i <= j

\* PluginRegistry::ResolveToolName for a name without a namespace; with one, a
\* name is that of the first plugin and its own.
ResolveToolName(t) ==
  IF Cardinality(Providing(t)) > 1 THEN <<plugins[First(Providing(t))].id, t>> ELSE <<t>>

\* Mutant of ToolConflicts: a plugin that is not enabled counts.
ToolConflictsOfAll ==
  {t \in Tool : \E i, j \in DOMAIN plugins :
     i < j /\ t \in plugins[i].tools /\ t \in plugins[j].tools}

\* The tools for which PluginRegistry::DetectConflicts reports a conflict.
ToolConflicts ==
  {t \in Tool : \E i, j \in DOMAIN plugins :
     /\ i < j
     /\ plugins[i].enabled /\ t \in plugins[i].tools
     /\ plugins[j].enabled /\ t \in plugins[j].tools}

\* A plugin that the configuration denies, or leaves out of its allow list, is
\* never among those a sidecar was started with, and is not enabled in the
\* registry unless someone enabled it since; this holds wherever its manifest
\* was found, whatever its own entry says and whatever the sidecar reports.
\* (plugin_registry.cpp, should_enable and UpdateFromSidecar.)
DeniedStayOff ==
  /\ \A id \in told : began.on /\ id \notin began.deny /\ (began.allow = {} \/ id \in began.allow)
  /\ reloads = 0 =>
       \A i \in DOMAIN plugins :
         plugins[i].id \in config.deny \cap Id => ~plugins[i].enabled

\* A tool's name is given a namespace exactly when its plugins are reported to
\* be in conflict over it: the two walks over the registry agree, after any
\* reports of the sidecar, reloads and changes of flags.
\* (plugin_registry.cpp, DetectConflicts and ResolveToolName.)
ConflictsAreNamed ==
  \A t \in Tool : t \in ToolConflicts <=> ResolveToolName(t) # <<t>>

\* What the proofs of both properties rest on.
IInv ==
  /\ reloads \in Nat /\ DeniedStayOff
  /\ \E n \in Nat : DOMAIN plugins = 1 .. n
=============================================================================
