--------------------------- MODULE PluginRegistry ---------------------------
(***************************************************************************)
(* The daemon's plugin registry                                            *)
(* (crates/winspot-plugins/src/lib.rs and the two places in                *)
(* winspot-daemon/src/server.rs that build one): the built-in plugins, and *)
(* what the manifest files in the plugins directory add to them.           *)
(*                                                                         *)
(* The directory is scanned when the daemon starts and whenever the        *)
(* settings page asks for diagnostics.  A scan builds a new registry and a *)
(* new report, path by path in sorted order, and then puts both in place   *)
(* of the old ones.  The user may edit and delete files at any time, also  *)
(* between the listing of the directory and the reading of a file.         *)
(*                                                                         *)
(* Paths are numbered in their sorted order.  A manifest is reduced to     *)
(* whether it is valid, its trimmed id, whether the id it holds is padded  *)
(* with white space, and whether it is enabled.                            *)
(***************************************************************************)
EXTENDS Integers

CONSTANTS
  NumPaths,     \* number of paths a manifest may be saved under
  Ids,          \* plugin ids
  BuiltIns,     \* the ids of the built-in plugins
  Executable,   \* those that run a command
  Manifests,    \* the manifests users write
  Malformed,    \* the content of a file that is no manifest
  Missing,      \* there is no file
  None

Paths == 1..NumPaths
Contents == Manifests \cup {Malformed}
BuiltIn(id) == [id |-> id, padded |-> FALSE, valid |-> TRUE, enabled |-> TRUE]

\* LoadedPlugin; source and trusted always go together.
Plugin == [manifest : Manifests \cup {BuiltIn(id) : id \in BuiltIns}, builtIn : BOOLEAN,
           executable : BOOLEAN]
\* PluginValidationEntry; content stands for what it tells of the file.
Entry == [status : {"accepted", "disabled", "rejected"}, content : Contents]

ASSUME RegistryAssumption ==
  /\ NumPaths \in Nat
  /\ Executable \subseteq BuiltIns /\ BuiltIns \subseteq Ids
  /\ Manifests \subseteq [id : Ids, padded : BOOLEAN, valid : BOOLEAN, enabled : BOOLEAN]
  /\ Malformed \notin Manifests /\ Missing \notin Manifests
  /\ Malformed # Missing
  /\ None \notin Plugin \cup Entry

VARIABLES
  files,      \* the plugins directory
  listable,   \* can it be read?
  registry,   \* DaemonRuntime.plugin_registry
  report,     \* DaemonRuntime.plugin_validation_report, user part
  scanning,   \* is a scan under way?
  todo,       \* the listed paths it has not read yet
  building,   \* the registry it builds
  entries     \* the report it builds

dirVars  == <<files, listable>>
liveVars == <<registry, report>>
scanVars == <<scanning, todo, building, entries>>
vars == <<dirVars, liveVars, scanVars>>

TypeOK ==
  /\ files \in [Paths -> Contents \cup {Missing}]
  /\ listable \in BOOLEAN /\ scanning \in BOOLEAN
  /\ registry \in [Ids -> Plugin \cup {None}] /\ building \in [Ids -> Plugin \cup {None}]
  /\ report \in [Paths -> Entry \cup {None}] /\ entries \in [Paths -> Entry \cup {None}]
  /\ todo \subseteq Paths

-----------------------------------------------------------------------------
(* Building a registry                                                     *)

WithBuiltIns ==
  [id \in Ids |-> IF id \in BuiltIns
                  THEN [manifest |-> BuiltIn(id), builtIn |-> TRUE,
                        executable |-> id \in Executable]
                  ELSE None]

NoEntries == [p \in Paths |-> None]

\* Faulty: a manifest takes over an id that is taken.
RejectedIfInvalid(m) == ~m.valid

\* register_manifest_for_report, for the manifest of a user: it is validated, and
\* refused if its id is taken.
Rejected(m) == ~m.valid \/ building[m.id] # None

StatusOf(m) ==
  IF Rejected(m) THEN "rejected" ELSE IF m.enabled THEN "accepted" ELSE "disabled"

UserPlugin(m) == [manifest |-> m, builtIn |-> FALSE, executable |-> FALSE]

RegisterManifest(m) ==
  building' = IF Rejected(m) THEN building ELSE [building EXCEPT ![m.id] = UserPlugin(m)]

\* The listing of the directory.  One that is missing is taken for empty.
StartScan ==
  /\ ~scanning /\ listable
  /\ scanning' = TRUE
  /\ todo' = {p \in Paths : files[p] # Missing}
  /\ building' = WithBuiltIns
  /\ entries' = NoEntries
  /\ UNCHANGED <<dirVars, liveVars>>

\* load_manifest_for_report, for the next path.
ReadManifest ==
  \E p \in todo :
    /\ \A q \in todo : p <= q
    /\ todo' = todo \ {p}
    /\ \/ /\ files[p] \in {Malformed, Missing}
          /\ entries' = [entries EXCEPT ![p] = [status |-> "rejected", content |-> Malformed]]
          /\ UNCHANGED building
       \/ /\ files[p] \in Manifests
          /\ RegisterManifest(files[p])
          /\ entries' = [entries EXCEPT ![p] = [status |-> StatusOf(files[p]),
                                               content |-> files[p]]]
    /\ UNCHANGED <<dirVars, liveVars, scanning>>

\* Faulty: the settings page is answered, the registry in use stays.
FinishScanReportOnly ==
  /\ scanning /\ todo = {}
  /\ report' = entries
  /\ scanning' = FALSE
  /\ UNCHANGED <<dirVars, registry, todo, building, entries>>

\* current_plugin_validation_report puts the new registry and report in place.
FinishScan ==
  /\ scanning /\ todo = {}
  /\ registry' = building
  /\ report' = entries
  /\ scanning' = FALSE
  /\ UNCHANGED <<dirVars, todo, building, entries>>

\* Until its first scan has succeeded the daemon has the built-in plugins only.
Init ==
  /\ files \in [Paths -> Contents \cup {Missing}]
  /\ listable \in BOOLEAN
  /\ registry = WithBuiltIns /\ report = NoEntries
  /\ scanning = FALSE /\ todo = {}
  /\ building = WithBuiltIns /\ entries = NoEntries

-----------------------------------------------------------------------------
(* The user and the directory                                              *)

SaveFile ==
  /\ \E p \in Paths, c \in Contents \cup {Missing} : files' = [files EXCEPT ![p] = c]
  /\ UNCHANGED <<listable, liveVars, scanVars>>

LockDirectory ==
  /\ listable' = ~listable
  /\ UNCHANGED <<files, liveVars, scanVars>>

Next == StartScan \/ ReadManifest \/ FinishScan \/ SaveFile \/ LockDirectory

Spec == Init /\ [][Next]_vars

-----------------------------------------------------------------------------
(* Using the registry                                                      *)

\* plugin_search_result: the id of a result is that of the manifest, as written.
ResultId(m) == [id |-> m.id, padded |-> m.padded]

Offered == {ResultId(registry[id].manifest) :
              id \in {i \in Ids : registry[i] # None /\ registry[i].manifest.enabled}}

\* ensure_plugin_command_allowed; parse_plugin_result_id does not trim.
Authorize(rid) ==
  IF rid.padded THEN "malformed"
  ELSE IF registry[rid.id] = None THEN "unknown"
  ELSE IF ~registry[rid.id].manifest.enabled THEN "disabled"
  ELSE IF ~registry[rid.id].builtIn THEN "untrusted"
  ELSE IF ~registry[rid.id].executable THEN "no action"
  ELSE "allowed"

-----------------------------------------------------------------------------
(* Properties                                                              *)

\* The manifest read at path p, in the sequence of files a report tells of.
IsManifest(rep, p) == rep[p] # None /\ rep[p].content # Malformed

\* It is the first valid one with its id, and the id is not that of a built-in.
Wins(rep, p) ==
  /\ IsManifest(rep, p)
  /\ rep[p].content.valid /\ rep[p].content.id \notin BuiltIns
  /\ \A q \in Paths :
       q < p /\ IsManifest(rep, q) /\ rep[q].content.valid
         => rep[q].content.id # rep[p].content.id

\* reg is the registry that the files a report tells of should give.
IsFirstWins(reg, rep) ==
  /\ \A id \in BuiltIns : reg[id] = WithBuiltIns[id]
  /\ \A p \in Paths : Wins(rep, p) => reg[rep[p].content.id] = UserPlugin(rep[p].content)
  /\ \A id \in Ids \ BuiltIns :
       reg[id] # None => \E p \in Paths : Wins(rep, p) /\ rep[p].content.id = id

\* The report says of each file what became of it.
TellsTruth(rep) ==
  \A p \in Paths :
    rep[p] # None =>
      rep[p].status = IF ~Wins(rep, p) THEN "rejected"
                      ELSE IF rep[p].content.enabled THEN "accepted" ELSE "disabled"

\* load_dir_into: "preserving already-registered plugins (e.g. built-ins).
\* Invalid or duplicate manifests are skipped": whatever is edited meanwhile, the
\* registry holds the built-in plugins and, of the files as the scan read them,
\* the first valid one with each id.
FirstRegistrationWins == IsFirstWins(registry, report)

\* current_plugin_validation_report: the report that the settings page shows is
\* that of the registry in use.  It accepts or disables a file exactly if that
\* file's manifest is the one in the registry, and rejects every other file.
ReportMatchesRegistry ==
  /\ TellsTruth(report)
  /\ \A p \in Paths :
       report[p] # None /\ report[p].status # "rejected" =>
         registry[report[p].content.id] = UserPlugin(report[p].content)

\* The two together: what the directory scan leaves behind is right, and the
\* settings page tells the truth about it.
ScanIsSound == FirstRegistrationWins /\ ReportMatchesRegistry

\* register: "a user plugin can never silently shadow a built-in": a command runs
\* for the id of an executable built-in plugin, and always does.
OnlyBuiltInsRun ==
  \A id \in Ids : Authorize([id |-> id, padded |-> FALSE]) = "allowed" <=> id \in Executable

\* PluginManifest::validate: "malformed-but-deserializable manifests are rejected
\* rather than surfacing broken results to the user": the id of every result the
\* registry offers names a plugin.
\* The code does not have this property; README.md says where they part.
ResultsNamePlugins == \A rid \in Offered : Authorize(rid) \notin {"malformed", "unknown"}
=============================================================================
