------------------------------- MODULE Profiles -------------------------------
(***************************************************************************)
(* The profile registry (softwake-soul profile.rs): folders under          *)
(* profiles/ and one file, softwake.json, with the active profile and the  *)
(* other settings.  The daemon, the window and the command line each read, *)
(* change and replace the whole file, and no lock keeps them apart.  A     *)
(* replacement is written beside the file, under one fixed name, and then  *)
(* renamed onto it.                                                        *)
(*                                                                         *)
(* A file name holds nothing (Absent), a configuration, the beginning of   *)
(* one (Torn), or the file a process is still writing, which is named by   *)
(* that process: a rename moves the name and not what is written into it.  *)
(***************************************************************************)
EXTENDS Naturals, FiniteSets

CONSTANTS
  Processes,   \* those that edit softwake.json
  Window,      \* the one that creates profiles
  Ids,         \* folder names
  Default,     \* DEFAULT_PROFILE_ID
  Values,      \* what the settings other than active_profile may be
  DefaultValue,
  Absent, Torn,
  MaxCrashes, MaxRemovals \* bounds on what happens to the processes and folders

Configs == [active : Ids, rest : Values]
DefaultConfig == [active |-> Default, rest |-> DefaultValue]

ASSUME ProfilesAssumption ==
  /\ Window \in Processes /\ Default \in Ids /\ DefaultValue \in Values
  /\ Absent # Torn /\ {Absent, Torn} \cap (Processes \cup Configs) = {}
  /\ Processes \cap Configs = {}
  /\ {MaxCrashes, MaxRemovals} \subseteq Nat

VARIABLES
  dirs,    \* the folders under profiles/
  app,     \* softwake.json
  temp,    \* .softwake.json.tmp
  call,    \* per process: the call it is in
  crashes, removals,
  overlap, \* history: two calls, or a call and a removal, were under way at once
  failed,  \* history: the writes that failed before there was an overlap
  kept     \* history: the settings the calls that succeeded add up to, up to an overlap

vars == <<dirs, app, temp, call, crashes, removals, overlap, failed, kept>>

Operations ==
  [kind : {"switch"}, to : Ids] \cup [kind : {"set"}, to : Values]
    \cup [kind : {"resolve", "create"}, to : {Default}]

\* Where a call is; body is what it writes and heals whether it is the migration that writes.
Resting == [pc |-> "idle", op |-> [kind |-> "resolve", to |-> Default],
            body |-> DefaultConfig, heals |-> FALSE]
Calls ==
  [pc : {"idle", "migrate", "load", "create", "fill", "rename", "undo"},
   op : Operations, body : Configs, heals : BOOLEAN]

At(p, pc) == call[p].pc = pc
Goto(p, pc) == call' = [call EXCEPT ![p].pc = pc]
Ends(p) == call' = [call EXCEPT ![p] = Resting]
Busy == {p \in Processes : ~At(p, "idle")}

\* What a reader of a name finds: a file that is not written to its end is torn.
Content(f) ==
  IF f \notin Processes THEN f
  ELSE IF At(f, "fill") THEN Torn ELSE call[f].body

\* The name once p has let go of its file.
Settled(f, p) == IF f = p THEN Content(f) ELSE f

Init ==
  /\ dirs = {} /\ app = Absent /\ temp = Absent
  /\ call = [p \in Processes |-> Resting]
  /\ crashes = 0 /\ removals = 0
  /\ overlap = FALSE /\ failed = 0 /\ kept = DefaultConfig

-------------------------------------------------------------------------------
\* A command of the window, a slash line or tool of the daemon, a reload, or ctl.
Begin(p, op) ==
  /\ At(p, "idle")
  /\ op.kind = "create" => p = Window
  /\ call' = [call EXCEPT ![p] = [Resting EXCEPT !.pc = "migrate", !.op = op]]
  /\ overlap' = (overlap \/ Busy # {})
  /\ UNCHANGED <<dirs, app, temp, crashes, removals, failed, kept>>

\* A call goes on to replace softwake.json with a new body.
Writes(p, body, heals) ==
  call' = [call EXCEPT ![p].pc = "create", ![p].body = body, ![p].heals = heals]

\* mutant: the folder of the active profile is not looked for.
MigrateWithoutHeal(p) ==
  /\ At(p, "migrate")
  /\ dirs' = dirs \cup {Default}
  /\ \/ Content(app) = Absent /\ Writes(p, DefaultConfig, TRUE)
     \/ Content(app) = Torn /\ Ends(p)
     \/ Content(app) \in Configs /\ Goto(p, "load")
  /\ UNCHANGED <<app, temp, crashes, removals, overlap, failed, kept>>

\* ensure_migrated: the default folder, and an active profile that exists.  A file
\* that does not parse fails the call.
Migrate(p) ==
  /\ At(p, "migrate")
  /\ dirs' = dirs \cup {Default}
  /\ \/ Content(app) = Absent /\ Writes(p, DefaultConfig, TRUE)
     \/ Content(app) = Torn /\ Ends(p)
     \/ /\ Content(app) \in Configs
        /\ IF Content(app).active \in dirs' THEN Goto(p, "load")
           ELSE Writes(p, [Content(app) EXCEPT !.active = Default], TRUE)
  /\ UNCHANGED <<app, temp, crashes, removals, overlap, failed, kept>>

\* resolve_active_pack_dir reads the active profile.
Resolve(p) ==
  /\ At(p, "load") /\ call[p].op.kind = "resolve"
  /\ Ends(p)
  /\ UNCHANGED <<dirs, app, temp, crashes, removals, overlap, failed, kept>>

\* create_profile takes a folder name that is free, or finds none.
CreateProfile(p) ==
  /\ At(p, "load") /\ call[p].op.kind = "create"
  /\ IF dirs = Ids THEN UNCHANGED dirs
     ELSE \E id \in Ids \ dirs : dirs' = dirs \cup {id}
  /\ Ends(p)
  /\ UNCHANGED <<app, temp, crashes, removals, overlap, failed, kept>>

\* mutant: every setter starts from a fresh configuration.
LoadedFresh == DefaultConfig

\* load_app_config, or the defaults when it fails.
Loaded == IF Content(app) \in Configs THEN Content(app) ELSE DefaultConfig

\* What the operation makes of a configuration.
Edited(config, op) ==
  IF op.kind = "switch" THEN [config EXCEPT !.active = op.to]
  ELSE [config EXCEPT !.rest = op.to]

\* The setters: unknown profiles are refused, everything else is read and changed.
Load(p) ==
  /\ At(p, "load") /\ call[p].op.kind \in {"switch", "set"}
  /\ IF call[p].op.kind = "switch" /\ call[p].op.to \notin dirs THEN Ends(p)
     ELSE Writes(p, Edited(Loaded, call[p].op), FALSE)
  /\ UNCHANGED <<dirs, app, temp, crashes, removals, overlap, failed, kept>>

-------------------------------------------------------------------------------
\* mutant: the file is opened in its place.
OpenInPlace(p) ==
  /\ At(p, "create")
  /\ app' = p /\ temp' = p /\ Goto(p, "fill")
  /\ UNCHANGED <<dirs, crashes, removals, overlap, failed, kept>>

\* atomic_write: the temporary file must be new.
OpenTemp(p) ==
  /\ At(p, "create")
  /\ IF temp = Absent THEN temp' = p /\ Goto(p, "fill")
     ELSE temp' = temp /\ Goto(p, "undo")
  /\ UNCHANGED <<dirs, app, crashes, removals, overlap, failed, kept>>

\* write_all and sync_all, into the file wherever its name is by now.
Fill(p) ==
  /\ At(p, "fill")
  /\ Goto(p, "rename")
  /\ UNCHANGED <<dirs, app, temp, crashes, removals, overlap, failed, kept>>

\* The settings after a write: the operation's, or the profile a migration fell back to.
Kept(p) ==
  IF call[p].heals THEN [kept EXCEPT !.active = Default] ELSE Edited(kept, call[p].op)

\* rename moves whatever file has the temporary name by then.
Rename(p) ==
  /\ At(p, "rename")
  /\ IF temp = Absent
     THEN app' = Settled(app, p) /\ Goto(p, "undo") /\ UNCHANGED <<temp, kept>>
     ELSE /\ app' = Settled(temp, p) /\ temp' = Absent
          /\ kept' = IF overlap THEN kept ELSE Kept(p)
          /\ IF call[p].heals THEN Goto(p, "load") ELSE Ends(p)
  /\ UNCHANGED <<dirs, crashes, removals, overlap, failed>>

\* mutant: only the writer that created the temporary file removes it.
UndoOwn(p) ==
  /\ At(p, "undo")
  /\ UNCHANGED temp
  /\ Ends(p)
  /\ failed' = IF overlap THEN failed ELSE failed + 1
  /\ UNCHANGED <<dirs, app, crashes, removals, overlap, kept>>

\* The temporary name is removed on an error, whoever's file it names.
Undo(p) ==
  /\ At(p, "undo")
  /\ temp' = Absent
  /\ Ends(p)
  /\ failed' = IF overlap THEN failed ELSE failed + 1
  /\ UNCHANGED <<dirs, app, crashes, removals, overlap, kept>>

-------------------------------------------------------------------------------
\* A process dies; its file stays as far as it got.
Crash(p) ==
  /\ ~At(p, "idle") /\ crashes < MaxCrashes
  /\ crashes' = crashes + 1
  /\ app' = Settled(app, p) /\ temp' = Settled(temp, p)
  /\ Ends(p)
  /\ UNCHANGED <<dirs, removals, overlap, failed, kept>>

\* The operator deletes a folder; the program never does.
RemoveFolder(id) ==
  /\ id \in dirs /\ removals < MaxRemovals
  /\ dirs' = dirs \ {id}
  /\ removals' = removals + 1
  /\ overlap' = (overlap \/ Busy # {})
  /\ UNCHANGED <<app, temp, call, crashes, failed, kept>>

Next ==
  \/ \E p \in Processes :
       \/ \E op \in Operations : Begin(p, op)
       \/ Migrate(p) \/ Resolve(p) \/ CreateProfile(p) \/ Load(p)
       \/ OpenTemp(p) \/ Fill(p) \/ Rename(p) \/ Undo(p) \/ Crash(p)
  \/ \E id \in Ids : RemoveFolder(id)

Spec == Init /\ [][Next]_vars

-------------------------------------------------------------------------------
Names == {Absent, Torn} \cup Processes \cup Configs

TypeOK ==
  /\ dirs \subseteq Ids
  /\ app \in Names /\ temp \in Names
  /\ call \in [Processes -> Calls]
  /\ crashes \in 0 .. MaxCrashes /\ removals \in 0 .. MaxRemovals
  /\ overlap \in BOOLEAN /\ failed \in Nat /\ kept \in Configs

\* While calls do not overlap, softwake.json is whole at every moment, wherever in
\* a write a process may die (atomic_write).
FileStaysWhole == ~overlap => Content(app) # Torn

\* A process that dies in a write leaves its temporary file behind, and that costs
\* the next write and no other: calls that do not overlap fail to write no more often
\* than processes died (atomic_write's create_new and its error path).
OneFailurePerCrash == ~overlap => failed <= crashes

\* While calls do not overlap, the settings are those of the successful calls, the
\* ones each of them does not name included (set_kws_thresholds: "preserving
\* active_profile"), and a write that dies changes none of them.
SettingsSurvive ==
  ~overlap /\ Content(app) \in Configs => Content(app) = kept

\* However calls overlap and die, the active profile is one whose folder exists;
\* when an operator has deleted it, then again after the next call's migration
\* (set_active_profile, ensure_migrated).
ActiveExists ==
  /\ removals = 0 \/ (~overlap /\ \E p \in Processes : At(p, "load"))
  /\ Content(app) \in Configs
  => Content(app).active \in dirs

===============================================================================
