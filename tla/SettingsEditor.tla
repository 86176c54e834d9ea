---------------------------- MODULE SettingsEditor ----------------------------
(***************************************************************************)
(* The drawer and the settings: the icon that makes the settings folder    *)
(* and its first file when they are missing, the drawer's list of settings *)
(* files, and the page that edits one of them.  Of settings only the file  *)
(* matters that they were read from; editing a field leaves that as it is. *)
(* A file without data holds Null, one that cannot be parsed reads as the  *)
(* defaults.                                                               *)
(***************************************************************************)
EXTENDS ConfigurationNodes

VARIABLES
    drawer,     \* its type and whether it is open
    target,     \* targetDirectory
    checks,     \* clicks on the settings icon under way
    files,      \* settings files in the drawer's list
    listing,    \* the list is being read
    setting,    \* settingId of the settings page; Null on the main page
    settings,   \* those the page shows: of a file, or the defaults
    isLoading,
    reads,      \* of settings, by the page that is shown
    writes      \* of settings, under way

settingsVars == <<drawer, target, checks, files, listing, setting, settings, isLoading,
                  reads, writes>>

\* No file has the id 0: the custom settings are the defaults.
Custom == 0
Defaults == 0

\* All of them look among the folders without a parent; the settings folder that the
\* service keeps under the root is none of these.
SettingsFolders == {n \in TopLevel("settings") : nodes[n].folder}
FilesOf(p) == {n \in GetNodeChildren(p) : ~nodes[n].folder}
SettingsFiles == UNION {FilesOf(p) : p \in SettingsFolders}

\* The drawer as it first appears, or with the settings found and listed in it.
SettingsInit ==
    /\ \/ drawer = [type |-> Null, open |-> TRUE] /\ target = Null /\ files = {}
       \/ /\ drawer = [type |-> "settings", open |-> TRUE] /\ target = "settings"
          /\ SettingsFolders # {} /\ files = FilesOf(First(SettingsFolders))
    /\ checks = {} /\ listing = FALSE
    /\ setting = Null /\ settings = Defaults /\ isLoading = FALSE
    /\ reads = {} /\ writes = {}

------------------------------------------------------------------------------
(* The drawer *)

\* The list is read anew whenever it appears.
DrawerBecomes(d) ==
    /\ drawer' = d
    /\ LET shown(e) == e.open /\ e.type = "settings"
       IN  IF shown(d) /\ ~shown(drawer) THEN files' = {} /\ listing' = TRUE
           ELSE IF shown(d) THEN UNCHANGED <<files, listing>>
           ELSE files' = {} /\ listing' = FALSE

HandleDrawerToggle ==
    /\ Ask
    /\ DrawerBecomes([drawer EXCEPT !.open = ~@])
    /\ UNCHANGED <<target, checks, setting, settings, isLoading, reads, writes, nodes, strains>>

HandleWorkspaceClick ==
    /\ Ask
    /\ target' = "root"
    /\ DrawerBecomes(IF drawer = [type |-> "workspace", open |-> TRUE]
                     THEN [drawer EXCEPT !.open = FALSE]
                     ELSE [type |-> "workspace", open |-> TRUE])
    /\ UNCHANGED <<checks, setting, settings, isLoading, reads, writes, nodes, strains>>

HandleSettingsClick ==
    /\ Ask
    /\ checks' = checks \cup {[n |-> asked', was |-> drawer, at |-> "nodes", folder |-> Null]}
    /\ Strained(checks # {}, "twice")
    /\ UNCHANGED <<drawer, target, files, listing, setting, settings, isLoading, reads,
                   writes, nodes>>

IsSimSettings(n) == nodes[n].name = "sim_settings"

AfterChildrenUnseen(c) == [c EXCEPT !.at = "file"]
AfterChildren(c) ==
    [c EXCEPT !.at = IF \E n \in GetNodeChildren(c.folder) : IsSimSettings(n) THEN "done"
                     ELSE "file"]

\* One request after the other, each with what the one before found.
CheckServed ==
    /\ \E c \in checks :
        LET becomes(d) == checks' = (checks \ {c}) \cup {d}
        IN  \/ /\ c.at = "nodes"
               /\ becomes(IF SettingsFolders = {} THEN [c EXCEPT !.at = "folder"]
                          ELSE [c EXCEPT !.at = "children", !.folder = First(SettingsFolders)])
               /\ UNCHANGED nodes
            \/ /\ c.at = "folder"
               /\ CreateNode("settings", Null, TRUE, Null)
               /\ becomes([c EXCEPT !.at = "children", !.folder = NewId])
            \/ c.at = "children" /\ becomes(AfterChildren(c)) /\ UNCHANGED nodes
            \/ /\ c.at = "file"
               /\ CreateNode("sim_settings", c.folder, FALSE, NewId)
               /\ becomes([c EXCEPT !.at = "done"])
    /\ UNCHANGED <<drawer, target, files, listing, setting, settings, isLoading, reads,
                   writes, asked, strains>>

CheckFails ==
    /\ \E c \in checks :
        c.at # "done" /\ checks' = (checks \ {c}) \cup {[c EXCEPT !.at = "done"]}
    /\ UNCHANGED <<drawer, target, files, listing, setting, settings, isLoading, reads,
                   writes, nodeVars>>

\* The drawer opens, found or not; what it was is what it was at the click.
CheckDone ==
    /\ \E c \in checks :
        /\ c.at = "done" /\ checks' = checks \ {c}
        /\ LET toggled == IF c.was.open /\ c.was.type # "settings" THEN drawer.open
                          ELSE ~drawer.open
           IN  DrawerBecomes([open |-> toggled,
                              type |-> IF c.was = [type |-> "settings", open |-> TRUE]
                                       THEN drawer.type ELSE "settings"])
    /\ target' = "settings"
    /\ UNCHANGED <<setting, settings, isLoading, reads, writes, nodeVars>>

FetchSettingsFolder ==
    /\ listing /\ listing' = FALSE
    /\ \/ /\ SettingsFolders # {}
          /\ files' = FilesOf(First(SettingsFolders))
       \/ UNCHANGED files
    /\ UNCHANGED <<drawer, target, checks, setting, settings, isLoading, reads, writes, nodeVars>>

------------------------------------------------------------------------------
(* The page *)

\* A page that is left forgets its state, and answers to it change nothing.
LeaveSettings ==
    /\ setting' = Null /\ settings' = Defaults /\ isLoading' = FALSE /\ reads' = {}
    /\ writes' = {[w EXCEPT !.mine = FALSE] : w \in writes}
    /\ UNCHANGED <<drawer, target, checks, files, listing>>

\* The first file's settings serve for all.
FetchSettingsOnce(id) ==
    IF id = Custom THEN settings' = Defaults /\ UNCHANGED <<isLoading, reads>>
    ELSE /\ isLoading' = (settings = Defaults)
         /\ reads' = reads \cup {r \in {[of |-> id, n |-> asked', data |-> Null, served |-> FALSE]} :
                                    settings = Defaults}
         /\ UNCHANGED settings

\* The page is read anew whenever it shows another file.
FetchSettings(id) ==
    IF id = Custom THEN settings' = Defaults /\ UNCHANGED <<isLoading, reads>>
    ELSE /\ isLoading' = TRUE
         /\ reads' = reads \cup {[of |-> id, n |-> asked', data |-> Null, served |-> FALSE]}
         /\ UNCHANGED settings

HandleSettingClick(id) ==
    /\ Ask
    /\ drawer.open /\ drawer.type = "settings" /\ ~listing /\ id \in files \cup {Custom}
    /\ setting # id /\ setting' = id
    /\ FetchSettings(id)
    /\ UNCHANGED <<drawer, target, checks, files, listing, writes, nodes, strains>>

IsSaving == \E w \in writes : w.mine

Reload ==
    /\ Ask
    /\ setting # Null /\ ~isLoading /\ ~IsSaving
    /\ FetchSettings(setting)
    /\ UNCHANGED <<drawer, target, checks, files, listing, setting, writes, nodes, strains>>

ReadServed ==
    /\ \E r \in reads :
        /\ ~r.served
        /\ reads' = (reads \ {r}) \cup {[r EXCEPT !.data = nodes[r.of].data, !.served = TRUE]}
    /\ UNCHANGED <<drawer, target, checks, files, listing, setting, settings, isLoading,
                   writes, nodeVars>>

\* Whichever file is shown by now; without data the page keeps what it showed.
ReadAnswered ==
    /\ \E r \in reads :
        /\ r.served /\ reads' = reads \ {r}
        /\ settings' = IF r.data = Null THEN settings ELSE r.data
        /\ Strained(r.of # setting \/ r.data = Null, "misread")
    /\ isLoading' = FALSE
    /\ UNCHANGED <<drawer, target, checks, files, listing, setting, writes, nodes, asked>>

\* The page keeps what it showed, of another file perhaps.
ReadFails ==
    /\ \E r \in reads : reads' = reads \ {r}
    /\ isLoading' = FALSE
    /\ strains' = strains \cup {"misread"}
    /\ UNCHANGED <<drawer, target, checks, files, listing, setting, settings, writes,
                   nodes, asked>>

\* The button is not there while settings are read, nor active while any are
\* written; custom settings cannot be saved.
HandleSave ==
    /\ Ask
    /\ setting \notin {Null, Custom} /\ ~IsSaving /\ ~isLoading
    /\ writes' = writes \cup {[file |-> setting, data |-> settings, at |-> "get", mine |-> TRUE,
                               n |-> asked']}
    /\ UNCHANGED <<drawer, target, checks, files, listing, setting, settings, isLoading,
                   reads, nodes, strains>>

\* The node is read for its name and parent, then written, then answered.
WriteServed ==
    /\ \E w \in writes :
        \/ /\ w.at = "get" /\ UNCHANGED nodes
           /\ writes' = (writes \ {w}) \cup {[w EXCEPT !.at = "put"]}
        \/ /\ w.at = "put" /\ UpdateNode(w.file, w.data)
           /\ writes' = (writes \ {w}) \cup {[w EXCEPT !.at = "answer"]}
    /\ UNCHANGED <<drawer, target, checks, files, listing, setting, settings, isLoading,
                   reads, asked, strains>>

\* Answered, or lost on one of the ways.
WriteEnds ==
    /\ \E w \in writes : writes' = writes \ {w}
    /\ UNCHANGED <<drawer, target, checks, files, listing, setting, settings, isLoading,
                   reads, nodeVars>>

------------------------------------------------------------------------------
(* Properties *)

\* What the file was made with.
OwnData(n) ==
    CASE nodes[n].name = "empty" -> Null
      [] nodes[n].name = "unparsable" -> Defaults
      [] OTHER -> n

\* A file of settings is only ever overwritten with settings that were read from
\* it, whichever files are shown in turn, as long as each reading finds data and is
\* answered while its file is still the one shown (the page is hidden while it
\* reads, handleSave).
SettingsOfFile ==
    "misread" \notin strains => \A n \in SettingsFiles : nodes[n].data = OwnData(n)

\* However often the icon is clicked and whichever of its requests is lost, it makes
\* at most one settings folder without a parent and at most one sim_settings in it,
\* as long as the clicks do not overlap (handleSettingsClick looks before it
\* creates).  They come beside the ones the service has made under the root, which
\* it does not look at.
OneSimSettings ==
    "twice" \notin strains =>
        /\ Cardinality(SettingsFolders) <= 1
        /\ Cardinality({n \in SettingsFiles : IsSimSettings(n)}) <= 1
================================================================================
