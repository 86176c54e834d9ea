------------------------------- MODULE EditorPages -------------------------------
(***************************************************************************)
(* The pages that keep their data in the configuration service: the editor *)
(* of the main page, the settings page and the drawer with its workspace.  *)
(* A dialog covers everything else.  No simulation runs.                   *)
(***************************************************************************)
EXTENDS ConfigurationEditor, SettingsEditor, Workspace

vars == <<nodeVars, editorVars, settingsVars, workspaceVars>>

Node(name, parent, above, folder, data) ==
    [name |-> name, parent |-> parent, above |-> above, folder |-> folder, data |-> data]

CONSTANT Kept    \* number of items of the first file, all in the first sector

ASSUME KeptAssumption == Kept \in Nat

\* What the service makes when it starts: a root, the settings folder with its
\* file in it, and a folder with two configurations.
Forest ==
    <<Node("root", Null, {}, TRUE, Null),
      Node("settings", 1, {1}, TRUE, Null), Node("sim_settings", 2, {1, 2}, FALSE, 3),
      Node("other", 1, {1}, TRUE, Null),
      Node("configuration", 4, {1, 4}, FALSE,
           [k \in 1..Kept |-> Item(k - 1, <<Side \div 2, Side \div 2>>, 5)]),
      Node("configuration", 4, {1, 4}, FALSE, <<>>)>>

\* What the settings icon has made since, and a file that has come from elsewhere.
Settings(name, data) ==
    <<Node("settings", Null, {}, TRUE, Null), Node("sim_settings", 7, {7}, FALSE, 8),
      Node(name, 7, {7}, FALSE, data)>>

WorkspaceShown(d) == d.open /\ d.type # "settings"

Init ==
    /\ nodes \in {Forest, Forest \o Settings("other", 9), Forest \o Settings("empty", Null),
                  Forest \o Settings("unparsable", Defaults)}
    /\ asked = 0 /\ strains = {}
    /\ EditorInit /\ SettingsInit /\ WorkspaceInit(WorkspaceShown(drawer))

OnMainPage == setting = Null
Uncovered == modal = Null /\ dialog = Null

\* The workspace comes and goes with the drawer, and follows its target.
WorkspaceFollows ==
    LET find == IF target' = "settings" THEN {Fetch(Null, "find")} ELSE {}
    IN  CASE ~WorkspaceShown(drawer') /\ WorkspaceShown(drawer) -> UnmountWorkspace
          [] WorkspaceShown(drawer') /\ ~WorkspaceShown(drawer) ->
                MountedWith({Fetch(Null, "list")} \cup find)
          [] WorkspaceShown(drawer') /\ WorkspaceShown(drawer) /\ target' # target ->
                IF target' = "root" THEN ResetToRoot
                ELSE /\ fetches' = fetches \cup find
                     /\ UNCHANGED <<workspace, dialog, orders>>
          [] OTHER -> UNCHANGED workspaceVars

OnDrawer ==
    \/ Uncovered /\ (HandleDrawerToggle \/ HandleWorkspaceClick)
    \/ CheckDone

OnSettings ==
    \/ /\ Uncovered
       /\ \/ HandleSettingsClick \/ Reload \/ HandleSave
          \/ \E id \in files \cup {Custom} : HandleSettingClick(id)
    \/ CheckServed \/ CheckFails \/ FetchSettingsFolder
    \/ ReadServed \/ ReadAnswered \/ ReadFails \/ WriteServed \/ WriteEnds

\* The page of an opened file is the main page.
FileOpened == \E o \in opens : OpenAnswered(o) /\ LeaveSettings

\* A double click on a file of the list.
OpenListed ==
    /\ Uncovered /\ WorkspaceShown(drawer)
    /\ \E n \in ListedNodes \ Folders : OpenFile(n)

OnConfiguration ==
    \/ /\ OnMainPage /\ dialog = Null
       /\ \/ \E s \in SectorIds : ClickSector(s)
          \/ OpenModal \/ ToggleDrawing \/ HandleClearSelectedLocation \/ CloseModal
          \/ \E p \in Points : HandleEdit(p)
          \/ HandleCreate \/ DeleteItem \/ SubmitForm
    \/ OpenListed \/ OpenServed \/ OpenFails
    \/ SaveServed \/ SaveAnswered \/ SaveFails

OnWorkspace ==
    \/ /\ WorkspaceShown(drawer) /\ modal = Null
       /\ \/ \E kind \in {"folder", "configuration", "select"} : OpenDialog(kind)
          \/ CloseDialog \/ Submit
    \/ FindSettingsFolder \/ FetchServed \/ FetchAnswered \/ FetchFails
    \/ OrderServed \/ OrderAnswered

Next ==
    \/ OnDrawer /\ WorkspaceFollows /\ UNCHANGED editorVars
    \/ OnSettings /\ UNCHANGED <<editorVars, workspaceVars>>
    \/ FileOpened /\ UNCHANGED workspaceVars
    \/ OnConfiguration /\ UNCHANGED <<settingsVars, workspaceVars>>
    \/ OnWorkspace /\ UNCHANGED <<editorVars, settingsVars>>

Spec == Init /\ [][Next]_vars
================================================================================
