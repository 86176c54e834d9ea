-------------------------------- MODULE Workspace --------------------------------
(***************************************************************************)
(* The workspace in the drawer: the folder it shows, what it lists of it,  *)
(* and the dialogs that choose another folder or create a folder or a      *)
(* configuration.  The list is read from the service again after a change  *)
(* of folder and after a creation; answers are taken as they come.         *)
(***************************************************************************)
EXTENDS ConfigurationNodes

\* What a new configuration holds: no items.
NewConfiguration == <<>>

VARIABLES
    workspace,  \* [parent, nodes]: Null for the root's children
    dialog,     \* Null, or its kind and the folder selected when it opened
    fetches,    \* listings under way
    orders      \* choices and creations under way

workspaceVars == <<workspace, dialog, fetches, orders>>

Root == [parent |-> Null, nodes |-> {}]

Folders == {n \in DOMAIN nodes : nodes[n].folder}

\* All below the folder named root but what is in a folder named settings there;
\* all but those two without such a folder.
ShownOf(p) ==
    IF p # Null THEN GetNodeChildren(p)
    ELSE LET root == TopLevel("root")
             top == IF root # {} THEN {n \in DOMAIN nodes : nodes[n].parent = First(root)}
                    ELSE {n \in DOMAIN nodes : nodes[n].parent = Null}
             kept == {n \in top : nodes[n].name \notin {"root", "settings"}}
         IN  kept \cup UNION {GetNodeChildren(n) : n \in kept}

\* The workspace appears with nothing and reads its folder.
MountedWith(f) ==
    /\ workspace' = Root /\ dialog' = Null /\ fetches' = f
    /\ orders' = {[o EXCEPT !.mine = FALSE] : o \in orders}

Fetch(p, what) == [of |-> p, n |-> asked, for |-> what, nodes |-> Null]

UnmountWorkspace == MountedWith({})

\* As the first reading leaves it where it is shown.
WorkspaceInit(shown) ==
    /\ workspace = IF shown THEN [parent |-> Null, nodes |-> ShownOf(Null)] ELSE Root
    /\ dialog = Null /\ fetches = {} /\ orders = {}

\* The icon's click on a workspace that is there: it is emptied, and read again
\* only if it showed another folder than the root.
ResetToRoot ==
    /\ workspace' = Root
    /\ fetches' = IF workspace.parent = Null THEN fetches
                  ELSE fetches \cup {Fetch(Null, "list")}
    /\ UNCHANGED <<dialog, orders>>

\* The root's children never have the settings folder, so the search for it ends
\* where the reset does, an answer later.
FindSettingsFolder ==
    /\ \E f \in fetches :
        /\ f.for = "find"
        /\ fetches' = (fetches \ {f}) \cup
                        (IF workspace.parent = Null THEN {} ELSE {Fetch(Null, "list")})
    /\ workspace' = Root
    /\ UNCHANGED <<dialog, orders, nodeVars>>

------------------------------------------------------------------------------
(* The list *)

\* The folder itself is listed above what it holds.
ListedNodes == workspace.nodes \cup ({workspace.parent} \ {Null})

FetchServed ==
    /\ \E f \in fetches :
        /\ f.for # "find" /\ f.nodes = Null
        /\ fetches' = (fetches \ {f}) \cup {[f EXCEPT !.nodes = ShownOf(f.of)]}
    /\ UNCHANGED <<workspace, dialog, orders, nodeVars>>

\* Whatever folder the workspace shows by now.
FetchAnswered ==
    /\ \E f \in fetches :
        /\ f.nodes # Null /\ fetches' = fetches \ {f}
        /\ workspace' = [workspace EXCEPT !.nodes = f.nodes]
        /\ Strained(f.of # workspace.parent \/ \E g \in fetches \ {f} : g.for = "list", "outrun")
    /\ UNCHANGED <<dialog, orders, nodes, asked>>

\* A list of the root that is not read is taken for an empty one.
FetchFails ==
    /\ \E f \in fetches :
        /\ f.for # "find" /\ fetches' = fetches \ {f}
        /\ workspace' = IF f.of = Null THEN [workspace EXCEPT !.nodes = {}] ELSE workspace
    /\ strains' = strains \cup {"unread"}
    /\ UNCHANGED <<dialog, orders, nodes, asked>>

------------------------------------------------------------------------------
(* The dialogs *)

\* A folder may be selected in the list, or nothing; with a file selected no
\* dialog opens but the one that chooses the workspace.
OpenDialog(kind) ==
    /\ dialog = Null
    /\ \E p \in (IF kind = "configuration" THEN (ListedNodes \cap Folders) \cup {Null} ELSE {Null}) :
        dialog' = [kind |-> kind, selected |-> p]
    /\ UNCHANGED <<workspace, fetches, orders, nodeVars>>

CloseDialog ==
    /\ dialog # Null /\ dialog' = Null
    /\ UNCHANGED <<workspace, fetches, orders, nodeVars>>

\* Only folders can be chosen: any for the workspace, one of the list for a new
\* folder; a configuration goes to the selected one or the workspace's own.
PlacesToChoose == ShownOf(Null) \cap Folders
PlacesForFolder == ListedNodes \cap Folders
PlaceForConfiguration == IF dialog.selected # Null THEN dialog.selected ELSE workspace.parent

Places ==
    CASE dialog.kind = "select" -> PlacesToChoose
      [] dialog.kind = "folder" -> PlacesForFolder
      [] OTHER -> {PlaceForConfiguration}

\* The dialog stays until the answer; the list will be read for the folder of now.
\* Without a folder there is nothing to ask for.
Submit ==
    /\ Ask
    /\ dialog # Null
    /\ \E p \in Places :
        orders' = orders \cup
            {[kind |-> dialog.kind, place |-> p, shown |-> workspace.parent, n |-> asked',
              served |-> p = Null, mine |-> TRUE]}
    /\ UNCHANGED <<workspace, dialog, fetches, nodes, strains>>

OrderServed ==
    /\ \E o \in orders :
        /\ ~o.served
        /\ orders' = (orders \ {o}) \cup {[o EXCEPT !.served = TRUE]}
        /\ CASE o.kind = "folder" -> CreateNode("other", o.place, TRUE, Null)
             [] o.kind = "configuration" ->
                    CreateNode("configuration", o.place, FALSE, NewConfiguration)
             [] OTHER -> UNCHANGED nodes
        /\ Strained(~o.mine, "outrun")
    /\ UNCHANGED <<workspace, dialog, fetches, asked>>

\* The list stays as it is.
NoRefetch(o) == fetches' = fetches
Refetch(o) ==
    fetches' = fetches \cup {[of |-> o.shown, n |-> o.n, for |-> "list", nodes |-> Null]}

SelectWorkspace(o) ==
    /\ workspace' = [parent |-> o.place, nodes |-> {}]
    /\ fetches' = fetches \cup {[of |-> o.place, n |-> o.n, for |-> "list", nodes |-> Null]}

\* Answered, or lost on one of the ways: a creation reads the list either way, and
\* the dialog closes.
OrderAnswered ==
    /\ \E o \in orders :
        /\ orders' = orders \ {o}
        /\ IF ~o.mine THEN UNCHANGED <<workspace, fetches, dialog>>
           ELSE /\ dialog' = Null
                /\ IF o.kind # "select" THEN Refetch(o) /\ UNCHANGED workspace
                   ELSE (o.served /\ SelectWorkspace(o)) \/ UNCHANGED <<workspace, fetches>>
    /\ UNCHANGED nodeVars

------------------------------------------------------------------------------
(* Properties *)

\* When nothing is under way the list holds what the folder holds in the service,
\* new folders and configurations too, or nothing after the icon's click, as long
\* as no reading fails or is outrun by another or by a change of folder
\* (fetchChildNodes takes answers as they come).
ListIsCurrent ==
    strains \cap {"unread", "outrun"} = {} /\ fetches = {} /\ orders = {} =>
        workspace.nodes \in {{}, ShownOf(workspace.parent)}
================================================================================
