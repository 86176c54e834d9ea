--------------------------- MODULE ConfigurationNodes ---------------------------
(***************************************************************************)
(* The configuration service as the pages use it: a document for every     *)
(* folder and file, named by the order of their creation.  Documents are   *)
(* made and rewritten and never moved, so the folders above one stay the   *)
(* same; nothing in the pages deletes one.                                 *)
(***************************************************************************)
EXTENDS Naturals, Sequences, FiniteSets

CONSTANTS
    Null,
    MaxAsked    \* bound on what the operator asks of the service

ASSUME AskedAssumption == MaxAsked \in Nat /\ Null \notin Nat

VARIABLES
    nodes,      \* [name, parent, above, folder, data] by id
    asked,      \* requests of the operator so far
    strains     \* for the properties: what overtook or failed so far

nodeVars == <<nodes, asked, strains>>

Ask == asked < MaxAsked /\ asked' = asked + 1

Strained(when, what) == strains' = IF when THEN strains \cup {what} ELSE strains

First(S) == CHOOSE n \in S : \A k \in S : n <= k

\* All that is below a folder, at any depth.
GetNodeChildren(p) == {n \in DOMAIN nodes : p \in nodes[n].above}

TopLevel(name) == {n \in DOMAIN nodes : nodes[n].parent = Null /\ nodes[n].name = name}

CreateNode(name, parent, folder, data) ==
    nodes' = Append(nodes,
        [name |-> name, parent |-> parent,
         above |-> IF parent = Null THEN {} ELSE {parent} \cup nodes[parent].above,
         folder |-> folder, data |-> data])

\* A parent that is not given is left as it is.
UpdateNode(id, data) == nodes' = [nodes EXCEPT ![id].data = data]

NewId == Len(nodes) + 1
================================================================================
