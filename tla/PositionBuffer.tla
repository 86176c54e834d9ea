---------------------------- MODULE PositionBuffer ----------------------------
(***************************************************************************)
(* The buffer of the agents' positions in the browser, which messages      *)
(* write and animation frames read.                                        *)
(*                                                                         *)
(* The backend names the type of every unit, so the placeholder keys for   *)
(* reports without one are left out.                                       *)
(***************************************************************************)
EXTENDS Naturals, Sequences, SequencesExt

CONSTANTS
    Brigades, Patrols,    \* their numbers, which overlap
    Places, Nowhere,      \* coordinates; Nowhere for missing or zero ones
    States

Units == ({"fireBrigade"} \X Brigades) \cup ({"foresterPatrol"} \X Patrols)

ASSUME BufferAssumption ==
    /\ Brigades \subseteq Nat /\ Patrols \subseteq Nat
    /\ Places \subseteq Nat \ {0} /\ Nowhere = 0

VARIABLE positions    \* the last report of each unit

Partial(S, T) == UNION {[R -> T] : R \in SUBSET S}
UnitsOfType(type) == {u \in Units : u[1] = type}

Pos == [at : Places, state : States]
Reported == [at : Places \cup {Nowhere}, state : States]

BufferTypeOK == positions \in Partial(Units, Pos)

BufferInit == positions = <<>>

\* Reports without usable coordinates are skipped.
Usable(says) == {u \in DOMAIN says : says[u].at # Nowhere}

\* Takes the units of the other type with the same number away.
WriteAllAlone(f, says) ==
    [u \in {v \in DOMAIN f : \A w \in Usable(says) : v[2] # w[2]} \cup Usable(says) |->
        IF u \in Usable(says) THEN says[u] ELSE f[u]]

\* A unit's report replaces the one before; a brigade's leaves the patrol of the
\* same number alone.
WriteAll(f, says) ==
    [u \in DOMAIN f \cup Usable(says) |-> IF u \in Usable(says) THEN says[u] ELSE f[u]]

\* A message of the agents' own channel.
ParseAndWriteRaw(says) == positions' = WriteAll(positions, says)

\* Only the units the agents' channel has not reported yet.
WriteBatchNew(agents) ==
    positions' = WriteAll(positions, [u \in DOMAIN agents \ DOMAIN positions |-> agents[u]])

\* The units of a full state.
WriteBatch(agents) == positions' = WriteAll(positions, agents)
===============================================================================
