------------------------------ MODULE Comparison ------------------------------
(***************************************************************************)
(* A comparison reads the files of a host while captures write them         *)
(* (HostArtifacts), and renders each pair of texts that it has read         *)
(* (DiffViews).  The rendering works on texts in memory: the two parts      *)
(* share no state, so a behaviour has one of them and the other one does    *)
(* nothing.                                                                 *)
(***************************************************************************)
EXTENDS HostArtifacts, DiffViews

VARIABLE about   \* which of the two this behaviour has

comparisonVars == <<vars, viewVars, about>>

ComparisonInit ==
    /\ Init /\ ViewInit
    /\ about \in {"files", "view"}
    /\ about = "files" => view = "inline"

ComparisonNext ==
    \/ about = "files" /\ Next /\ UNCHANGED <<viewVars, about>>
    \/ about = "view" /\ ViewNext /\ UNCHANGED <<vars, about>>

ComparisonSpec == ComparisonInit /\ [][ComparisonNext]_comparisonVars
=============================================================================
