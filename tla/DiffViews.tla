------------------------------ MODULE DiffViews ------------------------------
(***************************************************************************)
(* compute_diff and generate_side_by_side_html behind one request: the view *)
(* parameter decides which of the two renders the page, and both collapse   *)
(* it with ContextWindow.                                                   *)
(***************************************************************************)
EXTENDS SideBySide, InlineDiff

VARIABLE view

viewVars == <<view, sideVars, inlineVars, page>>

ViewInit ==
    /\ view \in {"inline", "sidebyside"}
    /\ SideInit
    /\ InlineInit
    /\ view = "inline" => origin = <<>> /\ dest = <<>>

ViewNext ==
    \/ view = "sidebyside" /\ SideNext /\ UNCHANGED <<view, inlineVars>>
    \/ view = "inline" /\ InlineNext /\ UNCHANGED <<view, sideVars>>

ViewSpec == ViewInit /\ [][ViewNext]_viewVars
=============================================================================
