------------------------------ MODULE Operations ------------------------------
(***************************************************************************)
(* Two things that operators do around the service: deciding a cutover      *)
(* (CutoverPipeline) and overriding the command profiles (CommandProfiles). *)
(* They share no state, so a behaviour has one of them and the other one    *)
(* does nothing.                                                            *)
(***************************************************************************)
EXTENDS CutoverPipeline, CommandProfiles

VARIABLE operation   \* which of the two this behaviour has

operationVars == <<vars, profileVars, operation>>

OperationsInit ==
    /\ Init /\ ProfileInit
    /\ operation \in {"cutover", "profiles"}
    /\ operation = "profiles" => now = CHOOSE conditions \in Conditions : TRUE

OperationsNext ==
    \/ operation = "cutover" /\ Next /\ UNCHANGED <<profileVars, operation>>
    \/ operation = "profiles" /\ ProfileNext /\ UNCHANGED <<vars, operation>>

OperationsSpec == OperationsInit /\ [][OperationsNext]_operationVars
=============================================================================
