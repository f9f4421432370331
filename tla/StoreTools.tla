------------------------------ MODULE StoreTools ------------------------------
(***************************************************************************)
(* The programs around the store that one process runs from start to end,  *)
(* each against surroundings that change or fail meanwhile: the daemon's   *)
(* opening of the store, the bulk import, the explorer, the context tool,  *)
(* and the commands that set the whole up and take it away.  The first     *)
(* four meet only in the store, where the others are to each of them       *)
(* clients like any; so one of them runs, and the rest of the system is    *)
(* those clients.                                                          *)
(***************************************************************************)
EXTENDS StoreOpening, BulkImport, Explorer, ContextBuilder, Setup

VARIABLE tool       \* the program that runs

toolVars == <<tool, recs, openingVars, importVars, explorerVars, contextVars, setupVars>>

Tools == {"open", "import", "explore", "context", "setup"}

ToolsTypeOK ==
    /\ tool \in Tools
    /\ OpeningTypeOK /\ BulkImportTypeOK
    /\ LiveStoreTypeOK /\ ExplorerTypeOK /\ ContextTypeOK
    /\ SetupTypeOK

Init ==
    /\ tool \in Tools
    /\ OpeningInit /\ BulkImportInit
    /\ LiveStoreInit /\ ExplorerInit /\ ContextInit
    /\ SetupInit
    /\ tool # "open" => legacy = <<>>
    /\ tool # "import" => source = [dir |-> TRUE, files |-> <<>>]
    /\ tool # "setup" => mac /\ hooksPath = "unset"

OpensBy(act) ==
    /\ tool = "open"
    /\ act
    /\ UNCHANGED <<tool, recs, importVars, explorerVars, contextVars, setupVars>>

Opens == OpensBy(OpeningNext)

Imports ==
    /\ tool = "import"
    /\ BulkImportNext
    /\ UNCHANGED <<tool, recs, openingVars, explorerVars, contextVars, setupVars>>

Explores ==
    /\ tool = "explore"
    /\ ExplorerNext
    /\ UNCHANGED <<tool, openingVars, importVars, contextVars, setupVars>>

BuildsContext ==
    /\ tool = "context"
    /\ ContextNext
    /\ UNCHANGED <<tool, openingVars, importVars, explorerVars, setupVars>>

SetsUp ==
    /\ tool = "setup"
    /\ SetupNext
    /\ UNCHANGED <<tool, recs, openingVars, importVars, explorerVars, contextVars>>

Next == Opens \/ Imports \/ Explores \/ BuildsContext \/ SetsUp

Spec == Init /\ [][Next]_toolVars

(* launchd starts a daemon that has exited, and a daemon that opens the    *)
(* store goes on with it.                                                  *)
LiveSpec == Spec /\ WF_toolVars(OpensBy(OpeningStep))

-----------------------------------------------------------------------------
(* The store comes open again after every crash and failed call, unless a  *)
(* line of the legacy file does not parse and the collection is empty:     *)
(* then Open fails each time (store.go:129-135, migrate.go).               *)
OpensAgain == (tool = "open" /\ phase = "closed" /\ ~Unreadable) ~> phase = "open"
=============================================================================
