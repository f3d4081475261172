--------------------------- MODULE ApiWorkspace ---------------------------
(***************************************************************************)
(* The API workspace of one owner's project: requests that parse and       *)
(* import documents, and a session of the client, which works with a       *)
(* specification that was answered or saved.                               *)
(***************************************************************************)
EXTENDS SpecImport, ApiCases

CONSTANT Opened    \* bound: the documents whose specifications the session may work with

workspaceVars == <<importVars, sessionVars>>

WorkspaceTypeOK == ImportTypeOK /\ SessionTypeOK

WorkspaceInit == ImportInit /\ SessionInit

\* GET /, or the answer the client has: the specification of the document of r.
OpenKnown(r) == /\ at[r] = "answered" /\ document[r] \in Opened
                /\ Open(document[r])
                /\ UNCHANGED importVars

WorkspaceNext ==
    \/ \E r \in Importers : \/ ImportStep(r) /\ UNCHANGED sessionVars
                            \/ OpenKnown(r)
    \/ SessionStep /\ UNCHANGED importVars

WorkspaceSpec == WorkspaceInit /\ [][WorkspaceNext]_workspaceVars
===========================================================================
