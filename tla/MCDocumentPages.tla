--------------------------- MODULE MCDocumentPages ---------------------------
(* Small instances of DocumentPages.  The extraction page once with        *)
(* retries, once with another version to select and another admin; one     *)
(* version of a document that becomes two; two files, to tell the run of   *)
(* an earlier wizard from this one's, and a clock that may tick between    *)
(* two run ids; one version published before and one to publish.           *)
EXTENDS DocumentPages
CONSTANTS v1, admin_token, viewer_token, bad_token

MCPublished == <<v1>>
(* An admin, a viewer and a token that the server refuses.                 *)
MCRolesOf == [t \in {admin_token, viewer_token, bad_token} |->
                CASE t = admin_token  -> {"admin"}
                  [] t = viewer_token -> {"viewer"}
                  [] OTHER            -> {}]
=============================================================================
