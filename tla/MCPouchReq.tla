----------------------------- MODULE MCPouchReq -----------------------------
(***************************************************************************)
(* PouchReq for TLC: documents and URLs, which a .cfg cannot write.        *)
(***************************************************************************)
EXTENDS PouchReq

MCDoc == {<<"x", "quote", "x">>}
MCUrl == {<<"server">>}
=============================================================================
