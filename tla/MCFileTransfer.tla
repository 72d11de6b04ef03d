--------------------------- MODULE MCFileTransfer ----------------------------
(* Values for FileTransfer: lengths are three bytes long, so that a length  *)
(* can arrive in three pieces; files of no chunk, one, and two chunks.      *)
EXTENDS FileTransfer

TheName == <<21, 22>>
SomeFiles == {<<>>, <<11, 12>>, <<11, 12, 13, 14>>}
=============================================================================
