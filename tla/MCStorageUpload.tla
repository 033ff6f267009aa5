-------------------------- MODULE MCStorageUpload ---------------------------
(* Two uploads of different sizes that want the same path one after the other, *)
(* under an allocation that holds either but not both.                         *)
EXTENDS StorageUpload, TLC
CONSTANTS a, b, p, d1, d2
MCUploads == {a, b}
MCPaths == {p}
MCSize == a :> 1 @@ b :> 2
MCOneUpload == {a}
MCOneSize == a :> 1
OneDeleter == {d1}
TwoDeleters == {d1, d2}
=============================================================================
