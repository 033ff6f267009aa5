-------------------------- MODULE MCDirectoryRename --------------------------
(* A folder with a file on the Master and a subfolder with one on a Follower.  *)
EXTENDS DirectoryRename, TLC
MCHome == "a" :> "master" @@ "b" :> "f1"
=============================================================================
