----------------------------- MODULE MCUploadQueue -----------------------------
(* Instances of UploadQueue: a file and an empty directory, a directory with *)
(* two files alone, or a file alone.                                        *)
EXTENDS UploadQueue

CONSTANTS file, directory

MCUploads == {file, directory}
MCFiles == [u \in MCUploads |-> IF u = file THEN 1 ELSE 0]
MCDirectories == {directory}
MCDirectoryFiles == [u \in MCDirectories |-> 2]
MCFile == {file}
MCFileFiles == [u \in MCFile |-> 1]
MCNone == {}
================================================================================
