------------------------- MODULE MCDirectoryListing -------------------------
(* Instances of DirectoryListing. *)
EXTENDS DirectoryListing

\* An empty directory, and one of three pages: the first is published at once, the
\* second does not reach the milestone of three entries, and the last one, with
\* more entries than a page may have, waits for the worker.
MCDirectories == {<<0>>, <<1, 2, 4>>}
=============================================================================
