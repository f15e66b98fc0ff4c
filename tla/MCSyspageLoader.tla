-------------------------- MODULE MCSyspageLoader --------------------------
(* Module SyspageLoader for TLC.                                            *)
EXTENDS SyspageLoader

\* Empty, within a page, on its edges, and over more than one page of 4 bytes.
SomeSizes == {0, 1, 3, 4, 5, 9}

=============================================================================
