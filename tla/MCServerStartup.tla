-------------------------- MODULE MCServerStartup --------------------------
(***************************************************************************)
(* Instances of ServerStartup for TLC.                                     *)
(***************************************************************************)
EXTENDS ServerStartup

CONSTANTS p1, p2, p3

\* MIGRATIONS of the code: ADD COLUMN, DROP COLUMN and CREATE TABLE fail when they
\* are executed again, the UPDATEs and the first CREATE TABLE do not.
Migrations == <<
    <<TRUE>>, <<FALSE, FALSE, FALSE>>, <<FALSE>>, <<FALSE>>, <<FALSE>>, <<FALSE>>,
    <<FALSE>>, <<FALSE>>, <<FALSE, TRUE>>, <<FALSE>>, <<FALSE>>, <<FALSE>>,
    <<FALSE>>, <<FALSE, FALSE>>, <<FALSE, TRUE>>, <<FALSE>>, <<FALSE>>, <<FALSE>> >>
=============================================================================
