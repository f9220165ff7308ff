---------------------------- MODULE MCMigrations ----------------------------
EXTENDS Migrations

\* The three tables whose columns changed, and one that is newer than the first
\* of them and stands between them.
SomeTables == <<"projects", "project_stack", "agents", "runs">>
=============================================================================
