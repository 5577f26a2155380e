--------------------------- MODULE MCDataRestore ---------------------------
(***************************************************************************)
(* A small instance of DataRestore for TLC: the state directory below      *)
(* /var, one managed file, and three levels of data.                       *)
(***************************************************************************)
EXTENDS DataRestore

MCStateDir == <<"var", "state">>
MCManagedFiles == << <<"app">> >>

MCPaths == {<<"var">>, MCStateDir, <<"app">>,
            <<"data">>, <<"data", "db">>, <<"data", "db", "log">>}

=============================================================================
