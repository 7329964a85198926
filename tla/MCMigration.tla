---------------------------- MODULE MCMigration ----------------------------
(* Two processes; three of the migrator's eight tables: the pair a login   *)
(* writes together and the one every boot seeds.                           *)
EXTENDS Migration, TLC

CONSTANTS p1, p2

MCTables == <<"users", "identities", "live_events">>
MCWriteSets == {{"users", "identities"}, {"live_events"}}
============================================================================
