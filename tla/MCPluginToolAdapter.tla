------------------------ MODULE MCPluginToolAdapter ------------------------
(* Small instances of PluginToolAdapter for TLC. *)
EXTENDS PluginToolAdapter

=============================================================================
