--------------------------- MODULE MCEngineServer ---------------------------
(* Small instances of EngineServer for TLC.                                *)
EXTENDS EngineServer, TLC

\* Clients are interchangeable, and so are pipe instances.
ServerSymmetry == Permutations(Clients) \union Permutations(Instances)
=============================================================================
