----------------------------- MODULE MCCatalog -------------------------------
(* A small instance of Catalog: the scheduler and one operator, two updates   *)
(* of models.dev, two crashes and one file that stays (values in the .cfg).   *)
EXTENDS Catalog
==============================================================================
