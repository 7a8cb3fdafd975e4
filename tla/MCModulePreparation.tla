------------------------ MODULE MCModulePreparation ------------------------
(* ModulePreparation on a small instance: three loads of two functions, a  *)
(* queue of one behind the active load, room for one component, and sizes  *)
(* of which one fills the byte budget.                                     *)
EXTENDS ModulePreparation
=============================================================================
