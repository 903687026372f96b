----------------------------- MODULE MCManager -----------------------------
(* Instances of Manager for TLC.                                            *)
EXTENDS Manager, TLC

CONSTANTS loc, dyn, frn, xd   \* a local, a dynamic, a foreign, an XDMCP display

FilesLocal  == {{loc}, {}, NoFile}
FilesOne    == {{loc}}
FilesFrn    == {{frn}}
FilesTwo    == {{loc}, {}}
FilesDyn    == {{dyn}}
PidSymmetry == Permutations(Pid)
=============================================================================
