-------------------------- MODULE MCLibraryLocator --------------------------
(* Two directories, one file name with its native spelling, and the calls   *)
(* two threads make.                                                        *)
EXTENDS LibraryLocator

CONSTANTS d1, d2, r1, r2, lib

MCFiles == {"x", "libx.so"}
MCNativeName == [f \in MCFiles |-> "libx.so"]

MCAsked ==
  {[op |-> "add_root", root |-> r1, dir |-> Alias], [op |-> "add_root", root |-> r2, dir |-> d2],
   [op |-> "load", library |-> lib], [op |-> "open_path", file |-> "x"],
   [op |-> "open_absolute", place |-> <<d1, "x">>]}
MCMapped == {[root |-> r1, file |-> "x"], [root |-> r2, file |-> "libx.so"]}
MCInstalled == {<<d1, "x">>, <<d2, "libx.so">>}
MCChanging == {<<d1, "x">>, <<d1, "libx.so">>}
=============================================================================
