--------------------------- MODULE MCSendAnything ---------------------------
(***************************************************************************)
(* The file lists of the runs of SendAnything.                             *)
(***************************************************************************)
EXTENDS SendAnything

MCFile == {"big", "empty", "mine", "yours", "deep"}
MCItem == {"flat", "tree", "socket", "single", "other"}
MCKind ==
  [i \in MCItem |-> CASE i \in {"flat", "tree"} -> "dir"
                      [] i = "socket" -> "special"
                      [] OTHER -> "file"]
MCDirName == [i \in MCItem |-> IF i = "flat" THEN "out" ELSE "tree"]
MCFiles ==
  [i \in MCItem |-> CASE i = "flat" -> <<"big", "empty">>
                      [] i = "tree" -> <<"empty", "deep">>
                      [] i = "socket" -> <<>>
                      [] i = "single" -> <<"mine">>
                      [] OTHER -> <<"yours">>]
MCRelDir == [f \in MCFile |-> IF f = "deep" THEN <<"sub">> ELSE <<>>]
\* Two different files of the same name.
MCName == [f \in MCFile |-> IF f \in {"mine", "yours"} THEN "result" ELSE f]
MCChunkCnt == [f \in MCFile |-> CASE f = "big" -> 2 [] f = "empty" -> 0 [] OTHER -> 1]

MCMsDataPath == [t \in Transfer |-> <<"next_1">>]
\* One transfer of a file, something unsendable and a directory beside one of a
\* kanban alone.
MCRich == [t \in Transfer |-> IF t = 1 THEN <<"single", "socket", "flat">> ELSE <<>>]
\* Two files of the same name.
MCSameName == [t \in Transfer |-> IF t = 1 THEN <<"single">> ELSE <<"other">>]
MCLists == {MCRich, MCSameName}
MCSameNameLists == {MCSameName}
MCTreeLists == {[t \in Transfer |-> <<"tree">>]}
=============================================================================
