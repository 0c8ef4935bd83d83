----------------------------- MODULE MCJanitor -----------------------------
(* Three instances, one of which is a stdio proxy's, on Windows, which      *)
(* announces boots and wakes, and on Linux, which announces boots as macOS. *)
EXTENDS Janitor

CONSTANTS i1, i2, i3
Three == {i1, i2, i3}
OneOfProxy == {i3}
WindowsAndLinux == {"win32", "linux"}
=============================================================================
