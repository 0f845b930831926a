---------------------------- MODULE MCAppEnforcer ----------------------------
(* Small instances of AppEnforcer                                            *)
EXTENDS AppEnforcer, Sequences

App(path, family) == [path |-> path, family |-> family]

(* a game beside its launcher, and a system tool that comes as a package    *)
Game     == App("game", None)
Terminal == App("terminal", "terminal_pkg")

AllPaths    == {"game", "launcher", "terminal"}
AllFamilies == {"terminal_pkg"}

Files   == [p \in AllPaths |-> p \o ".exe"]
Folders == [p \in AllPaths |-> IF p = "launcher" THEN "game.exe" ELSE "bin.exe"]

OnlyGame    == {Game}
GameAndTool == {Game, Terminal}

(* the game is blocked through its launcher or by its path, the tool        *)
(* through its package or by its path                                       *)
GameOrTool    == {{"launcher", "terminal_pkg"}, {"terminal"}}
GameRequest   == {{"game"}}
=============================================================================
