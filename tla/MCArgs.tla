------------------------------- MODULE MCArgs -------------------------------
(* Small instance of Args for TLC. *)
EXTENDS Args, TLC

CONSTANTS root, text, count, port, switch, attached, dir, four, minus

TextFlags  == {root, text}
NumFlags   == {count, port}
OneSwitch  == {switch}
OneEqual   == {attached}
AllWords   == {dir, four}
OneMinus   == {minus}
AllNumbers == {four, minus}
Existing   == {dir, attached}

(* text is --http of serve and --output of pull; attached is --root=D of    *)
(* serve, --output= of pull and --port=1 of list.                           *)
Known ==
  [ serve |-> root :> "rootDirs" @@ attached :> "rootDirs" @@ text :> "httpAddr"
                @@ count :> "concurrency" @@ switch :> "noCompress",
    pull  |-> text :> "output" @@ attached :> "output"
                @@ count :> "concurrency" @@ port :> "port",
    list  |-> port :> "port" @@ attached :> "port" ]
=============================================================================
