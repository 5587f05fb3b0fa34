--------------------------- MODULE MCSteamHelper ----------------------------
(* Instance: sessions that differ in one thing from a plain game, a start  *)
(* of another program, and commands of every kind.                         *)
EXTENDS SteamHelper, TLC

Cmd(exe, unix) == [exe |-> exe, unix |-> unix, valid |-> TRUE]
Plain ==
    [game |-> TRUE, cmd |-> Cmd(TRUE, TRUE), fails |-> Nil, lc |-> Nil, runtimes |-> {},
     app |-> [id |-> "any", language |-> "de", list |-> FALSE], attach |-> FALSE,
     install |-> <<"z", "steam">>, libraries |-> <<<<"z", "games", "steamapps">>, <<"unreachable", "steamapps">>>>,
     places |-> <<Nil, Nil, "home">>, override |-> Nil,
     linux |-> "home" :> [parses |-> TRUE, runtime |-> <<"steamvr">>],
     vrfails |-> Nil, refused |-> {}, sameName |-> TRUE, old |-> [folders |-> <<<<"z", "gone">>>>, vrpaths |-> "old", vr |-> Nil]]
Refused(x) == [Plain EXCEPT !.refused = {x}]
Linux(f) == [Plain EXCEPT !.linux = "home" :> f]
MCWorlds ==
    {Plain, [Plain EXCEPT !.cmd = Cmd(FALSE, FALSE)], [Plain EXCEPT !.cmd = Cmd(FALSE, TRUE)],
     [Plain EXCEPT !.cmd = [Cmd(TRUE, TRUE) EXCEPT !.valid = FALSE]], [Plain EXCEPT !.cmd = Nil],
     [Plain EXCEPT !.game = FALSE], [Plain EXCEPT !.game = FALSE, !.cmd = Cmd(FALSE, FALSE)],
     [Plain EXCEPT !.game = FALSE, !.cmd = Nil], [Plain EXCEPT !.fails = "factory"], [Plain EXCEPT !.fails = "user"],
     [Plain EXCEPT !.attach = TRUE, !.runtimes = {"battleye", "eac"}, !.install = Nil],
     [Plain EXCEPT !.lc = "fr"], [Plain EXCEPT !.app.id = "systemlocale"], [Plain EXCEPT !.app.id = "japanese"],
     [Plain EXCEPT !.places = <<Nil, Nil, Nil>>], [Plain EXCEPT !.places = <<"override", Nil, "home">>],
     [Plain EXCEPT !.override = "runtime"], Linux([parses |-> FALSE, runtime |-> <<>>]),
     Linux([parses |-> TRUE, runtime |-> <<>>]), Linux([parses |-> TRUE, runtime |-> <<"number">>]),
     [Plain EXCEPT !.vrfails = "value"], [Plain EXCEPT !.vrfails = "core"], [Plain EXCEPT !.vrfails = "server"], [Plain EXCEPT !.vrfails = "device"],
     [Plain EXCEPT !.sameName = FALSE],
     Refused("folders"), Refused("foldersCut"), Refused("appdata"), Refused("vrpaths"), Refused("vrpathsCut"),
     [Refused("delete") EXCEPT !.places = <<Nil, Nil, Nil>>], Refused("system"), Refused("lookup"),
     [Refused("system") EXCEPT !.cmd = Cmd(FALSE, TRUE)], [Refused("system") EXCEPT !.cmd = Nil],
     [Plain EXCEPT !.old = [folders |-> Nil, vrpaths |-> Nil, vr |-> [state |-> 1, thread |-> "none"]]]}
MCCommands == {<<"--", "restart">>, <<"link", "restart">>, <<"option">>}
=============================================================================
