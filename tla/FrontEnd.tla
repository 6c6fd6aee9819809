------------------------------ MODULE FrontEnd -------------------------------
(***************************************************************************)
(* The front end of src/private/gui (gui1.c, cmd.c, read_line.c, net.c):   *)
(* the table of players, the field, and the callbacks of its main loop.    *)
(* gui2 and gui3 differ from it only in how a point is painted.            *)
(*                                                                         *)
(* A command is a record of its type, its game and the game whose names    *)
(* are in it.  Its line is cut into three pieces, so that TCP may deliver  *)
(* it in parts: the words before the names, the names and the newline.     *)
(***************************************************************************)
EXTENDS Integers, SequencesExt

CONSTANT
    Impostors        \* games whose first player's name is, or ends in, the
                     \* word PLAYER_ELIMINATED

VARIABLES
    open,            \* the program runs and gsock is open
    started,         \* started: a key or a button has been used
    held,            \* the arrow keys the player holds down
    table,           \* kolgracz: the game whose players it lists, 0 for none
    field,           \* pixmap: the games that have pixels on it
    resizing,        \* the size asked for last is not configured yet
    missed,          \* ghost: a NEW_GAME has been lost since the last one
    cut              \* ghost: the first piece of what was read last, if it
                     \* is carried out although it is a part of a line

screen == <<table, field, resizing>>
frontEnd == <<open, started, held, screen, missed, cut>>

(***************************************************************************)
(* The sockets are connected by init_net before there is a window; the     *)
(* window is shown, so that its first size is configured.                  *)
(***************************************************************************)
FrontEndInit ==
    /\ open = TRUE /\ started = FALSE /\ held = {}
    /\ table = 0 /\ field = {} /\ resizing = "no"
    /\ missed = FALSE /\ cut = {}

(* The program ends, and nothing of it is left. *)
Ends ==
    /\ open /\ open' = FALSE
    /\ started' = FALSE /\ held' = {}
    /\ table' = 0 /\ field' = {} /\ resizing' = "no"
    /\ missed' = FALSE /\ cut' = {}

NewLine == 3
CommandLine(command) == [part \in 1..NewLine |-> [command |-> command, part |-> part]]

-----------------------------------------------------------------------------
(***************************************************************************)
(* process_command.                                                        *)
(***************************************************************************)

(* Fault: the size is asked for once, and it is the size it has already. *)
Resized_Once == IF table = 0 THEN "asked" ELSE resizing

(***************************************************************************)
(* The size is asked for twice, so that GTK sees a change whatever it was. *)
(* The first NEW_GAME makes the window grow: the window manager has to     *)
(* answer, and the main loop goes on meanwhile.  After that the size is    *)
(* the same and the field is configured before the loop is idle again.     *)
(***************************************************************************)
Resized == IF table = 0 \/ resizing = "asked" THEN "asked" ELSE "queued"

NewGame(command) ==
    /\ table' = command.game
    /\ resizing' = Resized
    /\ missed' = FALSE
    /\ UNCHANGED <<open, field>>

(***************************************************************************)
(* find_player_index: a name of another game than that of the table may be *)
(* in the table, because the same players play on, or may not; and so may  *)
(* a name that has been cut short.                                         *)
(***************************************************************************)
CutName == -1

Finds(name) == IF table = name THEN {TRUE} ELSE IF table = 0 THEN {FALSE} ELSE BOOLEAN

Pixel(command) ==
    /\ \E found \in Finds(command.names) :
          field' = IF found THEN field \cup {command.game} ELSE field
    /\ UNCHANGED <<open, table, resizing, missed>>

(***************************************************************************)
(* Only the label changes.  Without a player of that name it is the label  *)
(* of kolgracz[-1]: the program may go on or be killed.                    *)
(***************************************************************************)
Crashes(command) ==
    /\ command.type = "PLAYER_ELIMINATED"
    /\ FALSE \in Finds(command.names)

Execute(command) ==
    \/ command.type = "NEW_GAME" /\ NewGame(command)
    \/ command.type = "PIXEL" /\ Pixel(command)
    \/ /\ command.type = "PLAYER_ELIMINATED"
       /\ UNCHANGED <<open, screen, missed>>

(***************************************************************************)
(* The command that the words readLine has returned are taken for.  Too    *)
(* few words, or a first word that is no command, are passed over: so are  *)
(* numbers and names, the rest of a line of which a part is lost.  But the *)
(* rest of a NEW_GAME is its two players' names, and the name of the first *)
(* may be a word that another name makes a command.                        *)
(***************************************************************************)
IsCommand(got) == got[1].part = 1 /\ Len(got) > 1
IsImpostor(got) ==
    got[1].part = 2 /\ got[1].command.type = "NEW_GAME" /\ got[1].command.game \in Impostors

Understood(got) ==
    [type  |-> IF IsCommand(got) THEN got[1].command.type ELSE "PLAYER_ELIMINATED",
     game  |-> got[1].command.game,
     names |-> IF got[Len(got)].part = NewLine THEN got[1].command.names ELSE CutName]

(***************************************************************************)
(* A part may end, or begin, within the names: then it may be no command   *)
(* after all.  Without any word tokens[0] is NULL.                         *)
(***************************************************************************)
ProcessCommand(got) ==
    \/ /\ IsCommand(got) \/ IsImpostor(got)
       /\ Execute(Understood(got))
       /\ cut' = IF Len(got) = NewLine THEN {} ELSE {got[1]}
       /\ UNCHANGED <<started, held>>
    \/ /\ Len(got) # NewLine /\ got[1].part # NewLine
       /\ cut' = {} /\ UNCHANGED <<open, started, held, screen, missed>>
    \/ /\ \/ got[1].part = NewLine
          \/ (IsCommand(got) \/ IsImpostor(got)) /\ Crashes(Understood(got))
       /\ Ends

(***************************************************************************)
(* readLine takes bytes up to a newline, or all there are.                 *)
(***************************************************************************)
Newlines(unread) == {k \in DOMAIN unread : unread[k].part = NewLine}
LineTaken(unread) ==
    IF Newlines(unread) = {} THEN Len(unread)
    ELSE CHOOSE k \in Newlines(unread) : \A j \in Newlines(unread) : k <= j

IsIdle == open /\ started /\ resizing # "queued"

Forget(got) ==
    /\ missed' = (missed \/ \E k \in DOMAIN got : /\ got[k].part = 1
                                             /\ got[k].command.type = "NEW_GAME")
    /\ cut' = {} /\ UNCHANGED <<open, started, held, screen>>

(* Fault: what has been read is returned when there is no more.            *)
IdleCallback_Part(unread, ended) ==
    /\ IsIdle /\ unread # << >>
    /\ ProcessCommand(SubSeq(unread, 1, LineTaken(unread)))

(***************************************************************************)
(* idle_callback: nothing is read before a key has been used.  The socket  *)
(* does not block: when the newline is not there yet readLine fails and    *)
(* what it has read of the line is gone.  After the last line of a client  *)
(* that ended while it was sending no newline comes.  If the end of the    *)
(* stream is there already (ended is "finished") readLine returns what it  *)
(* has read; if the connection was reset it fails for good.                *)
(***************************************************************************)
IdleCallback(unread, ended) ==
    /\ IsIdle /\ unread # << >>
    /\ LET got == SubSeq(unread, 1, LineTaken(unread))
       IN  \/ Newlines(unread) # {} /\ ProcessCommand(got)
           \/ Newlines(unread) = {} /\ Forget(got)
           \/ Newlines(unread) = {} /\ ended = "finished" /\ ProcessCommand(got)
           \/ Newlines(unread) = {} /\ ended = "reset" /\ Ends

(* readLine finds the end of the stream, or the connection reset, at once. *)
ReadEnd == IsIdle /\ Ends

-----------------------------------------------------------------------------
(***************************************************************************)
(* The other callbacks.                                                    *)
(***************************************************************************)

(* configure_event: a new, empty pixmap; the user may resize the window. *)
ConfigureEvent ==
    /\ open
    /\ field' = {} /\ resizing' = "no"
    /\ UNCHANGED <<open, started, held, table, missed, cut>>

(* Fault: the buttons do not make the program read. *)
ArrowPressed_OnlySends(side) ==
    /\ open
    /\ held' = held \cup {side}
    /\ UNCHANGED <<open, started, screen, missed, cut>>

(***************************************************************************)
(* keyboard_event and the buttons: the line is sent and reading begins.  A *)
(* key that is held down is pressed again and again.  The player uses the  *)
(* key or the button of a side, not both at once.                          *)
(***************************************************************************)
ArrowPressed(side) ==
    /\ open
    /\ held' = held \cup {side} /\ started' = TRUE
    /\ UNCHANGED <<open, screen, missed, cut>>

ArrowReleased(side) ==
    /\ open /\ side \in held
    /\ held' = held \ {side} /\ started' = TRUE
    /\ UNCHANGED <<open, screen, missed, cut>>

(* The client is gone: write fails and the program ends. *)
SendMessageFails == Ends

(* The player closes the window. *)
DestroyWindow == Ends

=============================================================================
