---------------------------- MODULE PlayerStation ----------------------------
(***************************************************************************)
(* The programs of a player, from their command lines to the picture: the  *)
(* server and the client are started; then the client's threads that talk  *)
(* with the front end, the front end, and the TCP connection between them, *)
(* which delivers in order and cuts the lines anywhere.                    *)
(***************************************************************************)
EXTENDS SnakeMotion, StartUp

CONSTANTS
    MaxKeyPieces,    \* bounds: pieces of key lines under way,
    MaxPieces,       \* pieces of commands under way, when send blocks,
    MaxGames,        \* and games told of
    Impostors        \* games in which the rest of a NEW_GAME is a command

VARIABLES
    matching, pressed, turn, errno, clientEnded,
    open, started, held, table, field, resizing, missed, cut,
    keyLines,        \* pieces under way to the client
    commands,        \* pieces the client is sending to the front end
    copied,          \* how many of these the send buffer has taken
    arrived,         \* how many of these have arrived
    connection,      \* as the client's kernel sees it
    game             \* the game the client tells of

Keys == INSTANCE ArrowKeys
Gui == INSTANCE FrontEnd

keys == <<matching, pressed, turn, errno, clientEnded>>
frontEnd == <<open, started, held, table, field, resizing, missed, cut>>
tcp == <<keyLines, commands, copied, arrived, connection>>
vars == <<startUp, keys, frontEnd, tcp, game>>

ASSUME StationAssumption ==
    /\ {MaxKeyPieces, MaxPieces, MaxGames} \subseteq Nat \ {0}
    /\ Impostors \subseteq 1..MaxGames

Init ==
    /\ StartUpInit /\ Keys!KeysInit /\ Gui!FrontEndInit
    /\ keyLines = << >> /\ commands = << >> /\ copied = 0 /\ arrived = 0
    /\ connection = "open" /\ game = 0

Start ==
    /\ ConfigureServer \/ StartClient \/ ConfigureClient \/ Connect
    /\ UNCHANGED <<keys, frontEnd, tcp, game>>

Running == stage = "running"
Unread == SubSeq(commands, 1, arrived)

(***************************************************************************)
(* What a front end that ends leaves to the client.  A socket that is      *)
(* closed with data unread resets the connection; otherwise it ends in     *)
(* order, and data that comes later is refused.                            *)
(***************************************************************************)
Closing(unread) ==
    /\ connection' = IF unread # << >> THEN "reset"
                     ELSE IF copied > arrived THEN "refused" ELSE "finished"
    /\ commands' = << >> /\ copied' = 0 /\ arrived' = 0

(* A client that ends leaves the part of a line that has been copied.      *)
EndsSending ==
    /\ commands' = SubSeq(commands, 1, copied)
    /\ UNCHANGED <<copied, arrived>>

-----------------------------------------------------------------------------
(***************************************************************************)
(* send_gui_job: a line is sent.  The send buffer takes some of it, and if *)
(* it has no room for all send waits, events_lock held.  (A send that      *)
(* waits with nothing copied is one that has not begun.)  The first line   *)
(* after the end is refused, be it all of it or the rest; the next one     *)
(* ends the client, by SIGPIPE or by util::fatal.                          *)
(***************************************************************************)
CommandsAbout(g) ==
    [type : {"NEW_GAME"}, game : {g}, names : {g}]
        \cup [type : {"PIXEL", "PLAYER_ELIMINATED"}, game : {g}, names : {g, g + 1} \cap 1..MaxGames]

HasRoom == copied < MaxPieces
CopySome(sent) == copied' \in {n \in DOMAIN sent : copied < n /\ n <= MaxPieces}

BeginLine ==
    /\ connection = "open" /\ copied = Len(commands) /\ HasRoom
    /\ \E g \in {game, game + 1} \cap 1..MaxGames : \E command \in CommandsAbout(g) :
          /\ g = game \/ command.type = "NEW_GAME"
          /\ commands' = commands \o Gui!CommandLine(command)
          /\ game' = g
    /\ CopySome(commands')
    /\ UNCHANGED <<keys, keyLines, arrived, connection>>

LineIsRefused ==
    /\ connection = "finished" /\ connection' = "refused"
    /\ UNCHANGED <<keys, keyLines, commands, copied, arrived, game>>

SendFails ==
    /\ connection \in {"refused", "reset"}
    /\ Keys!Ends /\ keyLines' = << >> /\ EndsSending
    /\ UNCHANGED <<connection, game>>

Tell ==
    /\ Running /\ ~clientEnded
    /\ BeginLine \/ LineIsRefused \/ SendFails
    /\ UNCHANGED <<startUp, frontEnd>>

(* There is room again and send goes on. *)
ContinueLine ==
    /\ Running /\ ~clientEnded
    /\ connection = "open" /\ copied < Len(commands) /\ HasRoom
    /\ CopySome(commands)
    /\ UNCHANGED <<startUp, keys, frontEnd, keyLines, commands, arrived, connection, game>>

(***************************************************************************)
(* receive_gui_job: recv returns any part of what is under way, and after  *)
(* all of it an error, if the connection was reset, or the end.            *)
(***************************************************************************)
RecvEnd ==
    /\ keyLines = << >>
    /\ \/ connection = "reset" /\ ~errno /\ Keys!ReceiveError
       \/ connection = "reset" /\ errno /\ Keys!ReceiveEnd
       \/ connection \in {"finished", "refused"} /\ Keys!ReceiveEnd

Recv ==
    /\ Running
    /\ \/ \E n \in DOMAIN keyLines :
             /\ Keys!Receive(SubSeq(keyLines, 1, n))
             /\ keyLines' = SubSeq(keyLines, n + 1, Len(keyLines))
             /\ UNCHANGED <<commands, copied, arrived>>
       \/ /\ RecvEnd /\ UNCHANGED keyLines
          /\ IF clientEnded' THEN EndsSending ELSE UNCHANGED <<commands, copied, arrived>>
    /\ UNCHANGED <<startUp, frontEnd, connection, game>>

(***************************************************************************)
(* The player stops the client, or it ends by itself because it cannot     *)
(* talk with the server: at any moment, while it waits in send as well.    *)
(***************************************************************************)
StopClient ==
    /\ Running /\ ~clientEnded
    /\ Keys!Ends /\ keyLines' = << >> /\ EndsSending
    /\ UNCHANGED <<startUp, frontEnd, connection, game>>

(* TCP delivers some more. *)
Arrive ==
    /\ Running
    /\ arrived' \in arrived + 1 .. copied
    /\ UNCHANGED <<startUp, keys, frontEnd, keyLines, commands, copied, connection, game>>

-----------------------------------------------------------------------------
(***************************************************************************)
(* idle_callback with what has arrived.  Once the client has ended, the    *)
(* end of the stream comes after all it has sent; but it may have reset    *)
(* the connection: then what was still under way does not arrive.          *)
(***************************************************************************)
StreamEnds ==
    IF clientEnded THEN {"reset"} \cup (IF arrived = copied THEN {"finished"} ELSE {}) ELSE {"open"}

ReadLine ==
    /\ Running
    /\ \/ /\ \E ended \in StreamEnds : Gui!IdleCallback(Unread, ended)
          /\ LET n == Gui!LineTaken(Unread)
             IN  \/ /\ open'
                    /\ commands' = SubSeq(commands, n + 1, Len(commands))
                    /\ copied' = copied - n /\ arrived' = arrived - n
                    /\ UNCHANGED connection
                 \/ ~open' /\ Closing(SubSeq(Unread, n + 1, arrived))
       \/ clientEnded /\ Unread = << >> /\ Gui!ReadEnd /\ Closing(Unread)
    /\ UNCHANGED <<startUp, keys, keyLines, game>>

Configure ==
    /\ Running
    /\ Gui!ConfigureEvent
    /\ UNCHANGED <<startUp, keys, tcp, game>>

(***************************************************************************)
(* A key or a button is used and its line is written.  With the client     *)
(* gone the first line may still go, and later ones end the front end.     *)
(***************************************************************************)
Sent(side, change) ==
    \/ /\ ~clientEnded /\ Len(keyLines) + 2 <= MaxKeyPieces
       /\ keyLines' = keyLines \o Keys!Line(side, change)
    \/ clientEnded /\ UNCHANGED keyLines

UseArrow ==
    /\ Running
    /\ \/ /\ \E side \in Keys!Sides :
                \/ Gui!ArrowPressed(side) /\ Sent(side, "_KEY_DOWN\n")
                \/ Gui!ArrowReleased(side) /\ Sent(side, "_KEY_UP\n")
          /\ UNCHANGED <<commands, copied, arrived, connection>>
       \/ /\ clientEnded /\ Gui!SendMessageFails /\ Closing(Unread)
          /\ UNCHANGED keyLines
    /\ UNCHANGED <<startUp, keys, game>>

(* The player closes the window. *)
CloseWindow ==
    /\ Running
    /\ Gui!DestroyWindow
    /\ Closing(Unread)
    /\ UNCHANGED <<startUp, keys, keyLines, game>>

-----------------------------------------------------------------------------
Next == \/ Start \/ Tell \/ ContinueLine \/ Recv \/ StopClient
        \/ Arrive \/ ReadLine \/ Configure \/ UseArrow \/ CloseWindow

Spec == Init /\ [][Next]_vars

(***************************************************************************)
(* The thread of the client that reads keys runs, TCP delivers, and the    *)
(* main loop of the front end is idle now and then.  Nobody need touch a   *)
(* key, close the window or stop the client, and nothing need be told.     *)
(***************************************************************************)
Fairness ==
    /\ WF_vars(Recv) /\ WF_vars(Arrive) /\ WF_vars(ReadLine)
    /\ WF_vars(resizing = "queued" /\ Configure)

FairSpec == Spec /\ Fairness

-----------------------------------------------------------------------------
(***************************************************************************)
(* Properties.                                                             *)
(***************************************************************************)
Up == Running /\ open /\ ~clientEnded

(* Whatever TCP and the missing newline do to the lines, a command that is *)
(* carried out has been sent, and arrived, as a line: neither the rest of  *)
(* a line whose beginning was lost nor its beginning is taken for one.     *)
(* There are two exceptions.  The names of a NEW_GAME are a command if the *)
(* first is PLAYER_ELIMINATED; and when the client ends in the midst of a  *)
(* send, the beginning of that line is, but it is the last one ever.       *)
ExecutesWholeLines ==
    \A first \in cut :
        \/ /\ first.command.type = "NEW_GAME" /\ first.part = 2
           /\ first.command.game \in Impostors
        \/ first.part = 1 /\ clientEnded /\ commands = << >>

(* The picture is that of one game, the one whose players are listed,      *)
(* although no line says which game a pixel is of: it is wiped for every   *)
(* NEW_GAME before the next line is read, even if the size is the same.    *)
(* Only a NEW_GAME that is lost on the way can spoil it.  (A game is what  *)
(* the client tells between two NEW_GAMEs, even if the datagrams it was    *)
(* told itself were of several: see GameSession.)                          *)
FieldHoldsOneGame == (~missed /\ resizing = "no") => field \subseteq {table}

(* The arrow the player holds turns the snake to that side as it looks on  *)
(* the screen, where y grows downwards: three signs have to fit, those of  *)
(* the turn, of the rotation and of the axis.  Whatever the way the lines  *)
(* were cut, this is so as soon as all of them have been read.  It holds   *)
(* of turning speeds at which 255 times the speed, which is what the byte  *)
(* of a right key makes of it, turns to the other side than the speed: 90  *)
(* is one, the default of the server, 6, is not.                           *)
Headings == {0, 90, 180, 270}
Sense(old, new) ==
    MovedX(0, old) * MovedY(0, new) - MovedY(0, old) * MovedX(0, new)

HeldKeySteersThatWay ==
    (Up /\ keyLines = << >>) =>
        \A heading \in Headings :
            LET sense == Sense(heading, Turned(heading, turn % 256))
            IN  CASE held = {"LEFT"} -> sense < 0
                  [] held = {"RIGHT"} -> sense > 0
                  [] OTHER -> sense = 0

(* A key that is held is heard of, even if the keyboard repeats it for     *)
(* ever, so that there never comes a time when all its lines are read, and *)
(* whatever the client is told or cannot tell meanwhile.                   *)
HeldKeyIsHeard ==
    []<>(Up /\ held = {"LEFT"} => turn = 1)

(* A client that waits in send, with events_lock held and its receiver     *)
(* waiting for that, does not wait for ever once the player uses a key or  *)
(* a button: again and again there is room.  Before that it may: nothing   *)
(* is read.                                                                *)
ReadingFreesTheClient == []<>(Up /\ held # {} => HasRoom)

-----------------------------------------------------------------------------
(***************************************************************************)
(* What the assignment says and the client does not do.                    *)
(***************************************************************************)

(* The end of the connection to the front end ends the client (zadanie_2,  *)
(* lines 398 to 400): recv says so, but its result is only believed when   *)
(* errno happens to be set.                                                *)
ClosingEndsTheClient == (Running /\ ~open) ~> clientEnded

=============================================================================
