------------------------------- MODULE StartUp -------------------------------
(***************************************************************************)
(* From the command lines to two running programs: main of src/server.cc,  *)
(* up to its threads, and after it main of src/client.cc.  A command line  *)
(* is a sequence of texts, without the name of the program.                *)
(***************************************************************************)
EXTENDS Arguments

CONSTANTS
    OptionRange,     \* number of values of std::uint32_t
    PortRange,       \* number of values of std::uint16_t
    ServerLines,     \* command lines the server may be started with
    Names,           \* texts the client may be given as a name ...
    Hosts, Ports     \* ... and as parts of an address

ASSUME StartUpAssumption ==
    /\ PortRange \in Nat \ {0} /\ OptionRange \in Nat \ {0}
    /\ 12346 < PortRange /\ PortRange <= OptionRange /\ OptionRange <= IntHalf

(***************************************************************************)
(* Texts are sequences of characters.  A host is a name or an IPv4 address *)
(* without a colon, or an IPv6 address, which has several and no brackets; *)
(* a port has none.                                                        *)
(***************************************************************************)
ASSUME TextsAssumption ==
    /\ ServerLines \subseteq Seq(Seq(STRING))
    /\ Names \cup Hosts \cup Ports \subseteq Seq(STRING)
    /\ \A host \in Hosts : Colons(host) = {} \/ (SeveralColons(host) /\ Head(host) # "[")
    /\ \A port \in Ports : Colons(port) = {}

VARIABLES
    stage,           \* how far the programs are
    argv,            \* the command line being read
    configuration,   \* of the server: a number for each option
    settings         \* of the client: name and addresses

startUp == <<stage, argv, configuration, settings>>

Nobody == [name |-> << >>]
NoSeed == -1
NoConfiguration == [k \in {} |-> 0]

(***************************************************************************)
(* The options and the numbers each accepts.                               *)
(***************************************************************************)
Options == {"W", "H", "p", "s", "t", "r"}
Least(k) == IF k \in {"W", "H", "s"} THEN 1 ELSE 0
Greatest(k) == CASE k = "p" -> PortRange - 1
                 [] k = "t" -> (OptionRange \div 2) - 1
                 [] OTHER -> OptionRange - 1

Default == [W |-> 800, H |-> 600, p |-> 12345, s |-> 50, t |-> 6, r |-> NoSeed]

(***************************************************************************)
(* The i-th option of the line; it needs a parameter.                      *)
(***************************************************************************)
NumOptions(line) == (Len(line) + 1) \div 2
OptionAt(line, i) == line[2 * i - 1]
IsOption(line, i) ==
    /\ Len(OptionAt(line, i)) = 2 /\ Head(OptionAt(line, i)) = "-"
    /\ 2 * i <= Len(line)
    /\ OptionAt(line, i)[2] \in Options

(* Fault: an option that has been given is not overwritten. *)
WithOption_First(config, line, i) ==
    IF config = NoConfiguration \/ ~IsOption(line, i) THEN NoConfiguration
    ELSE LET k == OptionAt(line, i)[2]
             number == ParsedBounded(line[2 * i], Least(k), Greatest(k))
         IN  IF number = Refused THEN NoConfiguration
             ELSE IF config[k] # Default[k] THEN config
             ELSE [config EXCEPT ![k] = number]

(* One turn of the loop over the options; a bad one ends the program. *)
WithOption(config, line, i) ==
    IF config = NoConfiguration \/ ~IsOption(line, i) THEN NoConfiguration
    ELSE LET k == OptionAt(line, i)[2]
             number == ParsedBounded(line[2 * i], Least(k), Greatest(k))
         IN  IF number = Refused THEN NoConfiguration
             ELSE [config EXCEPT ![k] = number]

Configured(line) ==
    FoldLeft(LAMBDA config, i : WithOption(config, line, i),
             Default, [i \in 1 .. NumOptions(line) |-> i])

(***************************************************************************)
(* The settings of the client.  The address of the front end is optional,  *)
(* a port is optional in each address.                                     *)
(***************************************************************************)
Address(text, host, port) ==
    LET split == SplitHostname(text)
    IN  IF split.hasPort
        THEN [host |-> split.host, port |-> ParsedBounded(split.port, 0, PortRange - 1)]
        ELSE [host |-> split.host, port |-> port]

EmptyName == <<"\"", "\"">>     \* how a player asks for no name
LocalHost == [host |-> <<"localhost">>, port |-> 12346]

SettingsOf(line) ==
    IF Len(line) < 2 \/ Len(line[1]) > MaxNameLen THEN Nobody
    ELSE LET game == Address(line[2], << >>, 12345)
             gui == IF Len(line) < 3 THEN LocalHost ELSE Address(line[3], << >>, 12346)
             name == IF line[1] = EmptyName THEN << >> ELSE line[1]
         IN  IF game.port = Refused \/ gui.port = Refused THEN Nobody
             ELSE [name |-> name, game |-> game, gui |-> gui]

(***************************************************************************)
(* What a player may type: a host with a colon of its own is put into      *)
(* brackets when a port follows.                                           *)
(***************************************************************************)
Addresses == [host : Hosts, port : Ports \cup {NoText}]
TextOf(a) ==
    IF a.port = NoText THEN a.host
    ELSE IF Colons(a.host) = {} THEN a.host \o <<":">> \o a.port
    ELSE <<"[">> \o a.host \o <<"]", ":">> \o a.port

ClientLines ==
    {<< >>} \cup {<<name>> : name \in Names}
        \cup {<<name, TextOf(game)>> : name \in Names, game \in Addresses}
        \cup {<<name, TextOf(game), TextOf(gui)>> :
                  name \in Names, game \in Addresses, gui \in Addresses}

StartUpInit ==
    /\ stage = "server" /\ argv \in ServerLines
    /\ configuration = NoConfiguration /\ settings = Nobody

(* The server reads its options and binds its socket, which may fail. *)
ConfigureServer ==
    /\ stage = "server"
    /\ configuration' = Configured(argv)
    /\ stage' \in IF configuration' = NoConfiguration THEN {"ended"} ELSE {"hosting", "ended"}
    /\ argv' = << >>
    /\ UNCHANGED settings

(* The player starts the client.  What the server does with its            *)
(* configuration is no longer looked at here.                              *)
StartClient ==
    /\ stage = "hosting"
    /\ stage' = "client" /\ argv' \in ClientLines
    /\ configuration' = NoConfiguration
    /\ UNCHANGED settings

ConfigureClient ==
    /\ stage = "client"
    /\ settings' = SettingsOf(argv)
    /\ stage' = IF settings' = Nobody THEN "ended" ELSE "connecting"
    /\ argv' = << >>
    /\ UNCHANGED configuration

(***************************************************************************)
(* Both names are resolved and both sockets connected, or the client ends. *)
(* For the datagram socket of the game server connecting only fixes the    *)
(* address, so that nobody need be there.                                  *)
(***************************************************************************)
Connect ==
    /\ stage = "connecting"
    /\ stage' \in {"running", "ended"}
    /\ settings' = Nobody
    /\ UNCHANGED <<argv, configuration>>

-----------------------------------------------------------------------------
(***************************************************************************)
(* Properties.  The number a text means is that of its digits, without a   *)
(* limit.  Two kinds of text are promised nothing: a number too long for   *)
(* 64 bits, which may wrap into the range (util.cc 36), and a lone sign,   *)
(* which parse takes for 0.                                                *)
(***************************************************************************)
IsNumber(text) == /\ text # << >> /\ Unsigned(text) # << >>
                  /\ \A k \in DOMAIN Unsigned(text) : Unsigned(text)[k] \in Digits

Meant(text) ==
    LET digits == FoldLeft(LAMBDA n, c : 10 * n + Value[c], 0, Unsigned(text))
    IN  IF Negative(text) THEN -digits ELSE digits

Plain(text) == /\ text \notin {<<"+">>, <<"-">>}
               /\ IsNumber(text) => Meant(text) \in -IntHalf .. IntHalf - 1
Means(text, min, max) == IsNumber(text) /\ Meant(text) \in min .. max

(* The configuration is what the line says, the last word on each option   *)
(* counting, and a line with anything wrong in it starts no server: what   *)
(* the parser accumulates with a sign the wrong way round is the number.   *)
Given(line, k) == {i \in 1 .. Len(line) \div 2 : OptionAt(line, i) = <<"-", k>>}

OptionsStep ==
    stage = "server" /\ (\A i \in DOMAIN argv : Plain(argv[i])) =>
        IF \A i \in 1 .. NumOptions(argv) :
              /\ IsOption(argv, i)
              /\ LET k == OptionAt(argv, i)[2]
                 IN  Means(argv[2 * i], Least(k), Greatest(k))
        THEN \A k \in Options :
                IF Given(argv, k) = {} THEN configuration'[k] = Default[k]
                ELSE \E i \in Given(argv, k) :
                        /\ \A j \in Given(argv, k) : j <= i
                        /\ configuration'[k] = Meant(argv[2 * i])
        ELSE stage' = "ended"

OptionsAreAsWritten == [][OptionsStep]_startUp

(* Whatever is written, numbers that wrap included, the server does not    *)
(* get to run with a configuration its game cannot be played with: the     *)
(* board is not empty, its sides and the turning speed are 32 bit numbers  *)
(* (the assumption of all proofs about the game), and a round has a length.*)
ConfigurationIsSound ==
    stage = "hosting" =>
        /\ \A k \in {"W", "H", "s"} : configuration[k] \in 1 .. OptionRange - 1
        /\ configuration["t"] \in 0 .. OptionRange - 1

(* Each address is taken apart as it was put together, whether the host    *)
(* has colons of its own or not, and the client only goes on when every    *)
(* port is one.                                                            *)
IsRead(a, address, port) ==
    IF a.port = NoText THEN address = [host |-> a.host, port |-> port]
    ELSE address = [host |-> a.host, port |-> Meant(a.port)]

HasPort(a) == a.port # NoText => Means(a.port, 0, PortRange - 1)

SettingsStep ==
    stage = "client" =>
        \A name \in Names, game, gui \in {a \in Addresses : Plain(a.port)} :
            /\ argv = <<name, TextOf(game)>> =>
                  IF HasPort(game) /\ Len(name) <= MaxNameLen
                  THEN IsRead(game, settings'.game, 12345) /\ settings'.gui = LocalHost
                  ELSE stage' = "ended"
            /\ argv = <<name, TextOf(game), TextOf(gui)>> =>
                  IF HasPort(game) /\ HasPort(gui) /\ Len(name) <= MaxNameLen
                  THEN IsRead(game, settings'.game, 12345) /\ IsRead(gui, settings'.gui, 12346)
                  ELSE stage' = "ended"

SettingsAreAsWritten == [][SettingsStep]_startUp

(* A name the client may be given reaches the server as it is, although    *)
(* the message ends without the zero its reader counts on.  Names of one   *)
(* character are refused, and one of 64 fills the array it is read into.   *)
NamesArrive ==
    stage = "connecting" =>
        LET name == settings.name
        IN  (IsValidPlayerName(name) /\ Len(name) \in 2 .. MaxNameLen - 1)
                => NameHeard(name) = name

=============================================================================
