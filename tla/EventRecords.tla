---------------------------- MODULE EventRecords -----------------------------
(***************************************************************************)
(* The events of a game as the protocol sees them: what an event is to the *)
(* code that numbers, packs and sends it, and how many bytes it takes      *)
(* (calculate_len in src/protocol.cc).  Of a NEW_GAME only the length of   *)
(* its roster, each name counted with its terminating zero, and that of    *)
(* its longest name, without the zero, matter here.                        *)
(***************************************************************************)
EXTENDS Integers, Sequences

(* Fault: the whole datagram is given to the names. *)
MaxNamesLen_NoHeaders == 508

MaxDatagramLen == 512                    \* MAX_EVENT_PACKET_DATA_SIZE
GameIdLen == 4
MaxEventsLen == MaxDatagramLen - GameIdLen
MaxNamesLen == MaxDatagramLen - 32 - GameIdLen

NewGame(namesLen, longest) ==
    [type |-> "NEW_GAME", namesLen |-> namesLen, longest |-> longest]
Nameless(type) == [type |-> type, namesLen |-> 0, longest |-> 0]
Pixel == Nameless("PIXEL")
Eliminated == Nameless("PLAYER_ELIMINATED")
GameOver == Nameless("GAME_OVER")

Events == [type : {"NEW_GAME"}, namesLen : 0..MaxNamesLen, longest : 0..MaxNamesLen]
             \cup {Pixel, Eliminated, GameOver}

(* len, event_no, event_type and crc32 surround the data of an event. *)
DataLen(e) == CASE e.type = "NEW_GAME" -> 8 + e.namesLen
                [] e.type = "PIXEL" -> 9
                [] e.type = "PLAYER_ELIMINATED" -> 1
                [] e.type = "GAME_OVER" -> 0

RecordLen(e) == 4 + 5 + DataLen(e) + 4

(* The bytes of the first n events of a sequence. *)
PrefixLen(events) ==
    LET bytes[n \in 0..Len(events)] ==
            IF n = 0 THEN 0 ELSE bytes[n - 1] + RecordLen(events[n])
    IN  bytes

EventsLen(events) == PrefixLen(events)[Len(events)]

(* Fault: an event must be followed by another byte. *)
ReadCount_NotLast(events) == Len(events) - 1

(***************************************************************************)
(* server_message::from: how many of the events of a datagram the client   *)
(* is given.  Reading stops at an event that is longer than what is left   *)
(* of the limit beside the whole datagram, not beside what has been read.  *)
(* It stops, too, at a NEW_GAME with a name that event::parse refuses: the *)
(* events before it are given, and without any the datagram is dropped.    *)
(***************************************************************************)
MaxNameLen == 64
IsRefused(e) == e.longest > MaxNameLen

ReadCount(events) ==
    LET len == GameIdLen + EventsLen(events)
        stops == {k \in DOMAIN events :
                     \/ GameIdLen + PrefixLen(events)[k - 1] >= MaxDatagramLen
                     \/ len + RecordLen(events[k]) > MaxDatagramLen
                     \/ IsRefused(events[k])}
    IN  IF stops = {} THEN Len(events)
        ELSE (CHOOSE k \in stops : \A j \in stops : k <= j) - 1

=============================================================================
