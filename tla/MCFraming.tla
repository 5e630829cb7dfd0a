------------------------------- MODULE MCFraming -------------------------------
(***************************************************************************)
(* Framing for TLC: messages whose strings end before, on and after a      *)
(* multiple of 8 bytes, and whose integers reach the ends of their widths  *)
(* as far as TLC's 32 bits go.                                             *)
(***************************************************************************)
EXTENDS Framing

Text(n) == [i \in 1..n |-> 65]

Msg(t, f) == [type |-> t, fields |-> f]

Position(lat, speed, n, tslc) ==
    Msg("position_report",
        [timestamp |-> 70000, latitude |-> lat, longitude |-> -1, altitude |-> 2147483647,
         icao_address |-> 16777215, heading |-> 359, horizontal_velocity |-> 65535,
         vertical_velocity |-> speed, squawk |-> 640, callsign |-> Text(n),
         tslc |-> tslc, flags |-> 43605, altitude_type |-> 1, emitter_type |-> 255])

(* A time since last contact of 0 only: it is not packed. *)
Positions ==
    {Position(-43500000, -1, n, 0) : n \in 0..8} \cup
    {Position(2147483647, speed, 6, 0) : speed \in {-32768, 32767}}

Server(port, n) == [port |-> port, address |-> Text(n)]

Lists ==
    {Msg("server_list", [servers |-> s]) :
        s \in {<<>>} \cup {<<Server(65535, n)>> : n \in 0..8}
                     \cup {<<Server(1, n), Server(20202, k)>> : n \in {3, 4}, k \in {4, 5}}}

Settings ==
    {Msg("smm_settings", [server_url |-> Text(a), username |-> Text(b), password |-> Text(c)]) :
        a \in {1, 2, 9}, b \in {5, 6}, c \in {0, 6}}

Commands ==
    {Msg("command", [timestamp |-> 1, latitude |-> lat, longitude |-> 172000000,
                     altitude |-> 100, command |-> 8]) :
        lat \in {-1, 0, 1}}

Others ==
    {Msg("identity", [name |-> Text(n)]) : n \in 1..8} \cup
    {Msg("rtt_response", [request_id |-> n]) : n \in {0, 256, 2147483647}} \cup
    {Msg("system_status", [bat_percent |-> p, mah_used |-> 70000, voltage |-> 11400000]) :
        p \in {0, 255}} \cup
    {Msg("search_status", [search_id |-> 1, point_completed |-> 0, points_total |-> 65536])} \cup
    {Msg("identity_non_aircraft", [capabilities |-> n]) : n \in {0, 256}} \cup
    {Msg(t, <<>>) : t \in {"rtt_request", "identity_required"}}

AllMessages == Positions \cup Lists \cup Settings \cup Commands \cup Others

(* Of different shape, to be cut anywhere. *)
SomeMessages ==
    {Msg("identity", [name |-> Text(5)]), Msg("rtt_request", <<>>),
     Msg("system_status", [bat_percent |-> 255, mah_used |-> 70000, voltage |-> 11400000])}

===============================================================================
