----------------------------- MODULE MCPrograms -----------------------------
(***************************************************************************)
(* Programs for TLC: the options tried, and the user names and ports of the *)
(* proxy URLs.                                                              *)
(***************************************************************************)
EXTENDS Programs

(* Options of mosquitto_pub and mosquitto_sub that interact, and one of each *)
(* kind that does not; names with and without characters that must be       *)
(* escaped in a URL.                                                        *)
OptionNames == {"-t", "-m", "-l", "-f", "-i", "-I", "-c", "-C", "-R", "-T", "--psk", "--psk-identity", "--cafile",
                "unknown"}
Config == INSTANCE MosquittoConfig
MCOptions == {o \in Config!AllOptions :
                 o.name \in OptionNames /\ (o.argument # "missing" \/ o.name = "-i")}
MCCharacters == {"%", ":", "@", "2", "3", "5", "a", "u", "p", "h", "o", "0", "1", "6", "8"}
MCUsernames == {<<"u">>, <<"p", ":">>, <<"%", "2">>, <<"a", "%", ":">>}
MCHosts == {<<"h", "o">>}
MCPorts == {<<"1">>, <<"0">>, <<"6", "5", "5", "3", "6">>, <<"8", "0">>}
=============================================================================
