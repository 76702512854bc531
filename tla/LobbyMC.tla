------------------------------ MODULE LobbyMC -------------------------------
(***************************************************************************)
(* The game's way to the lobby, for TLC: it looks the servers up by name   *)
(* (HostNames), logs in and gets a key (Login), and sends requests, byte   *)
(* by byte (Lobby). The three share no variable: a behaviour is of one of  *)
(* them while the others stay as they begin.                               *)
(***************************************************************************)
EXTENDS Lobby

\* Two names; contents that are empty, or look like a type and a zero.
Save == <<97>>
Stats == <<98, 16>>
MCNames == {Save, Stats}
MCContents == {<<>>, <<19, 0>>}
Motd == <<109>>
MCPublisher == Motd :> <<72, 105>>
MCNow == <<1, 2, 3, 4>>
Tickets == {1, 2}

Filler(n) == [i \in 1..n |-> i + 15]
Game == <<109, 119, 51>>
Request(op, args) == [op |-> op, args |-> args]
MCRequests ==
  {Request("set_user_file", <<Game, f[1], <<1>>, f[2], Filler(8)>>) :
     f \in {<<Save, <<19, 0>>>>, <<Stats, <<19, 0>>>>}}
  \cup {Request("set_legacy_user_file", <<Save, <<0>>, <<>>>>),
        Request("get_legacy_user_file", <<Stats>>)}
  \cup {Request("get_user_file", <<Game, n, Filler(8), <<112, 99>>>>) : n \in MCNames}
  \cup {Request("list_legacy_user_files", <<Filler(8), Filler(4), Filler(2), Filler(2), n>>) : n \in {Save}}
  \cup {Request("list_publisher_files", <<Filler(4), Filler(2), Filler(2), n>>) : n \in {Motd, Save}}
  \cup {Request("get_publisher_file", <<n>>) : n \in {Motd, Save}}
  \cup {Request("delete_user_file", <<Game, Save, Filler(8)>>)}
  \cup {Request(op, <<>>) : op \in {"get_server_time", "get_user_raw_data", "no_service", "no_callback"}}
Get == Request("get_user_file", <<Game, Save, Filler(8), <<>>>>)

\* One request; or a read in the same packet as a write, an unknown request or a
\* reply of another length.
MCPairs ==
  {q \in MCRequests : \/ IsWrite(q) /\ FileOf(q) = Save /\ ContentsOf(q) # <<>>
                      \/ q.op \in {"delete_user_file", "no_callback", "get_user_raw_data"}}
MCPackets ==
  {<<Request("keep_alive", <<>>)>>, <<Request("connect", <<>>)>>}
  \cup {<<Request("hello", <<k>>)>> : k \in Tickets}
  \cup {<<q>> : q \in MCRequests} \cup {<<q, Get>> : q \in MCPairs}

-----------------------------------------------------------------------------
CONSTANTS
  HostThreads, HostNamesAsked, LobbyNames, StunNames, Hash, Real,  \* of HostNames
  Attempts, Modes, MaxAsked  \* of Login

ASSUME HostsAssumption == "none" \notin HostThreads /\ "system" \notin LobbyNames \cup StunNames

VARIABLES
  part,  \* whose behaviour it is: of "names", of "logins", or the "lobby"'s
  servers_, stun_servers_, mutex, address, lookup, reached, overwritten,
  mode, auth_ticket, game, auth_in, auth_out, lobby_in, lobby_out,
  encryption_key_, decryption_key_, requested, opened, disturbed

\* "clash" has the hash of the auth server for its name, and "unlucky" the hash
\* of the lobby server for its address.
MCHash ==
  [n \in HostNamesAsked |->
     CASE n \in {"clash", "auth"} -> "h_auth" [] n = "lobby" -> "h_lobby"
       [] n = "stun" -> "h_stun" [] n = "unlucky" -> "h_unlucky" [] OTHER -> "h_unknown"]
MCReal == [n \in {"clash", "unlucky"} |-> IF n = "clash" THEN "r_clash" ELSE "h_lobby"]

Hosts == INSTANCE HostNames WITH
  Threads <- HostThreads, Names <- HostNamesAsked, Lobby <- LobbyNames, Stun <- StunNames,
  call <- lookup

hostsVars == <<servers_, stun_servers_, mutex, address, lookup, reached, overwritten>>

Logins == INSTANCE Login WITH MaxRequests <- MaxAsked, asked <- requested

loginsVars == <<mode, auth_ticket, game, auth_in, auth_out, lobby_in, lobby_out,
  encryption_key_, decryption_key_, requested, opened, disturbed>>

PartsInit ==
  /\ part \in {"names", "logins", "lobby"}
  /\ LobbyInit /\ Logins!Init /\ Hosts!Init
  /\ part # "logins" => mode = "steam"
  /\ part # "lobby" => sound

PartsNext ==
  \/ part = "names" /\ Hosts!Next /\ UNCHANGED <<part, lobbyVars, loginsVars>>
  \/ part = "logins" /\ Logins!Next /\ UNCHANGED <<part, lobbyVars, hostsVars>>
  \/ part = "lobby" /\ LobbyNext /\ UNCHANGED <<part, loginsVars, hostsVars>>

PartsSpec == PartsInit /\ [][PartsNext]_<<part, lobbyVars, loginsVars, hostsVars>>

-----------------------------------------------------------------------------
(* Properties.                                                             *)

\* A name leads to its own server although all threads share one answer, unless
\* another thread's came before it was read, and the system never gets to see
\* the made-up address of a server.
NamesResolve == Hosts!NamedServerReached /\ Hosts!EmulatedStayInside

\* A login fails only where another one got in its way, or where the server never
\* read its ticket; and whoever is logged in understands the lobby's answers.
LoginsSucceed == Logins!FailsOnlyDisturbed /\ Logins!LobbyUnderstood
=============================================================================
