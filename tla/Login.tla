-------------------------------- MODULE Login --------------------------------
(***************************************************************************)
(* How the game comes by the key that it shares with the lobby server. The *)
(* game hides a key in the ticket it has Steam make for it                 *)
(* (steam/interfaces/user.cpp), or in one of its own if it is a dedicated  *)
(* server. The authentication service (game/demonware/services) finds the  *)
(* key in the ticket, and encrypts with it the session key that the game   *)
(* is to use; it sends the same session key in the clear, and with that    *)
(* the game says hello to the lobby server. Both servers are emulated, and *)
(* each has one queue in and one queue out for all connections.            *)
(*                                                                         *)
(* Ciphers are terms: [text, iv, key], which only this iv and key undo.    *)
(* External: the game, and what it does with the part that bdDediRSAAuth   *)
(* encrypts for it.                                                        *)
(***************************************************************************)
EXTENDS Integers, Sequences

CONSTANTS
  Attempts,   \* logins the game makes, on connections of their own
  Modes,      \* "steam", "dedi", "rsa": what authentication the game asks for
  MaxRequests \* bound: requests to the lobby server

VARIABLES
  mode,         \* one for the whole program
  auth_ticket,  \* the key in the one ticket that the Steam stub keeps
  game,         \* where each attempt is, and the ticket and the session key it has
  auth_in, auth_out,     \* the queues of the authentication server
  lobby_in, lobby_out,   \* and of the lobby server
  encryption_key_, decryption_key_,
  asked,        \* history: requests to the lobby server
  opened,       \* history: the game could decrypt every reply of the lobby
  disturbed     \* history: attempts that another one got in the way of, or
                \* whose ticket was not read

vars == <<mode, auth_ticket, game, auth_in, auth_out, lobby_in, lobby_out,
          encryption_key_, decryption_key_, asked, opened, disturbed>>

Nothing == <<"nothing", "">>
Stack == <<"stack", "">>  \* what an array holds before it is written
Garbage == <<"garbage", "">>
Asking == <<"request", "">>

\* The keys and seeds that an attempt makes up.
KeyOf(a) == <<"key", a>>
SeedOf(a) == <<"seed", a>>

\* tiger, of the name of the game or of the server's CD key.
Tiger(data) == <<"tiger", data>>
Session == Tiger(IF mode = "steam" THEN "Open-IW5" ELSE "SERVER_CD_KEY")

Encrypted(text, iv, key) == [text |-> text, iv |-> iv, key |-> key]
Decrypted(cipher, iv, key) ==
  IF cipher.iv = iv /\ cipher.key = key THEN cipher.text ELSE Garbage

Init ==
  /\ mode \in Modes
  /\ auth_ticket = Nothing
  /\ game = [a \in Attempts |-> [at |-> "idle", ticket |-> Nothing, session |-> Nothing]]
  /\ auth_in = << >> /\ auth_out = << >> /\ lobby_in = << >> /\ lobby_out = << >>
  /\ encryption_key_ = Nothing /\ decryption_key_ = Nothing
  /\ asked = 0 /\ opened = TRUE /\ disturbed = {}

At(a, at) == game[a].at = at
AuthUnchanged == UNCHANGED <<auth_in, auth_out>>
LobbyUnchanged ==
  UNCHANGED <<lobby_in, lobby_out, encryption_key_, decryption_key_, asked, opened>>

-----------------------------------------------------------------------------
(* The ticket.                                                             *)

\* RequestEncryptedAppTicket: the stub keeps one ticket, 32 bytes and then the
\* game's data. An attempt that has not fetched its own gets this one.
RequestTicket(a) ==
  /\ mode = "steam" /\ At(a, "idle")
  /\ auth_ticket' = KeyOf(a)
  /\ game' = [game EXCEPT ![a].at = "requested"]
  /\ disturbed' = disturbed \cup {b \in Attempts \ {a} : At(b, "requested")}
  /\ UNCHANGED mode /\ AuthUnchanged /\ LobbyUnchanged

\* GetEncryptedAppTicket, into a buffer that is large enough.
GetTicket(a) ==
  /\ At(a, "requested")
  /\ game' = [game EXCEPT ![a].at = "ready", ![a].ticket = auth_ticket]
  /\ UNCHANGED <<mode, auth_ticket, disturbed>> /\ AuthUnchanged /\ LobbyUnchanged

OwnTicket(a) ==
  /\ mode # "steam" /\ At(a, "idle")
  /\ game' = [game EXCEPT ![a].at = "ready", ![a].ticket = KeyOf(a)]
  /\ UNCHANGED <<mode, auth_ticket, disturbed>> /\ AuthUnchanged /\ LobbyUnchanged

-----------------------------------------------------------------------------
(* Authentication.                                                         *)

\* Two attempts at the same time may read each other's reply.
AskAuth(a) ==
  LET others == {b \in Attempts \ {a} : At(b, "asked")} IN
  /\ At(a, "ready")
  /\ auth_in' = Append(auth_in, [seed |-> SeedOf(a), ticket |-> game[a].ticket, by |-> a])
  /\ game' = [game EXCEPT ![a].at = "asked"]
  /\ disturbed' = disturbed \cup others \cup (IF others = {} THEN {} ELSE {a})
  /\ UNCHANGED <<mode, auth_ticket, auth_out>> /\ LobbyUnchanged

\* Mutant of ReadTicket: the key is taken from the first bytes of the ticket.
ReadTicketFromStart(ticket) == {<<"header", "">>}

\* The bytes 32 to 55 of the ticket. For dedicated servers its size is never
\* read from the request: how much of the ticket is, only the stack knows.
ReadTicket(ticket) == IF mode = "steam" THEN {ticket} ELSE {ticket, Stack}

\* call_service: the session key, encrypted for the game and in the clear; with
\* the RSA key of the game a third part follows.
AuthReply(seed, enc_key) ==
  [ticket |-> Encrypted(Session, Tiger(seed), enc_key), lsg_ticket |-> Session, rsa |-> mode = "rsa"]

Authenticate ==
  /\ auth_in # << >>
  /\ \E enc_key \in ReadTicket(Head(auth_in).ticket) :
       /\ auth_out' = Append(auth_out, AuthReply(Head(auth_in).seed, enc_key))
       /\ disturbed' = disturbed \cup (IF enc_key = Stack THEN {Head(auth_in).by} ELSE {})
  /\ auth_in' = Tail(auth_in)
  /\ UNCHANGED <<mode, auth_ticket, game>> /\ LobbyUnchanged

\* The game reads the next reply there is on the server.
ReadAuth(a) ==
  LET reply == Head(auth_out)
      session == Decrypted(reply.ticket, Tiger(SeedOf(a)), KeyOf(a))
  IN /\ At(a, "asked") /\ auth_out # << >>
     /\ game' = [game EXCEPT ![a] =
          IF session = Garbage THEN [@ EXCEPT !.at = "failed"]
          ELSE [at |-> "authorized", ticket |-> reply.lsg_ticket, session |-> session]]
     /\ auth_out' = Tail(auth_out)
     /\ UNCHANGED <<mode, auth_ticket, auth_in, disturbed>> /\ LobbyUnchanged

-----------------------------------------------------------------------------
(* The lobby server.                                                       *)

SayHello(a) ==
  /\ At(a, "authorized")
  /\ lobby_in' = Append(lobby_in, [op |-> "hello", ticket |-> game[a].ticket])
  /\ game' = [game EXCEPT ![a].at = "online"]
  /\ UNCHANGED <<mode, auth_ticket, lobby_out, encryption_key_, decryption_key_, asked, opened,
                 disturbed>> /\ AuthUnchanged

AskLobby(a) ==
  /\ At(a, "online") /\ asked < MaxRequests
  /\ asked' = asked + 1
  /\ lobby_in' = Append(lobby_in,
       [op |-> "request", cipher |-> Encrypted(Asking, Tiger(<<"iv", asked>>), game[a].session),
        iv |-> asked])
  /\ UNCHANGED <<mode, auth_ticket, game, lobby_out, encryption_key_, decryption_key_, opened,
                 disturbed>> /\ AuthUnchanged

\* Mutant of Hello: only the key for what arrives is set.
HelloOneKey ==
  /\ lobby_in # << >> /\ Head(lobby_in).op = "hello"
  /\ decryption_key_' = Head(lobby_in).ticket
  /\ lobby_in' = Tail(lobby_in)
  /\ UNCHANGED <<mode, auth_ticket, game, lobby_out, encryption_key_, asked, opened, disturbed>>
  /\ AuthUnchanged

\* bdLSGHello sets both keys of the program.
Hello ==
  /\ lobby_in # << >> /\ Head(lobby_in).op = "hello"
  /\ encryption_key_' = Head(lobby_in).ticket
  /\ decryption_key_' = Head(lobby_in).ticket
  /\ lobby_in' = Tail(lobby_in)
  /\ UNCHANGED <<mode, auth_ticket, game, lobby_out, asked, opened, disturbed>> /\ AuthUnchanged

\* parse_packet decrypts the request with the hash of its iv, and the reply
\* is encrypted the same way, with an iv of its own.
Serve ==
  LET request == Head(lobby_in) IN
  /\ lobby_in # << >> /\ request.op = "request"
  /\ lobby_out' = Append(lobby_out,
       [cipher |-> Encrypted(Decrypted(request.cipher, Tiger(<<"iv", request.iv>>), decryption_key_),
                             Tiger("seed"), encryption_key_),
        iv |-> "seed"])
  /\ lobby_in' = Tail(lobby_in)
  /\ UNCHANGED <<mode, auth_ticket, game, encryption_key_, decryption_key_, asked, opened,
                 disturbed>> /\ AuthUnchanged

ReadLobby(a) ==
  LET reply == Head(lobby_out) IN
  /\ At(a, "online") /\ lobby_out # << >>
  /\ opened' = (opened /\ Decrypted(reply.cipher, Tiger(reply.iv), game[a].session) = Asking)
  /\ lobby_out' = Tail(lobby_out)
  /\ UNCHANGED <<mode, auth_ticket, game, lobby_in, encryption_key_, decryption_key_, asked,
                 disturbed>> /\ AuthUnchanged

-----------------------------------------------------------------------------
Next ==
  \/ \E a \in Attempts :
       \/ RequestTicket(a) \/ GetTicket(a) \/ OwnTicket(a)
       \/ AskAuth(a) \/ ReadAuth(a)
       \/ SayHello(a) \/ AskLobby(a) \/ ReadLobby(a)
  \/ Authenticate \/ Hello \/ Serve

Spec == Init /\ [][Next]_vars

-----------------------------------------------------------------------------
(* Properties.                                                             *)

TypeOK ==
  /\ mode \in Modes
  /\ \A a \in Attempts :
       game[a].at \in {"idle", "requested", "ready", "asked", "failed", "authorized", "online"}
  /\ asked \in 0..MaxRequests /\ opened \in BOOLEAN /\ disturbed \subseteq Attempts

\* A login fails only where another one came between - it had Steam make its
\* ticket before this one was fetched, or was waiting for the same server -
\* and, for dedicated servers, where the ticket was not read.
FailsOnlyDisturbed == \A a \in Attempts : At(a, "failed") => a \in disturbed

\* Whoever is logged in can read what the lobby answers, and the lobby could
\* read what was asked, also when one connection says hello while others talk.
LobbyUnderstood == opened
=============================================================================
