----------------------------- MODULE HostNames -----------------------------
(***************************************************************************)
(* How the game finds the emulated servers, module/dw.cpp: a server's      *)
(* address is the hash of its name. gethostbyname answers for these names  *)
(* with one static hostent, which all threads share; it fills it under a   *)
(* mutex, but the caller reads it after that. connect and sendto then know *)
(* the servers by their address. Dw models what happens on sockets later.  *)
(***************************************************************************)
EXTENDS Integers, FiniteSets

CONSTANTS
  Threads,   \* threads of the game
  Names,     \* names the game asks for
  Lobby,     \* names of service servers, among Names
  Stun,      \* names of STUN servers, among Names
  Hash,      \* jenkins_one_at_a_time of the names
  Real       \* the addresses that the system has for the other names

NoServer == "no server"
NoAddress == "no address"

VARIABLES
  servers_, stun_servers_, \* the names that are registered
  mutex,     \* who holds the one of get_host_by_name
  address,   \* the static in_addr
  call,      \* what each thread is doing
  reached,   \* history: what was reached last, and with what address
  overwritten \* history: threads whose answer another one overwrote

vars == <<servers_, stun_servers_, mutex, address, call, reached, overwritten>>

\* A thread's call, the name it asked for, what the lookups found, and the
\* address it has read: `own` says that the answer is the static one.
Idle == [at |-> "idle", name |-> "", found |-> NoServer, addr |-> NoAddress, own |-> FALSE]

NotYet == [op |-> "none", name |-> "", addr |-> NoAddress, server |-> "system",
           safe |-> FALSE, ended |-> FALSE]

\* register_server and register_stun_server, in the constructor of dw.
Init ==
  /\ servers_ = Lobby /\ stun_servers_ = Stun
  /\ mutex = "none" /\ address = NoAddress
  /\ call = [t \in Threads |-> Idle]
  /\ reached = NotYet /\ overwritten = {}

At(t, at) == call[t].at = at
Set(t, c) == call' = [call EXCEPT ![t] = c]

\* find_server_by_address and find_stun_server_by_address.
ByAddress(servers, addr) == {s \in servers : Hash[s] = addr}

\* find_server_by_name and find_stun_server_by_name: the name itself is not
\* compared, so any name with the hash of a server finds it.
ByName(servers, name) == ByAddress(servers, Hash[name])

-----------------------------------------------------------------------------
(* get_host_by_name.                                                       *)

\* Mutant of Lock: there is no mutex.
LockNothing(t, name) ==
  /\ At(t, "idle")
  /\ Set(t, [Idle EXCEPT !.at = "servers", !.name = name])
  /\ overwritten' = overwritten \ {t}
  /\ UNCHANGED <<servers_, stun_servers_, mutex, address, reached>>

Lock(t, name) ==
  /\ At(t, "idle") /\ mutex = "none"
  /\ mutex' = t
  /\ Set(t, [Idle EXCEPT !.at = "servers", !.name = name])
  /\ overwritten' = overwritten \ {t}
  /\ UNCHANGED <<servers_, stun_servers_, address, reached>>

\* Two lookups, each under the servers' mutex, and a STUN server's is the last.
FindServer(t) ==
  /\ At(t, "servers")
  /\ Set(t, [call[t] EXCEPT !.at = "stun", !.found =
       IF ByName(servers_, call[t].name) # {} THEN Hash[call[t].name] ELSE NoServer])
  /\ UNCHANGED <<servers_, stun_servers_, mutex, address, reached, overwritten>>

FindStun(t) ==
  /\ At(t, "stun")
  /\ Set(t, [call[t] EXCEPT !.at = "fill", !.found =
       IF ByName(stun_servers_, call[t].name) # {} THEN Hash[call[t].name] ELSE @])
  /\ UNCHANGED <<servers_, stun_servers_, mutex, address, reached, overwritten>>

\* The static address is written; threads that have not read theirs lose it.
Fill(t) ==
  /\ At(t, "fill") /\ call[t].found # NoServer
  /\ address' = call[t].found
  /\ overwritten' = overwritten \cup {u \in Threads \ {t} : At(u, "returned") /\ call[u].own}
  /\ Set(t, [call[t] EXCEPT !.at = "filled", !.own = TRUE])
  /\ UNCHANGED <<servers_, stun_servers_, mutex, reached>>

\* gethostbyname: the system's answer is one of the thread's own.
AskSystem(t) ==
  /\ At(t, "fill") /\ call[t].found = NoServer
  /\ Set(t, [call[t] EXCEPT !.at = "filled",
       !.addr = IF call[t].name \in DOMAIN Real THEN Real[call[t].name] ELSE NoAddress])
  /\ UNCHANGED <<servers_, stun_servers_, mutex, address, reached, overwritten>>

\* The mutex is released, and the caller has a pointer to the answer.
Unlock(t) ==
  /\ At(t, "filled")
  /\ mutex' = "none"
  /\ Set(t, [call[t] EXCEPT !.at = "returned"])
  /\ UNCHANGED <<servers_, stun_servers_, address, reached, overwritten>>

\* The game reads the address.
ReadAddress(t) ==
  /\ At(t, "returned")
  /\ Set(t, [call[t] EXCEPT !.at = "resolved", !.addr = IF call[t].own THEN address ELSE @])
  /\ UNCHANGED <<servers_, stun_servers_, mutex, address, reached, overwritten>>

-----------------------------------------------------------------------------
(* The game uses the address.                                              *)

Uses(t, op, server) ==
  /\ At(t, "resolved") /\ call[t].addr # NoAddress
  /\ reached' =
       [op |-> op, name |-> call[t].name, addr |-> call[t].addr, server |-> server,
         safe |-> t \notin overwritten, ended |-> servers_ = {}]
  /\ Set(t, Idle)
  /\ UNCHANGED <<servers_, stun_servers_, mutex, address, overwritten>>

Server(servers) == IF servers = {} THEN "system" ELSE CHOOSE s \in servers : TRUE

\* Mutant of Connect: the test of the address' length is the wrong way round.
ConnectElsewhere(t) == Uses(t, "connect", "system")

\* connect: a service server is linked, everything else is the system's.
Connect(t) == Uses(t, "connect", Server(ByAddress(servers_, call[t].addr)))

\* sendto, likewise.
SendTo(t) == Uses(t, "sendto", Server(ByAddress(stun_servers_, call[t].addr)))

\* A name the system does not know either.
GiveUp(t) ==
  /\ At(t, "resolved") /\ call[t].addr = NoAddress
  /\ Set(t, Idle)
  /\ UNCHANGED <<servers_, stun_servers_, mutex, address, reached, overwritten>>

\* pre_destroy, on some other thread.
PreDestroy ==
  /\ servers_ # {}
  /\ servers_' = {} /\ stun_servers_' = {}
  /\ UNCHANGED <<mutex, address, call, reached, overwritten>>

Next ==
  \/ \E t \in Threads :
       \/ \E name \in Names : Lock(t, name)
       \/ FindServer(t) \/ FindStun(t) \/ Fill(t) \/ AskSystem(t) \/ Unlock(t)
       \/ ReadAddress(t) \/ Connect(t) \/ SendTo(t) \/ GiveUp(t)
  \/ PreDestroy

Spec == Init /\ [][Next]_vars

-----------------------------------------------------------------------------
(* Properties.                                                             *)

\* The server a thread reaches is the one of the name it asked for, or the one
\* whose address the system gave it for that name, unless another thread's
\* answer was written before it had read its own.
NamedServerReached ==
  reached.safe /\ reached.server # "system" =>
    \/ Hash[reached.server] = Hash[reached.name]
    \/ reached.name \in DOMAIN Real /\ Hash[reached.server] = Real[reached.name]

\* The address of an emulated server is of no use to the system: it gets one
\* only in a call of the other kind, after the servers are gone, or from a thread
\* whose answer was overwritten.
EmulatedStayInside ==
  reached.server = "system" /\ reached.safe /\ ~reached.ended =>
    reached.addr \notin {Hash[s] : s \in IF reached.op = "connect" THEN Lobby ELSE Stun}
=============================================================================
