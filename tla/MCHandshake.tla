----------------------------- MODULE MCHandshake -----------------------------
(* Servers and clients for Handshake.  Bytes 65, 66 stand for letters.    *)
EXTENDS Handshake

Open == [username |-> <<>>, passwd |-> <<>>]
ShortName == <<65, 66>>
LongName == <<65, 66, 65>>
Password == <<66>>
Guarded == [username |-> ShortName, passwd |-> Password]

With(server, cs) == {[server |-> server, client |-> c] : c \in cs}

Plain == [waits |-> FALSE, ver |-> SOCKS5, methods |-> <<0>>, auth |-> FALSE,
          uname |-> <<>>, passwd |-> <<>>, cmd |-> CONNECT, atyp |-> IPV4,
          addr |-> <<10, 0, 0, 1>>, port |-> <<0, 80>>]

\* Each client in both kinds: saying everything at once, waiting for replies.
BothKinds(cs) == {[c EXCEPT !.waits = w] : c \in cs, w \in BOOLEAN}

V6Addr == [i \in 1 .. NIPV6 |-> i]

\* Clients of a server without credentials: good ones for each kind of
\* address, with no, one and two methods, and one fault at a time.
IPClients ==
    {Plain,
     [Plain EXCEPT !.methods = <<>>],
     [Plain EXCEPT !.methods = <<0, 2>>],
     [Plain EXCEPT !.atyp = IPV6, !.addr = V6Addr],
     [Plain EXCEPT !.ver = 4],
     [Plain EXCEPT !.cmd = 2],
     [Plain EXCEPT !.atyp = 9],
     [Plain EXCEPT !.auth = TRUE, !.uname = ShortName, !.passwd = Password]}

DomainClients ==
    {[Plain EXCEPT !.atyp = DOMAIN_NAME, !.addr = a] :
        a \in {<<>>, <<65>>, <<65, 0, 66>>, <<66, 65, 66>>}}

OpenClients == BothKinds(IPClients \cup DomainClients)

\* Clients of a server with credentials: the right ones, near misses, the
\* longest and one more than the longest field, an empty field.
NamePairs == {<<ShortName, Password>>, <<ShortName, <<66, 0>>>>,
              <<ShortName, <<65>>>>, <<<<65>>, Password>>, <<LongName, Password>>,
              <<ShortName, LongName>>, <<ShortName, <<>>>>, <<<<>>, Password>>}

AuthClients == BothKinds(
    {[Plain EXCEPT !.auth = TRUE, !.uname = p[1], !.passwd = p[2]] : p \in NamePairs}
    \cup {Plain,
          [Plain EXCEPT !.auth = TRUE, !.uname = ShortName, !.passwd = Password,
                        !.atyp = DOMAIN_NAME, !.addr = <<65>>]})

AllSessions == With(Open, OpenClients) \cup With(Guarded, AuthClients)

\* What is found about logins, of the right client and of one with an empty
\* name, and about domain names.
LoginSession ==
    With(Guarded, {[Plain EXCEPT !.waits = TRUE, !.auth = TRUE,
                                 !.uname = n, !.passwd = Password] : n \in {ShortName, <<>>}})
DomainSession ==
    With(Open, {[Plain EXCEPT !.waits = TRUE, !.atyp = DOMAIN_NAME,
                              !.addr = <<66, 65, 66>>]})
=============================================================================
