---------------------------- MODULE MCNaiveClient ----------------------------
(***************************************************************************)
(* Model-checking instance of the life of a client, and of what its Start  *)
(* gives the engines: the socket dialers, with one call from dial to end,  *)
(* and the DNS server behind some of them.  A behaviour exercises one of   *)
(* the three; the others stay in an initial state, in which none of their  *)
(* fair actions is enabled.                                                *)
(***************************************************************************)
EXTENDS NaiveClient

CONSTANTS Platforms, NoMessage

VARIABLES
    part,
    platform, dial, plan, step, socketPc, open, twice, accept, worker, copies,
    registered, cancelled, peer,
    setting, transport, dnsConn, config, request, asked, reply, sent, dnsPc

Sockets == INSTANCE SocketDialers WITH pc <- socketPc
DNS     == INSTANCE DNSHijack WITH conn <- dnsConn, pc <- dnsPc

socketVars ==
    <<platform, dial, plan, step, socketPc, open, twice, accept, worker, copies,
      registered, cancelled, peer>>
dnsVars ==
    <<setting, transport, dnsConn, config, request, asked, reply, sent, dnsPc>>
all == <<part, vars, socketVars, dnsVars>>

SumInit ==
    /\ part \in {"client", "sockets", "dns"}
    /\ Init /\ Sockets!Init /\ DNS!Init
    /\ part # "sockets" => platform = "unix" /\ dial = Sockets!tcpDNS
    /\ part # "dns" => setting.serves = "browser" /\ transport = "packet"

SumNext ==
    /\ UNCHANGED part
    /\ \/ part = "client" /\ Next /\ UNCHANGED <<socketVars, dnsVars>>
       \/ part = "sockets" /\ Sockets!Next /\ UNCHANGED <<vars, dnsVars>>
       \/ part = "dns" /\ DNS!Next /\ UNCHANGED <<vars, socketVars>>

SumSpec ==
    /\ SumInit /\ [][SumNext]_all
    /\ Fairness /\ Sockets!Fairness /\ DNS!Fairness

\* Every variable of every part stays within its type.
TypesOK == TypeOK /\ Sockets!TypeOK /\ DNS!TypeOK

\* A dialer that fails leaves nothing open, one that succeeds nothing unowned.
NothingLeaks == Sockets!NothingLeaks

\* The DNS server answers as it is configured to.
Hijacked == DNS!Hijacked

\* Calls of the client return, its workers end, and so do DNS servers whose
\* socket is closed.
AllReturn == CallsReturn /\ Sockets!WorkersEnd /\ DNS!ServerEnds

=============================================================================
