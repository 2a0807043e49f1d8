------------------------------ MODULE Handshake ------------------------------
(***************************************************************************)
(* The three messages a client sends before its data flows: the greeting   *)
(* of src/server/socks/greeting, the user and password of .../auth and the *)
(* CONNECT of .../request, each taken by a parser that is fed one byte at  *)
(* a time, whatever the segments they come in.  The verdict on the second  *)
(* comes from the user table of Users, which administrators change         *)
(* meanwhile.                                                              *)
(*                                                                         *)
(* Bytes and address lengths are scaled down: MaxByte stands for 255.      *)
(***************************************************************************)
EXTENDS Users, Sequences

CONSTANTS
    MaxByte,      \* largest byte, and SOCKS_AUTH_MAX_LEN, SOCKS_REQUEST_FQDN_MAX
    Ipv4Len,      \* 4
    Ipv6Len,      \* 16
    MaxLen        \* bound: the longest list or string a client announces

ASSUME HandshakeAssumption ==
    /\ MaxByte \in Nat /\ MaxByte >= 5
    /\ Ipv6Len \in 1..MaxByte
    /\ Ipv4Len \in 1..Ipv6Len
    /\ MaxLen \in 1..MaxByte

Byte == 0..MaxByte

VARIABLES
    st,        \* state of the session
    parser,    \* the parser that was fed last
    from,      \* the state it belongs to
    message    \* history: what it was fed

wire == <<st, parser, from, message>>
hvars == <<vars, wire>>

Parsing == {"GREETING", "USERPASS", "REQUEST"}

Zeroes(n) == [i \in 0..(n - 1) |-> 0]

\* The string in the first n bytes of an array: it ends at a NUL.
CString(a, n) ==
    LET k == CHOOSE j \in 0..n :
                /\ j = n \/ a[j] = 0
                /\ \A i \in 0..(j - 1) : a[i] # 0
    IN  [i \in 1..k |-> a[i - 1]]

-----------------------------------------------------------------------------
(***************************************************************************)
(* Parsers.  status is what the last feed returned; an error leaves the    *)
(* rest as it is.                                                          *)
(***************************************************************************)
Expect(p, b, want, next, error) ==
    IF b = want THEN [p EXCEPT !.state = next] ELSE [p EXCEPT !.status = error]

socks_greeting_parser_init ==
    [state |-> "VER", left |-> 0, userpass |-> FALSE, noauth |-> FALSE,
     status |-> "NEED_MORE"]

\* Mutant (FollowsGrammar): the last method of the list is not looked at.
Offer_LastMissed(p, b) ==
    [p EXCEPT !.userpass = @ \/ (b = 2 /\ p.left > 1), !.noauth = @ \/ b = 0,
              !.left = @ - 1]

Offer(p, b) ==
    [p EXCEPT !.userpass = @ \/ b = 2, !.noauth = @ \/ b = 0, !.left = @ - 1]

socks_greeting_parser_feed(p, b) ==
    CASE p.state = "VER" -> Expect(p, b, 5, "NMETHODS", "REJECT")
      [] p.state = "NMETHODS" ->
           IF b = 0 THEN [p EXCEPT !.status = "REJECT"]
                    ELSE [p EXCEPT !.left = b, !.state = "METHODS"]
      [] p.state = "METHODS" ->
           LET q == Offer(p, b)
           IN  [q EXCEPT !.status = IF q.left > 0 THEN "NEED_MORE"
                                    ELSE IF q.userpass \/ q.noauth THEN "ACCEPT"
                                    ELSE "REJECT"]

socks_auth_parser_init ==
    [state |-> "VER", uname_len |-> 0, uname |-> Zeroes(MaxByte),
     passwd_len |-> 0, passwd |-> Zeroes(MaxByte), left |-> 0,
     status |-> "NEED_MORE"]

socks_auth_parser_feed(p, b) ==
    CASE p.state = "VER" -> Expect(p, b, 1, "ULEN", "REJECT")
      [] p.state = "ULEN" ->
           IF b = 0 THEN [p EXCEPT !.status = "REJECT"]
           ELSE [p EXCEPT !.uname_len = b, !.left = b, !.state = "UNAME"]
      [] p.state = "UNAME" ->
           [p EXCEPT !.uname[p.uname_len - p.left] = b, !.left = @ - 1,
                     !.state = IF p.left > 1 THEN "UNAME" ELSE "PLEN"]
      [] p.state = "PLEN" ->
           IF b = 0 THEN [p EXCEPT !.status = "REJECT"]
           ELSE [p EXCEPT !.passwd_len = b, !.left = b, !.state = "PASSWD"]
      [] p.state = "PASSWD" ->
           [p EXCEPT !.passwd[p.passwd_len - p.left] = b, !.left = @ - 1,
                     !.status = IF p.left > 1 THEN "NEED_MORE" ELSE "PARSED"]

\* addr is the address of the sockaddr that is filled in.
socks_request_parser_init ==
    [state |-> "VER", atyp |-> 0, left |-> 0, addr |-> Zeroes(Ipv6Len),
     fqdn_len |-> 0, fqdn |-> Zeroes(MaxByte + 1), port_hi |-> 0, port |-> 0,
     status |-> "NEED_MORE"]

AddrLen(atyp) == IF atyp = 1 THEN Ipv4Len ELSE Ipv6Len

\* Mutant (DestinationExact): the name starts one byte late.
StoreFqdn_Shifted(p, b) ==
    [p EXCEPT !.fqdn[(p.fqdn_len - p.left) + 1] = b, !.left = @ - 1]

\* The last byte brings the NUL behind it.
StoreFqdn(p, b) ==
    LET q == [p EXCEPT !.fqdn[p.fqdn_len - p.left] = b, !.left = @ - 1]
    IN  IF q.left > 0 THEN q ELSE [q EXCEPT !.fqdn[q.fqdn_len] = 0]

socks_request_parser_feed(p, b) ==
    CASE p.state = "VER" -> Expect(p, b, 5, "CMD", "REJECT")
      [] p.state = "CMD" -> Expect(p, b, 1, "RSV", "REJECT_CMD")
      [] p.state = "RSV" -> Expect(p, b, 0, "ATYP", "REJECT")
      [] p.state = "ATYP" ->
           CASE b \in {1, 4} ->
                  [p EXCEPT !.atyp = b, !.left = AddrLen(b), !.state = "ADDR"]
             [] b = 3 -> [p EXCEPT !.atyp = b, !.state = "FQDN_LEN"]
             [] OTHER -> [p EXCEPT !.atyp = b, !.status = "REJECT_ATYP"]
      [] p.state = "ADDR" ->
           [p EXCEPT !.addr[AddrLen(p.atyp) - p.left] = b, !.left = @ - 1,
                     !.state = IF p.left > 1 THEN "ADDR" ELSE "PORT_HI"]
      [] p.state = "FQDN_LEN" ->
           IF b = 0 THEN [p EXCEPT !.status = "REJECT"]
           ELSE [p EXCEPT !.fqdn_len = b, !.left = b, !.state = "FQDN"]
      [] p.state = "FQDN" ->
           LET q == StoreFqdn(p, b)
           IN  [q EXCEPT !.state = IF q.left > 0 THEN "FQDN" ELSE "PORT_HI"]
      [] p.state = "PORT_HI" -> [p EXCEPT !.port_hi = b, !.state = "PORT_LO"]
      [] p.state = "PORT_LO" ->
           [p EXCEPT !.port = p.port_hi * (MaxByte + 1) + b,
                     !.status = IF p.atyp = 3 THEN "PARSED_FQDN" ELSE "PARSED_ADDR"]

-----------------------------------------------------------------------------
(***************************************************************************)
(* The session                                                             *)
(***************************************************************************)
\* The lengths are at least 1 by now, and fit.
socks_auth_validate(p) ==
    store_user_validate(CString(p.uname, p.uname_len),
                        CString(p.passwd, p.passwd_len))

\* Each parser was initialised with the session and is fed in one state only.
Current ==
    IF from = st THEN parser
    ELSE CASE st = "GREETING" -> socks_greeting_parser_init
           [] st = "USERPASS" -> socks_auth_parser_init
           [] st = "REQUEST" -> socks_request_parser_init

\* DONE: a rejection is queued and the session closes when it is flushed.
socks_on_read_greeting(b) ==
    /\ st = "GREETING"
    /\ parser' = socks_greeting_parser_feed(Current, b)
    /\ st' = CASE parser'.status = "NEED_MORE" -> "GREETING"
               [] parser'.status = "REJECT" -> "DONE"
               [] OTHER -> IF parser'.userpass THEN "USERPASS" ELSE "REQUEST"

\* The table is consulted when the last byte comes.
socks_on_read_auth(b) ==
    /\ st = "USERPASS"
    /\ parser' = socks_auth_parser_feed(Current, b)
    /\ st' = CASE parser'.status = "NEED_MORE" -> "USERPASS"
               [] parser'.status = "REJECT" -> "DONE"
               [] OTHER -> IF socks_auth_validate(parser') THEN "REQUEST"
                                                           ELSE "DONE"

\* Deny rules and the resolver come behind this; see Acl and SocksSession.
socks_on_read_request(b) ==
    /\ st = "REQUEST"
    /\ parser' = socks_request_parser_feed(Current, b)
    /\ st' = CASE parser'.status = "NEED_MORE" -> "REQUEST"
               [] parser'.status = "PARSED_FQDN" -> "RESOLVING"
               [] parser'.status = "PARSED_ADDR" -> "CONNECTING"
               [] OTHER -> "DONE"

AtLength == Current.state \in {"NMETHODS", "ULEN", "PLEN", "FQDN_LEN"}

\* The loop of socks_client_read, one byte of it.
socks_client_read(b) ==
    /\ phase = "serving"
    /\ st \in Parsing
    /\ AtLength => b <= MaxLen
    /\ socks_on_read_greeting(b) \/ socks_on_read_auth(b) \/ socks_on_read_request(b)
    /\ from' = st
    /\ message' = IF from = st THEN Append(message, b) ELSE <<b>>
    /\ UNCHANGED vars

\* The session ended, or went on to its destination: the next one.
NextClient ==
    /\ st \notin Parsing
    /\ st' = "GREETING"
    /\ parser' = socks_greeting_parser_init
    /\ from' = "GREETING"
    /\ message' = <<>>
    /\ UNCHANGED vars

Administer == Next /\ UNCHANGED wire

HandshakeInit ==
    /\ Init
    /\ st = "GREETING"
    /\ parser = socks_greeting_parser_init
    /\ from = "GREETING"
    /\ message = <<>>

HandshakeNext ==
    \/ \E b \in Byte : socks_client_read(b)
    \/ NextClient
    \/ Administer

HandshakeSpec == HandshakeInit /\ [][HandshakeNext]_hvars

-----------------------------------------------------------------------------
(***************************************************************************)
(* The messages as a whole (RFC 1928 and 1929, as the headers of the three *)
(* parsers quote them)                                                     *)
(***************************************************************************)
UpToNul(s) ==
    LET k == CHOOSE j \in 0..Len(s) :
                /\ j = Len(s) \/ s[j + 1] = 0
                /\ \A i \in 1..j : s[i] # 0
    IN  SubSeq(s, 1, k)

\* VER | NMETHODS | METHODS
GreetingOutcome(m) ==
    LET methods == {m[i] : i \in 3..Len(m)}
    IN  CASE m[1] # 5 -> "DONE"
          [] m[1] = 5 /\ Len(m) = 1 -> "GREETING"
          [] m[1] = 5 /\ Len(m) > 1 ->
               IF m[2] = 0 THEN "DONE"
               ELSE IF Len(m) < 2 + m[2] THEN "GREETING"
               ELSE IF 2 \in methods THEN "USERPASS"
               ELSE IF 0 \in methods THEN "REQUEST" ELSE "DONE"

\* VER | ULEN | UNAME | PLEN | PASSWD.  ulen and plen are 0 before they come.
AuthOutcome(m) ==
    LET ulen == IF Len(m) > 1 THEN m[2] ELSE 0
        plen == IF Len(m) > 2 + ulen THEN m[3 + ulen] ELSE 0
        uname == UpToNul(SubSeq(m, 3, 2 + ulen))
        passwd == UpToNul(SubSeq(m, 4 + ulen, 3 + ulen + plen))
    IN  IF \/ m[1] # 1
           \/ Len(m) > 1 /\ ulen = 0
           \/ Len(m) > 2 + ulen /\ ulen > 0 /\ plen = 0
        THEN "DONE"
        ELSE IF plen = 0 \/ Len(m) < 3 + ulen + plen THEN "USERPASS"
        ELSE IF \E i \in Slots :
                   /\ users[i].used
                   /\ users[i].username = uname
                   /\ users[i].password = passwd
        THEN "REQUEST"
        ELSE "DONE"

\* VER | CMD | RSV | ATYP | DST.ADDR | DST.PORT
RequestOutcome(m) ==
    LET known == \A i \in 1..3 : i <= Len(m) => m[i] = <<5, 1, 0>>[i]
        alen == CASE m[4] = 1 -> Ipv4Len
                  [] m[4] = 4 -> Ipv6Len
                  [] m[4] = 3 -> IF Len(m) > 4 THEN 1 + m[5] ELSE 1
    IN  CASE ~known -> "DONE"
          [] known /\ Len(m) < 4 -> "REQUEST"
          [] known /\ Len(m) >= 4 ->
               IF m[4] \notin {1, 3, 4} \/ (m[4] = 3 /\ Len(m) > 4 /\ m[5] = 0)
               THEN "DONE"
               ELSE IF Len(m) < 6 + alen THEN "REQUEST"
               ELSE IF m[4] = 3 THEN "RESOLVING" ELSE "CONNECTING"

Outcome(state, m) ==
    CASE state = "GREETING" -> GreetingOutcome(m)
      [] state = "USERPASS" -> AuthOutcome(m)
      [] state = "REQUEST" -> RequestOutcome(m)

\* After every byte, in whatever pieces the bytes came, the session is where
\* the whole message says it should be: it waits exactly while the message is
\* incomplete, and a client gets past authentication exactly when its name and
\* password are those of a user of the table at that moment.
FollowsGrammar ==
    [][message' \notin {message, <<>>} => st' = Outcome(from', message')]_hvars

\* What the proxy connects to, or has resolved, is the address or the name,
\* and the port, that stand in the request.
DestinationExact ==
    LET n == Len(message)
    IN  st \in {"RESOLVING", "CONNECTING"} =>
          /\ parser.port = message[n - 1] * (MaxByte + 1) + message[n]
          /\ IF st = "RESOLVING"
             THEN CString(parser.fqdn, MaxByte + 1) = UpToNul(SubSeq(message, 6, n - 2))
             ELSE /\ message[4] = parser.atyp
                  /\ \A i \in 5..(n - 2) : parser.addr[i - 5] = message[i]
=============================================================================
