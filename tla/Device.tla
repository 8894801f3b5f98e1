------------------------------- MODULE Device -------------------------------
(***************************************************************************)
(* The device: its key, peer tables, listening and connected sockets, the  *)
(* configuration protocol that changes them and the event handlers that    *)
(* use them (device/mod.rs, peer.rs, api.rs).  A set request holds the     *)
(* device's write lock from its first line to its last (see DevLock), so   *)
(* handlers run only between requests; they run under the read lock and    *)
(* each change below is made under the lock of one peer.                   *)
(* A Peer is shared: the tables and the handlers of its connected sockets  *)
(* hold it, so it lives on after it leaves the tables.  Its tunnel is      *)
(* reduced to the key and the limiter it uses (see TunnelPair for more).   *)
(***************************************************************************)
EXTENDS AllowedIps, IndexLfsr, Integers, Sequences

CONSTANTS
  PubKeys, PrivKeys, Addrs,
  LineSets,         \* the allowed_ip lines that a section may have
  Seeds,            \* what random_index may return
  NoKey, NoAddr,
  ConnectOutcomes,  \* whether the kernel may create and bind a connected socket
  MaxPeers,         \* bound: peers made
  MaxPort,          \* bound: successful openings of the listening sockets
  MaxConns,         \* bound: connected sockets at one time
  MaxLimiters       \* bound: changes of the private key

ASSUME DeviceAssumption ==
  /\ {MaxPeers, MaxPort, MaxConns, MaxLimiters} \subseteq Nat \ {0}
  /\ ConnectOutcomes \subseteq BOOLEAN
  /\ NoKey \notin PrivKeys
  /\ NoAddr \notin Addrs
  /\ LineSets \subseteq SUBSET AllowedIP
  /\ Seeds \subseteq random_index

VARIABLES
  key, limiter,     \* key_pair, and the number of limiters made (0: none)
  fwmark,           \* 0 is None
  can_mark,         \* the process may set SO_MARK
  listen,           \* udp4 and udp6, named by their opening; 0 is None
  listen_port,      \* the port, named by the opening that bound it
  udp_handlers,     \* openings whose register_udp_handler events are registered
  peers, peers_by_idx, peers_by_ip,  \* a peer is its position in obj; 0: no entry
  next_index,       \* the IndexLfsr: initial, lfsr, mask
  drawn,            \* history: what lfsr was at each call of next
  obj,              \* every Peer made
  conns,            \* connected sockets whose handlers are registered
  api,              \* the set request being read
  aborted,          \* which panic ended the process, "no" for none
  removed           \* history: peers taken out by remove_peer

config == <<key, limiter, fwmark, can_mark>>
socks == <<listen, listen_port, udp_handlers>>
tables == <<peers, peers_by_idx, peers_by_ip, next_index, drawn, removed>>
vars == <<config, socks, tables, obj, conns, api, aborted>>

Peer == 1 .. MaxPeers
Indices == Word
NoPeer == 0

(* Where the reader of a request is: in api_set, in api_set_peer after a   *)
(* public_key line, or between requests; and the endpoint that             *)
(* api_set_peer has kept from earlier sections.                            *)
Request(mode, endpoint) == [mode |-> mode, endpoint |-> endpoint]
NoRequest == Request("idle", NoAddr)

(* What the lines of a peer's section say.  The prefixes of a section that *)
(* removes its peer are not used.                                          *)
Section ==
  [pub : PubKeys, remove : {FALSE}, endpoint : Addrs \cup {NoAddr}, ips : LineSets]
    \cup [pub : PubKeys, remove : {TRUE}, endpoint : Addrs \cup {NoAddr}, ips : {{}}]

Configured == {peers[k] : k \in PubKeys} \ {NoPeer}

(* The state after DeviceHandle::new, which listens on a random port.      *)
Init ==
  /\ key = NoKey /\ limiter = 0
  /\ fwmark = 0 /\ can_mark \in BOOLEAN
  /\ listen = 1 /\ listen_port = 1 /\ udp_handlers = {1}
  /\ peers = [k \in PubKeys |-> NoPeer]
  /\ peers_by_idx = [i \in Indices |-> NoPeer]
  /\ peers_by_ip = new
  /\ next_index \in {default(s, m) : s, m \in Seeds}
  /\ drawn = {}
  /\ obj = <<>> /\ conns = {}
  /\ api = NoRequest
  /\ aborted = "no"
  /\ removed = {}

-----------------------------------------------------------------------------
(* Peer: operations on the peers ps of d = [obj, conns] *)

D == [obj |-> obj, conns |-> conns]

shutdown_endpoint(d, ps) ==
  [obj |-> [p \in DOMAIN d.obj |->
              IF p \in ps THEN [d.obj[p] EXCEPT !.conn = 0] ELSE d.obj[p]],
   conns |-> {[c EXCEPT !.open = c.open /\ ~(c.peer \in ps /\ d.obj[c.peer].conn = c.id)]
                : c \in d.conns}]

(* Mutant: the connected socket is not closed. *)
set_endpoint_KeepsConn(d, p, addr) == [d EXCEPT !.obj[p].endpoint = addr]

(* A new address closes the connected socket.                              *)
set_endpoint(d, p, addr) ==
  IF d.obj[p].endpoint = addr
    THEN d
    ELSE [shutdown_endpoint(d, {p}) EXCEPT !.obj[p].endpoint = addr]

FreeConns(d) == (1 .. MaxConns) \ {c.id : c \in d.conns}

(* A socket connected to the endpoint, under a name that none has.         *)
connect_endpoint(d, p) == [d EXCEPT !.obj[p].conn = CHOOSE i \in FreeConns(d) : TRUE]

(* The event of that socket, bound to the device's port and marked.  What  *)
(* its handler does with a datagram concerns the peer's tunnel alone.      *)
register_conn_handler(d, p) ==
  [d EXCEPT !.conns = @ \cup {[id |-> d.obj[p].conn, peer |-> p, addr |-> d.obj[p].endpoint,
                               port |-> listen_port, mark |-> fwmark, open |-> TRUE]}]

-----------------------------------------------------------------------------
(* The configuration protocol: one action per line of a request, or per    *)
(* section of a peer (its lines only fill local variables)                 *)

Reading(mode) == aborted = "no" /\ api.mode = mode

(* "set=1": api_set holds the write lock from here on. *)
ApiSet ==
  /\ Reading("idle")
  /\ api' = Request("set", NoAddr)
  /\ UNCHANGED <<config, socks, tables, obj, conns, aborted>>

(* A line that does not parse, or a read error: nothing is undone, and     *)
(* the section being read is not committed.                                *)
ApiError ==
  /\ aborted = "no" /\ api.mode # "idle"
  /\ api' = NoRequest
  /\ UNCHANGED <<config, socks, tables, obj, conns, aborted>>

(* Mutant: the peers keep the old key. *)
set_key_NoPeers(k) ==
  /\ key' = k
  /\ limiter' = limiter + 1
  /\ UNCHANGED obj

(* The key already set changes nothing.                                    *)
set_key(k) ==
  IF k = key
    THEN UNCHANGED <<key, limiter, obj>>
    ELSE /\ key' = k
         /\ limiter' = limiter + 1
         /\ obj' = [p \in DOMAIN obj |->
                      IF p \in Configured
                        THEN [obj[p] EXCEPT !.static = k, !.limiter = limiter + 1]
                        ELSE obj[p]]

ApiPrivateKey(k) ==
  /\ Reading("set")
  /\ limiter < MaxLimiters
  /\ set_key(k)
  /\ UNCHANGED <<fwmark, can_mark, socks, tables, conns, api, aborted>>

(* clear_event_by_fd is given the descriptors of udp4 and udp6, under      *)
(* which no event was registered (the handlers own clones of them).        *)
open_listen_socket(bound) ==
  LET d == shutdown_endpoint(D, Configured)
  IN  /\ obj' = d.obj /\ conns' = d.conns
      /\ IF bound
           THEN /\ listen' = listen_port + 1
                /\ listen_port' = listen_port + 1
                /\ udp_handlers' = udp_handlers \cup {listen_port + 1}
           ELSE /\ listen' = 0
                /\ UNCHANGED <<listen_port, udp_handlers>>

(* A port in use ends the request with EADDRINUSE.                         *)
ApiListenPort(bound) ==
  /\ Reading("set")
  /\ listen_port < MaxPort
  /\ open_listen_socket(bound)
  /\ api' = IF bound THEN api ELSE NoRequest
  /\ UNCHANGED <<config, tables, aborted>>

(* The mark is recorded first; without the privilege the first set_mark    *)
(* fails and ends the request, with no socket marked - unless there is     *)
(* none to mark.                                                           *)
set_fwmark(mark) ==
  LET marked == {obj[p].conn : p \in Configured} \ {0}
      refused == ~can_mark /\ (listen # 0 \/ marked # {})
  IN  /\ fwmark' = mark
      /\ conns' = IF ~can_mark THEN conns
                  ELSE {IF c.id \in marked THEN [c EXCEPT !.mark = mark] ELSE c : c \in conns}
      /\ api' = IF refused THEN NoRequest ELSE api

ApiFwmark(mark) ==
  /\ Reading("set")
  /\ set_fwmark(mark)
  /\ UNCHANGED <<key, limiter, can_mark, socks, tables, obj, aborted>>

(* "replace_peers=true".  The sockets connected to the peers stay open.    *)
clear_peers ==
  /\ Reading("set")
  /\ peers' = [k \in PubKeys |-> NoPeer]
  /\ peers_by_idx' = [i \in Indices |-> NoPeer]
  /\ peers_by_ip' = new
  /\ UNCHANGED <<config, socks, next_index, drawn, removed, obj, conns, api, aborted>>

(* The first public_key line: api_set hands over to api_set_peer.          *)
ApiPublicKey ==
  /\ Reading("set")
  /\ api' = Request("peer", NoAddr)
  /\ UNCHANGED <<config, socks, tables, obj, conns, aborted>>

(* Mutant: the index stays in its table. *)
remove_peer_KeepsIdx(k) ==
  LET p == peers[k]
      d == shutdown_endpoint(D, {p})
  IN  /\ peers' = [peers EXCEPT ![k] = NoPeer]
      /\ peers_by_ip' = remove(peers_by_ip, p)
      /\ removed' = removed \cup ({p} \ {NoPeer})
      /\ obj' = d.obj /\ conns' = d.conns
      /\ UNCHANGED <<next_index, drawn, peers_by_idx>>

(* Mutant: the connected socket is not closed. *)
remove_peer_KeepsConn(k) ==
  LET p == peers[k]
  IN  /\ peers' = [peers EXCEPT ![k] = NoPeer]
      /\ peers_by_idx' = [i \in Indices |-> IF peers_by_idx[i] = p THEN NoPeer ELSE peers_by_idx[i]]
      /\ peers_by_ip' = remove(peers_by_ip, p)
      /\ removed' = removed \cup ({p} \ {NoPeer})
      /\ UNCHANGED <<next_index, drawn, obj, conns>>

remove_peer(k) ==
  LET p == peers[k]
      d == shutdown_endpoint(D, {p})
  IN  IF p = NoPeer
        THEN UNCHANGED <<tables, obj, conns>>
        ELSE /\ peers' = [peers EXCEPT ![k] = NoPeer]
             /\ peers_by_idx' = [peers_by_idx EXCEPT ![obj[p].index] = NoPeer]
             /\ peers_by_ip' = remove(peers_by_ip, p)
             /\ removed' = removed \cup {p}
             /\ obj' = d.obj /\ conns' = d.conns
             /\ UNCHANGED <<next_index, drawn>>

NewPeer(s) ==
  [pub |-> s.pub, index |-> index(next_index.lfsr, next_index.mask),
   endpoint |-> s.endpoint, conn |-> 0,
   allowed |-> from_iter(s.ips), static |-> key, limiter |-> 0]

(* IndexLfsr::next *)
DrawIndex ==
  /\ next_index' = [next_index EXCEPT !.lfsr = shift(@)]
  /\ drawn' = drawn \cup {next_index.lfsr}

(* Mutant: no early return without a private key. *)
add_peer_AnyKey(s) ==
  LET p == Len(obj) + 1
  IN  /\ obj' = Append(obj, NewPeer(s))
      /\ peers' = [peers EXCEPT ![s.pub] = p]
      /\ peers_by_idx' = [peers_by_idx EXCEPT ![NewPeer(s).index] = p]
      /\ peers_by_ip' = insert(peers_by_ip, s.ips, p)

(* The part of update_peer that adds, once an index is drawn.  Without a   *)
(* private key the peer is not added.  A prefix moves to the peer that     *)
(* names it last.                                                          *)
add_peer(s) ==
  LET p == Len(obj) + 1
  IN  IF key = NoKey
        THEN UNCHANGED <<obj, peers, peers_by_idx, peers_by_ip>>
        ELSE /\ obj' = Append(obj, NewPeer(s))
             /\ peers' = [peers EXCEPT ![s.pub] = p]
             /\ peers_by_idx' = [peers_by_idx EXCEPT ![NewPeer(s).index] = p]
             /\ peers_by_ip' = insert(peers_by_ip, s.ips, p)

(* A peer that exists already is an assertion failure, and so is an index  *)
(* generator that has come round.                                          *)
update_peer(s) ==
  IF s.remove
    THEN remove_peer(s.pub) /\ UNCHANGED aborted
    ELSE IF peers[s.pub] # NoPeer
      THEN /\ aborted' = "Modifying existing peers is not yet supported"
           /\ UNCHANGED <<tables, obj, conns>>
      ELSE IF Exhausted(next_index.lfsr, next_index.initial)
        THEN /\ aborted' = "Too many peers created"
             /\ UNCHANGED <<tables, obj, conns>>
        ELSE /\ Len(obj) < MaxPeers
             /\ DrawIndex
             /\ add_peer(s)
             /\ UNCHANGED <<removed, conns, aborted>>

(* An empty line, or the end of the stream, in api_set.                    *)
ApiEnd ==
  /\ Reading("set")
  /\ api' = NoRequest
  /\ UNCHANGED <<config, socks, tables, obj, conns, aborted>>

(* The section of a peer, up to the line that commits it: the next         *)
(* public_key, or an empty line, the end of the stream or a public_key     *)
(* that is no key, which end the request.  Of the section only allowed_ips *)
(* is cleared: without a line of its own the next section has the same     *)
(* endpoint (and the same remove, which a line may also have set).         *)
(* preshared_key, persistent_keepalive_interval and replace_allowed_ips    *)
(* reach the tunnel alone, or nothing.                                     *)
api_set_peer(s, last) ==
  /\ Reading("peer")
  /\ s.endpoint \in Addrs \cup {api.endpoint}
  /\ update_peer(s)
  /\ api' = IF last THEN NoRequest ELSE Request("peer", s.endpoint)
  /\ UNCHANGED <<config, socks>>

-----------------------------------------------------------------------------
(* Event handlers *)

(* The peers that register_udp_handler may find for a datagram: by the     *)
(* static key of an initiation, or by the receiver index.                  *)
Routed == Configured \cup ({peers_by_idx[i] : i \in Indices} \ {NoPeer})

(* A datagram on a listening socket, whichever.  One that verify_packet or the tunnel *)
(* refuses changes nothing here.                                           *)
UdpPacket(p, addr, connected) ==
  LET d == set_endpoint(D, p, addr)
      e == IF connected THEN register_conn_handler(connect_endpoint(d, p), p) ELSE d
  IN  /\ Reading("idle") /\ udp_handlers # {} /\ key # NoKey
      /\ p \in Routed
      /\ connected => /\ d.obj[p].conn = 0
                      /\ FreeConns(d) # {}
                      /\ fwmark = 0 \/ can_mark
      /\ obj' = e.obj /\ conns' = e.conns
      /\ UNCHANGED <<config, socks, tables, api, aborted>>

(* expect("Key not set") in the same handler. *)
UdpNoKey ==
  /\ Reading("idle") /\ udp_handlers # {} /\ key = NoKey
  /\ aborted' = "Key not set"
  /\ UNCHANGED <<config, socks, tables, obj, conns, api>>

(* The peer whose tunnel register_iface_handler hands a packet to.         *)
Route(a) == find(peers_by_ip, a)

is_allowed_ip(p, a) == find(obj[p].allowed, a) # 0

(* expect("Not connected") in register_iface_handler.                      *)
IfaceNotConnected ==
  /\ Reading("idle") /\ listen = 0
  /\ aborted' = "Not connected"
  /\ UNCHANGED <<config, socks, tables, obj, conns, api>>

(* update_timers of a peer reports ConnectionExpired.                      *)
TimerExpired(p) ==
  LET d == shutdown_endpoint(D, {p})
  IN  /\ Reading("idle") /\ listen # 0
      /\ p \in Configured /\ obj[p].endpoint # NoAddr
      /\ obj' = d.obj /\ conns' = d.conns
      /\ UNCHANGED <<config, socks, tables, api, aborted>>

(* A socket that was shut down reports the end of file, and the worker     *)
(* cancels its event, which frees the handler.                             *)
ConnEof(c) ==
  /\ Reading("idle") /\ c \in conns /\ ~c.open
  /\ conns' = conns \ {c}
  /\ UNCHANGED <<config, socks, tables, obj, api, aborted>>

Api ==
  \/ ApiSet \/ ApiError \/ ApiEnd \/ clear_peers \/ ApiPublicKey
  \/ \E k \in PrivKeys : ApiPrivateKey(k)
  \/ \E bound \in BOOLEAN : ApiListenPort(bound)
  \/ ApiFwmark(1)
  \/ \E s \in Section, last \in BOOLEAN : api_set_peer(s, last)

Handlers ==
  \/ \E p \in Routed, addr \in Addrs, connected \in ConnectOutcomes :
       UdpPacket(p, addr, connected)
  \/ UdpNoKey
  \/ IfaceNotConnected
  \/ \E p \in Configured : TimerExpired(p)
  \/ \E c \in conns : ConnEof(c)

Next == Api \/ Handlers

Spec == Init /\ [][Next]_vars

-----------------------------------------------------------------------------
(* Properties *)

PeerType ==
  [pub : PubKeys, index : Indices, endpoint : Addrs \cup {NoAddr}, conn : 0 .. MaxConns,
   allowed : [Networks -> 0 .. 1], static : PrivKeys, limiter : 0 .. MaxLimiters]
ConnType ==
  [id : 1 .. MaxConns, peer : Peer, addr : Addrs, port : 1 .. MaxPort, mark : 0 .. 1,
   open : BOOLEAN]

(* Every variable has its type; a peer's tunnel always has a private key.  *)
TypeOK ==
  /\ key \in PrivKeys \cup {NoKey} /\ limiter \in 0 .. MaxLimiters
  /\ fwmark \in 0 .. 1 /\ can_mark \in BOOLEAN
  /\ listen \in 0 .. MaxPort /\ listen_port \in 1 .. MaxPort
  /\ udp_handlers \subseteq 1 .. MaxPort
  /\ peers \in [PubKeys -> Peer \cup {NoPeer}]
  /\ peers_by_idx \in [Indices -> Peer \cup {NoPeer}]
  /\ peers_by_ip \in [Networks -> Peer \cup {NoPeer}]
  /\ next_index \in [initial : Seeds, lfsr : Word, mask : Seeds]
  /\ drawn \subseteq Word
  /\ obj \in Seq(PeerType) /\ Len(obj) <= MaxPeers
  /\ conns \subseteq ConnType
  /\ api \in [mode : {"idle", "set", "peer"}, endpoint : Addrs \cup {NoAddr}]
  /\ removed \subseteq Peer

(* The tables agree: through additions, removals, replacement and prefixes *)
(* that move, no table leads to a peer that is not configured, nor to one  *)
(* with another key, index or prefix.                                      *)
TablesAgree ==
  /\ \A k \in PubKeys : peers[k] # NoPeer =>
       obj[peers[k]].pub = k /\ peers_by_idx[obj[peers[k]].index] = peers[k]
  /\ \A i \in Indices : peers_by_idx[i] # NoPeer =>
       peers_by_idx[i] \in Configured /\ obj[peers_by_idx[i]].index = i
  /\ \A n \in Networks : peers_by_ip[n] # NoPeer =>
       peers_by_ip[n] \in Configured /\ obj[peers_by_ip[n]].allowed[n] = 1

(* A packet is routed to a peer that may also send from that address, by a *)
(* prefix of its own at least as specific as any that another peer holds.  *)
RoutesAllowed ==
  \A a \in Address : Route(a) # NoPeer =>
    /\ is_allowed_ip(Route(a), a)
    /\ \A n \in Matches(peers_by_ip, a) :
         \E m \in Matches(obj[Route(a)].allowed, a) : m.cidr >= n.cidr

(* No two peers ever had the same index, removed ones included: a late     *)
(* datagram for a removed peer finds no other peer under its index.        *)
IndicesDistinct ==
  \A p, q \in DOMAIN obj : obj[p].index = obj[q].index => p = q

(* Every configured peer uses the device's key, and if it has a limiter of *)
(* the device, the newest - whether it was added before or after set_key.  *)
KeysAgree ==
  \A p \in Configured : obj[p].static = key /\ obj[p].limiter \in {0, limiter}

(* The open connected sockets of a configured peer are the one that its    *)
(* endpoint holds, which is connected to the endpoint's address, bound to  *)
(* the device's port and carries its mark - through roaming, expiry, new   *)
(* ports and marks, and handlers that are still registered for old ports.  *)
ConnectionsCurrent ==
  /\ \A c \in conns : c.open /\ c.peer \in Configured =>
       /\ obj[c.peer].conn = c.id
       /\ obj[c.peer].endpoint = c.addr
       /\ c.port = listen_port
       /\ can_mark => c.mark = fwmark
  /\ \A p \in Configured : obj[p].conn # 0 =>
       \E c \in conns : c.peer = p /\ c.id = obj[p].conn /\ c.open

(* remove_peer: a peer it took out has no open socket, then or later.      *)
RemovedSilent == \A c \in conns : c.peer \in removed => ~c.open

-----------------------------------------------------------------------------
(* What a comment and an assertion of the code say *)

(* mod.rs: "First close any existing open socket, and remove them from the *)
(* event loop": between requests only the sockets opened last have         *)
(* handlers.                                                               *)
ListenOnlyCurrent == api.mode = "idle" => udp_handlers \subseteq {listen}

(* mod.rs: expect("Not connected"): a packet from the tunnel interface     *)
(* always finds the listening sockets.                                     *)
AlwaysConnected == aborted # "Not connected"
=============================================================================
