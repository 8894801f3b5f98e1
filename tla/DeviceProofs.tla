---------------------------- MODULE DeviceProofs ----------------------------
(***************************************************************************)
(* The invariants of the device, for every set of keys, addresses and      *)
(* prefixes, every width of the index generator and every bound: the       *)
(* inductive invariant and what the operations on peers and sockets do to  *)
(* it; the steps on sockets, endpoints, ports and marks; the steps on the  *)
(* key and those that take peers out of the tables; what the index         *)
(* generator and the tables of prefixes compute; and the theorems.         *)
(***************************************************************************)
EXTENDS Device, TLAPS, WellFoundedInduction

-----------------------------------------------------------------------------
(* The inductive invariant *)

(* The register has not come back to a value it had: each value but the    *)
(* first is the shift of an earlier one, and the first is not met again.   *)
(* Every peer has the index of a value of its own.                         *)
GeneratorInv ==
  /\ next_index.lfsr \notin drawn
  /\ next_index.initial \in drawn \cup {next_index.lfsr}
  /\ \A d \in drawn \cup {next_index.lfsr} :
       d # next_index.initial => \E e \in drawn : d = shift(e)
  /\ \A p \in DOMAIN obj : \E d \in drawn : obj[p].index = index(d, next_index.mask)

(* The peers o and the sockets cs fit, for the configured peers conf, the  *)
(* removed peers rem, a port and a mark.                                   *)
Wired(o, cs, conf, rem, port, mark) ==
  /\ cs \subseteq ConnType
  /\ \A c \in cs : c.peer \in DOMAIN o
  /\ \A c \in cs : c.peer \in rem => ~c.open
  /\ \A c \in cs : c.open /\ c.peer \in conf =>
       /\ o[c.peer].conn = c.id
       /\ o[c.peer].endpoint = c.addr
       /\ c.port = port
       /\ can_mark => c.mark = mark
  /\ \A p \in conf : o[p].conn # 0 =>
       \E c \in cs : c.peer = p /\ c.id = o[p].conn /\ c.open

DeviceInv ==
  /\ TypeOK
  /\ Configured \subseteq DOMAIN obj
  /\ removed \subseteq DOMAIN obj
  /\ removed \cap Configured = {}
  /\ GeneratorInv
  /\ IndicesDistinct
  /\ TablesAgree
  /\ KeysAgree
  /\ Wired(obj, conns, Configured, removed, listen_port, fwmark)

-----------------------------------------------------------------------------
(* Operations on the peers o and the sockets cs *)

(* What the tables, the keys and the generator see of the peers.           *)
Kept(o, o2) ==
  /\ o2 \in Seq(PeerType)
  /\ Len(o2) = Len(o) /\ DOMAIN o2 = DOMAIN o
  /\ \A p \in DOMAIN o : /\ o2[p].pub = o[p].pub
                        /\ o2[p].index = o[p].index
                        /\ o2[p].allowed = o[p].allowed
                        /\ o2[p].static = o[p].static
                        /\ o2[p].limiter = o[p].limiter

(* A function over the positions of a sequence is a sequence as long.      *)
LEMMA SameLength ==
  ASSUME NEW S, NEW T, NEW s \in Seq(S), NEW f \in [DOMAIN s -> T]
  PROVE  f \in Seq(T) /\ Len(f) = Len(s) /\ DOMAIN f = DOMAIN s
<1>1. DOMAIN s = 1 .. Len(s) /\ Len(s) \in Nat
  OBVIOUS
<1> QED BY <1>1

(* The peers with one more. *)
LEMMA Extended ==
  ASSUME obj \in Seq(PeerType), NEW x \in PeerType
  PROVE  /\ Append(obj, x) \in Seq(PeerType) /\ Len(Append(obj, x)) = Len(obj) + 1
         /\ DOMAIN Append(obj, x) = DOMAIN obj \cup {Len(obj) + 1}
         /\ Append(obj, x)[Len(obj) + 1] = x
         /\ \A p \in DOMAIN obj : Append(obj, x)[p] = obj[p]
OBVIOUS

(* A peer has the fields of one. *)
LEMMA PeerTyped ==
  ASSUME obj \in Seq(PeerType), NEW p \in DOMAIN obj
  PROVE  obj[p] \in PeerType
OBVIOUS

(* Peers keep their indices while the generator is not used. *)
LEMMA SameGenerator ==
  ASSUME GeneratorInv, UNCHANGED next_index, UNCHANGED drawn, DOMAIN obj' = DOMAIN obj,
         \A p \in DOMAIN obj : obj'[p].index = obj[p].index
  PROVE  GeneratorInv'
BY DEF GeneratorInv

(* A field of one peer changes. *)
LEMMA SetConn ==
  ASSUME NEW x \in PeerType, NEW i \in 0 .. MaxConns
  PROVE  LET y == [x EXCEPT !.conn = i]
         IN  /\ y \in PeerType /\ y.conn = i /\ y.endpoint = x.endpoint
             /\ y.pub = x.pub /\ y.index = x.index /\ y.allowed = x.allowed
             /\ y.static = x.static /\ y.limiter = x.limiter
BY DEF PeerType

(* The endpoint of one peer changes.                                       *)
LEMMA SetAddr ==
  ASSUME NEW x \in PeerType, NEW a \in Addrs \cup {NoAddr}
  PROVE  LET y == [x EXCEPT !.endpoint = a]
         IN  /\ y \in PeerType /\ y.conn = x.conn /\ y.endpoint = a
             /\ y.pub = x.pub /\ y.index = x.index /\ y.allowed = x.allowed
             /\ y.static = x.static /\ y.limiter = x.limiter
BY DEF PeerType

(* A socket is closed, or not.                                             *)
LEMMA SetOpen ==
  ASSUME NEW c \in ConnType, NEW b \in BOOLEAN
  PROVE  LET y == [c EXCEPT !.open = b]
         IN  /\ y \in ConnType /\ y.open = b
             /\ y.id = c.id /\ y.peer = c.peer /\ y.addr = c.addr /\ y.port = c.port
             /\ y.mark = c.mark
BY DEF ConnType

(* shutdown_endpoint keeps peers and sockets fitting, and leaves the peers *)
(* that it is called for without an open socket.                           *)
LEMMA Shutdown ==
  ASSUME NEW o \in Seq(PeerType), NEW cs, NEW conf, NEW rem, NEW port, NEW mark,
         conf \subseteq DOMAIN o,
         Wired(o, cs, conf, rem, port, mark),
         NEW ps, ps \subseteq conf
  PROVE  LET d == shutdown_endpoint([obj |-> o, conns |-> cs], ps)
         IN  /\ Kept(o, d.obj)
             /\ Wired(d.obj, d.conns, conf, rem, port, mark)
             /\ \A p \in ps : d.obj[p].conn = 0
             /\ \A c \in d.conns : c.peer \in ps => ~c.open
             /\ \A p \in DOMAIN o : d.obj[p].endpoint = o[p].endpoint
<1> DEFINE o2 == [p \in DOMAIN o |-> IF p \in ps THEN [o[p] EXCEPT !.conn = 0] ELSE o[p]]
           Open(c) == c.open /\ ~(c.peer \in ps /\ o[c.peer].conn = c.id)
           Shut(c) == [c EXCEPT !.open = Open(c)]
           cs2 == {Shut(c) : c \in cs}
           d == shutdown_endpoint([obj |-> o, conns |-> cs], ps)
<1>1. d.obj = o2 /\ d.conns = cs2
  BY DEF shutdown_endpoint
<1>2. \A p \in DOMAIN o : o[p] \in PeerType
  OBVIOUS
<1>3. 0 \in 0 .. MaxConns
  BY DeviceAssumption
<1>4. \A p \in DOMAIN o :
        /\ o2[p] \in PeerType
        /\ o2[p].conn = IF p \in ps THEN 0 ELSE o[p].conn
        /\ o2[p].endpoint = o[p].endpoint
        /\ o2[p].pub = o[p].pub /\ o2[p].index = o[p].index /\ o2[p].allowed = o[p].allowed
        /\ o2[p].static = o[p].static /\ o2[p].limiter = o[p].limiter
  BY <1>2, <1>3, SetConn
<1>5. o2 \in [DOMAIN o -> PeerType]
  BY <1>4
<1>6. Kept(o, o2)
  BY <1>4, <1>5, SameLength DEF Kept
<1>7. \A c \in cs : c \in ConnType
  BY DEF Wired
<1>8. \A c \in cs :
        /\ Shut(c) \in ConnType /\ Shut(c).open = Open(c)
        /\ Shut(c).id = c.id /\ Shut(c).peer = c.peer /\ Shut(c).addr = c.addr
        /\ Shut(c).port = c.port /\ Shut(c).mark = c.mark
  <2> SUFFICES ASSUME NEW c \in cs
               PROVE  /\ Shut(c) \in ConnType /\ Shut(c).open = Open(c)
                      /\ Shut(c).id = c.id /\ Shut(c).peer = c.peer /\ Shut(c).addr = c.addr
                      /\ Shut(c).port = c.port /\ Shut(c).mark = c.mark
    BY Zenon
  <2>1. Open(c) \in BOOLEAN
    OBVIOUS
  <2> QED BY <2>1, <1>7, SetOpen, ZenonT(30)
<1> HIDE DEF Shut, o2, d
<1>9. \A c \in cs2 : c \in ConnType /\ c.peer \in DOMAIN o
  BY <1>8 DEF Wired
<1>10. \A c \in cs2 : c.peer \in rem => ~c.open
  <2>1. \A c \in cs : c.peer \in rem => ~c.open
    BY DEF Wired
  <2>2. \A c \in cs : Shut(c).peer \in rem => ~Shut(c).open
    BY <1>8, <2>1, Zenon
  <2> QED BY <2>2, Zenon
<1>11. \A c \in cs2 : c.peer \in ps => ~c.open
  <2>1. \A c \in cs : c.open /\ c.peer \in ps => o[c.peer].conn = c.id
    BY DEF Wired
  <2>2. \A c \in cs : Shut(c).peer \in ps => ~Shut(c).open
    BY <1>8, <2>1, Zenon
  <2> QED BY <2>2, Zenon
<1>12. \A c \in cs2 : c.open /\ c.peer \in conf =>
        /\ o2[c.peer].conn = c.id
        /\ o2[c.peer].endpoint = c.addr
        /\ c.port = port
        /\ can_mark => c.mark = mark
  <2> SUFFICES ASSUME NEW c \in cs, Shut(c).open, Shut(c).peer \in conf
               PROVE  /\ o2[Shut(c).peer].conn = Shut(c).id
                      /\ o2[Shut(c).peer].endpoint = Shut(c).addr
                      /\ Shut(c).port = port
                      /\ can_mark => Shut(c).mark = mark
    BY Zenon
  <2>1. Open(c) /\ c.peer \in conf /\ c.peer \in DOMAIN o
    BY <1>8, Zenon
  <2>2. c.peer \notin ps
    BY <2>1 DEF Wired
  <2>3. /\ o[c.peer].conn = c.id /\ o[c.peer].endpoint = c.addr
        /\ c.port = port /\ (can_mark => c.mark = mark)
    BY <2>1 DEF Wired
  <2> QED BY <2>1, <2>2, <2>3, <1>4, <1>8
<1>13. \A p \in conf : o2[p].conn # 0 =>
        \E c \in cs2 : c.peer = p /\ c.id = o2[p].conn /\ c.open
  <2> SUFFICES ASSUME NEW p \in conf, o2[p].conn # 0
               PROVE  \E c \in cs2 : c.peer = p /\ c.id = o2[p].conn /\ c.open
    BY Zenon
  <2>1. p \in DOMAIN o /\ p \notin ps /\ o2[p].conn = o[p].conn
    BY <1>4
  <2>2. PICK c \in cs : c.peer = p /\ c.id = o[p].conn /\ c.open
    BY <2>1 DEF Wired
  <2>3. Shut(c).peer = p /\ Shut(c).id = o2[p].conn /\ Shut(c).open
    BY <2>1, <2>2, <1>8, Zenon
  <2> QED BY <2>3
<1>14. Wired(o2, cs2, conf, rem, port, mark)
  BY <1>6, <1>9, <1>10, <1>12, <1>13 DEF Wired, Kept
<1> QED BY <1>1, <1>4, <1>6, <1>11, <1>14, Zenon DEF d

(* Two changes that keep what the tables see keep it together.             *)
LEMMA KeptTrans ==
  ASSUME NEW o, NEW o2, NEW o3, Kept(o, o2), Kept(o2, o3)
  PROVE  Kept(o, o3)
BY DEF Kept

(* The change of one peer that SetConn and SetAddr speak of. *)
LEMMA KeptOne ==
  ASSUME NEW o \in Seq(PeerType), NEW p \in DOMAIN o, NEW y \in PeerType,
         y.pub = o[p].pub, y.index = o[p].index, y.allowed = o[p].allowed,
         y.static = o[p].static, y.limiter = o[p].limiter
  PROVE  Kept(o, [o EXCEPT ![p] = y])
<1> DEFINE o2 == [o EXCEPT ![p] = y]
<1>1. \A q \in DOMAIN o : o[q] \in PeerType
  OBVIOUS
<1>2. o2 \in [DOMAIN o -> PeerType] /\ o2[p] = y /\ \A q \in DOMAIN o : q # p => o2[q] = o[q]
  BY <1>1
<1> HIDE DEF o2
<1>3. o2 \in Seq(PeerType) /\ Len(o2) = Len(o) /\ DOMAIN o2 = DOMAIN o
  BY <1>2, SameLength
<1>4. ASSUME NEW q \in DOMAIN o
      PROVE  /\ o2[q].pub = o[q].pub /\ o2[q].index = o[q].index
             /\ o2[q].allowed = o[q].allowed /\ o2[q].static = o[q].static
             /\ o2[q].limiter = o[q].limiter
  BY <1>2
<1>5. Kept(o, o2)
  BY <1>3, <1>4 DEF Kept
<1> QED BY <1>5 DEF o2

(* set_endpoint keeps peers and sockets fitting. *)
LEMMA SetEndpoint ==
  ASSUME NEW o \in Seq(PeerType), NEW cs, NEW conf, NEW rem, NEW port, NEW mark,
         conf \subseteq DOMAIN o,
         Wired(o, cs, conf, rem, port, mark),
         NEW p \in conf, NEW addr \in Addrs
  PROVE  LET d == set_endpoint([obj |-> o, conns |-> cs], p, addr)
         IN  /\ d = [obj |-> d.obj, conns |-> d.conns]
             /\ Kept(o, d.obj)
             /\ Wired(d.obj, d.conns, conf, rem, port, mark)
             /\ d.obj[p].endpoint = addr
<1> DEFINE d0 == [obj |-> o, conns |-> cs]
           d == set_endpoint(d0, p, addr)
           e == shutdown_endpoint(d0, {p})
           o2 == [e.obj EXCEPT ![p] = [e.obj[p] EXCEPT !.endpoint = addr]]
<1>1. CASE o[p].endpoint = addr
  <2>1. d = d0
    BY <1>1 DEF set_endpoint
  <2>2. Kept(o, o)
    BY DEF Kept
  <2> QED BY <1>1, <2>1, <2>2
<1>2. CASE o[p].endpoint # addr
  <2>1. e = [obj |-> e.obj, conns |-> e.conns]
    BY DEF shutdown_endpoint
  <2>2. d = [obj |-> o2, conns |-> e.conns]
    BY <1>2, <2>1, Zenon DEF set_endpoint
  <2>3. /\ Kept(o, e.obj) /\ Wired(e.obj, e.conns, conf, rem, port, mark)
        /\ e.obj[p].conn = 0
        /\ \A c \in e.conns : c.peer = p => ~c.open
    <3>1. {p} \subseteq conf
      BY ZenonT(30)
    <3>2. /\ Kept(o, e.obj) /\ Wired(e.obj, e.conns, conf, rem, port, mark)
          /\ \A q \in {p} : e.obj[q].conn = 0
          /\ \A c \in e.conns : c.peer \in {p} => ~c.open
      BY <3>1, Shutdown
    <3> HIDE DEF e
    <3> QED BY <3>2, Zenon
  <2> HIDE DEF e, d
  <2>4. e.obj \in Seq(PeerType) /\ DOMAIN e.obj = DOMAIN o /\ p \in DOMAIN o
    BY <2>3 DEF Kept
  <2>5. e.obj[p] \in PeerType
    BY <2>4
  <2> DEFINE y == [e.obj[p] EXCEPT !.endpoint = addr]
  <2>6. /\ y \in PeerType /\ y.endpoint = addr /\ y.conn = 0
        /\ y.pub = e.obj[p].pub /\ y.index = e.obj[p].index /\ y.allowed = e.obj[p].allowed
        /\ y.static = e.obj[p].static /\ y.limiter = e.obj[p].limiter
    BY <2>3, <2>5, SetAddr
  <2> HIDE DEF y
  <2>7. o2 = [e.obj EXCEPT ![p] = y]
    BY DEF y
  <2>8. Kept(e.obj, o2)
    BY <2>4, <2>6, <2>7, KeptOne, Zenon
  <2>9. Kept(o, o2)
    BY <2>3, <2>8, KeptTrans
  <2>10. o2[p] = y /\ \A q \in DOMAIN o : q # p => o2[q] = e.obj[q]
    BY <2>4, <2>7
  <2>11. DOMAIN o2 = DOMAIN o
    BY <2>9 DEF Kept
  <2> HIDE DEF o2
  <2>12. Wired(o2, e.conns, conf, rem, port, mark)
    <3>1. \A c \in e.conns : c \in ConnType /\ c.peer \in DOMAIN o2 /\ (c.peer \in rem => ~c.open)
      BY <2>3, <2>4, <2>11 DEF Wired
    <3>2. ASSUME NEW c \in e.conns, c.open, c.peer \in conf
          PROVE  /\ o2[c.peer].conn = c.id /\ o2[c.peer].endpoint = c.addr
                 /\ c.port = port /\ (can_mark => c.mark = mark)
      <4>1. c.peer # p /\ c.peer \in DOMAIN o
        BY <2>3, <3>2
      <4>2. o2[c.peer] = e.obj[c.peer]
        BY <4>1, <2>10
      <4> QED BY <4>2, <3>2, <2>3 DEF Wired
    <3>3. ASSUME NEW q \in conf, o2[q].conn # 0
          PROVE  \E c \in e.conns : c.peer = q /\ c.id = o2[q].conn /\ c.open
      <4>1. q # p /\ q \in DOMAIN o
        BY <3>3, <2>6, <2>10
      <4>2. o2[q] = e.obj[q]
        BY <4>1, <2>10
      <4> QED BY <4>2, <3>3, <2>3 DEF Wired
    <3> QED BY <3>1, <3>2, <3>3 DEF Wired
  <2>13. d.obj = o2 /\ d.conns = e.conns
    BY <2>2
  <2>14. d = [obj |-> d.obj, conns |-> d.conns]
    BY <2>2, <2>13
  <2>15. d.obj[p].endpoint = addr
    BY <2>6, <2>10, <2>13
  <2>16. Kept(o, d.obj) /\ Wired(d.obj, d.conns, conf, rem, port, mark)
    BY <2>9, <2>12, <2>13
  <2> QED BY <2>14, <2>15, <2>16, Zenon DEF d
<1> QED BY <1>1, <1>2

(* connect_endpoint and register_conn_handler, for a configured peer       *)
(* without a connected socket.                                             *)
LEMMA ConnectPeer ==
  ASSUME NEW o \in Seq(PeerType), NEW cs, NEW conf, NEW rem,
         conf \subseteq DOMAIN o, DOMAIN o \subseteq Peer, rem \cap conf = {},
         listen_port \in 1 .. MaxPort, fwmark \in 0 .. 1,
         Wired(o, cs, conf, rem, listen_port, fwmark),
         NEW p \in conf, o[p].conn = 0, o[p].endpoint \in Addrs,
         FreeConns([obj |-> o, conns |-> cs]) # {}
  PROVE  LET d == register_conn_handler(connect_endpoint([obj |-> o, conns |-> cs], p), p)
         IN  Kept(o, d.obj) /\ Wired(d.obj, d.conns, conf, rem, listen_port, fwmark)
<1> DEFINE d0 == [obj |-> o, conns |-> cs]
           i == CHOOSE j \in FreeConns(d0) : TRUE
           y == [o[p] EXCEPT !.conn = i]
           o2 == [o EXCEPT ![p] = y]
           new_c == [id |-> i, peer |-> p, addr |-> o[p].endpoint,
                     port |-> listen_port, mark |-> fwmark, open |-> TRUE]
           d == register_conn_handler(connect_endpoint(d0, p), p)
<1>1. i \in 1 .. MaxConns /\ i # 0
  <2>1. i \in FreeConns(d0)
    BY Zenon
  <2> HIDE DEF i
  <2>2. i \in 1 .. MaxConns
    BY <2>1, Zenon DEF FreeConns
  <2> QED BY <2>2
<1> HIDE DEF i
<1>2. o[p] \in PeerType /\ p \in DOMAIN o
  OBVIOUS
<1>3. /\ y \in PeerType /\ y.conn = i /\ y.endpoint = o[p].endpoint
      /\ y.pub = o[p].pub /\ y.index = o[p].index /\ y.allowed = o[p].allowed
      /\ y.static = o[p].static /\ y.limiter = o[p].limiter
  <2>1. i \in 0 .. MaxConns
    BY <1>1, DeviceAssumption
  <2> QED BY <1>2, <2>1, SetConn
<1>4. d.obj = o2 /\ d.conns = cs \cup {new_c}
  <2>0. connect_endpoint(d0, p) = [d0 EXCEPT !.obj[p].conn = i]
    BY Zenon DEF connect_endpoint, i
  <2>1. connect_endpoint(d0, p) = [obj |-> o2, conns |-> cs]
    BY <2>0, Zenon
  <2>2. o2[p] = y
    BY <1>2
  <2>3. o2[p].conn = i /\ o2[p].endpoint = o[p].endpoint
    BY <1>3, <2>2
  <2> HIDE DEF o2, y
  <2> DEFINE e == [obj |-> o2, conns |-> cs]
             c == [id |-> e.obj[p].conn, peer |-> p, addr |-> e.obj[p].endpoint,
                   port |-> listen_port, mark |-> fwmark, open |-> TRUE]
             e2 == [e EXCEPT !.conns = e.conns \cup {c}]
  <2>4. d = e2
    BY <2>1, Zenon DEF register_conn_handler
  <2>5. e.obj = o2 /\ e.conns = cs
    OBVIOUS
  <2>6. c = new_c
    BY <2>3, <2>5, Zenon
  <2> HIDE DEF c, d, new_c
  <2>7. e2.obj = o2 /\ e2.conns = cs \cup {c}
    OBVIOUS
  <2> QED BY <2>4, <2>6, <2>7
<1> HIDE DEF y, d
<1>5. Kept(o, o2) /\ DOMAIN o2 = DOMAIN o
  BY <1>2, <1>3, KeptOne DEF Kept
<1>6. o2[p] = y /\ \A q \in DOMAIN o : q # p => o2[q] = o[q]
  BY <1>2
<1> HIDE DEF o2
<1>7. new_c \in ConnType
  <2>1. p \in Peer
    BY <1>2
  <2> QED BY <1>1, <2>1 DEF ConnType
<1>8. ~(p \in rem)
  OBVIOUS
<1>9. \A c \in cs : c.peer = p => ~c.open
  <2> SUFFICES ASSUME NEW c \in cs, c.peer = p, c.open PROVE FALSE
    OBVIOUS
  <2>1. c.id = 0
    BY DEF Wired
  <2>2. c.id \in 1 .. MaxConns
    BY DEF Wired, ConnType
  <2> QED BY <2>1, <2>2
<1>10. \A c \in cs \cup {new_c} : c.peer \in DOMAIN o2 /\ (c.peer \in rem => ~c.open)
  BY <1>2, <1>5, <1>8 DEF Wired
<1>11. ASSUME NEW c \in cs \cup {new_c}, c.open, c.peer \in conf
       PROVE  /\ o2[c.peer].conn = c.id /\ o2[c.peer].endpoint = c.addr
              /\ c.port = listen_port /\ (can_mark => c.mark = fwmark)
  <2>1. CASE c = new_c
    BY <2>1, <1>3, <1>6
  <2>2. CASE c \in cs
    <3>1. c.peer # p /\ c.peer \in DOMAIN o
      BY <1>9, <1>11, <2>2
    <3>2. o2[c.peer] = o[c.peer]
      BY <1>6, <3>1
    <3> QED BY <3>2, <2>2, <1>11 DEF Wired
  <2> QED BY <2>1, <2>2
<1>12. ASSUME NEW q \in conf, o2[q].conn # 0
       PROVE  \E c \in cs \cup {new_c} : c.peer = q /\ c.id = o2[q].conn /\ c.open
  <2>1. CASE q = p
    <3>1. new_c.peer = q /\ new_c.id = o2[q].conn /\ new_c.open
      BY <2>1, <1>3, <1>6
    <3> QED BY <3>1, Zenon
  <2>2. CASE q # p
    <3>1. o2[q] = o[q]
      BY <2>2, <1>6
    <3>2. \E c \in cs : c.peer = q /\ c.id = o[q].conn /\ c.open
      BY <3>1, <1>12 DEF Wired
    <3> QED BY <3>1, <3>2
  <2> QED BY <2>1, <2>2
<1>13. \A c \in cs \cup {new_c} : c \in ConnType
  BY <1>7, Zenon DEF Wired
<1>14. Wired(o2, cs \cup {new_c}, conf, rem, listen_port, fwmark)
  BY <1>10, <1>11, <1>12, <1>13 DEF Wired
<1> QED BY <1>4, <1>5, <1>14, Zenon DEF d

-----------------------------------------------------------------------------
(* The invariant holds initially and is kept *)

(* The device that DeviceHandle::new leaves satisfies the invariant.       *)
LEMMA DeviceInit == Init => DeviceInv
<1> SUFFICES ASSUME Init PROVE DeviceInv
  OBVIOUS
<1>1. PICK s \in Seeds, m \in Seeds : next_index = default(s, m)
  BY DEF Init
<1>2. next_index.initial = s /\ next_index.lfsr = s /\ next_index.mask = m
  BY <1>1 DEF default
<1>3. s \in Word /\ m \in Word
  BY DeviceAssumption DEF random_index
<1>4. next_index \in [initial : Seeds, lfsr : Word, mask : Seeds]
  BY <1>1, <1>3 DEF default
<1>5. Configured = {}
  BY DEF Init, Configured, NoPeer
<1>6. obj = <<>> /\ DOMAIN obj = {} /\ Len(obj) = 0 /\ obj \in Seq(PeerType)
  BY DEF Init
<1>7. TypeOK
  BY <1>4, <1>6, DeviceAssumption
  DEF Init, TypeOK, NoRequest, Request, NoPeer, new
<1>8. GeneratorInv
  BY <1>2, <1>6 DEF Init, GeneratorInv
<1>9. IndicesDistinct /\ KeysAgree
  BY <1>5, <1>6 DEF IndicesDistinct, KeysAgree
<1>10. TablesAgree
  BY DEF Init, TablesAgree, NoPeer, new
<1>11. Wired(obj, conns, Configured, removed, listen_port, fwmark)
  BY <1>5 DEF Init, Wired
<1>12. removed = {}
  BY DEF Init
<1> QED BY <1>5, <1>7, <1>8, <1>9, <1>10, <1>11, <1>12 DEF DeviceInv

(* Steps that keep the tables and what the tables see of the peers.        *)
LEMMA TablesKept ==
  ASSUME DeviceInv, UNCHANGED <<tables, key, limiter>>, Kept(obj, obj')
  PROVE  /\ Configured' = Configured
         /\ (Configured \subseteq DOMAIN obj)'
         /\ (removed \subseteq DOMAIN obj)'
         /\ (removed \cap Configured = {})'
         /\ GeneratorInv' /\ IndicesDistinct' /\ TablesAgree' /\ KeysAgree'
<1>1. /\ peers' = peers /\ peers_by_idx' = peers_by_idx /\ peers_by_ip' = peers_by_ip
      /\ next_index' = next_index /\ drawn' = drawn /\ removed' = removed
      /\ key' = key /\ limiter' = limiter
  BY DEF tables
<1>2. DOMAIN obj' = DOMAIN obj
  BY DEF Kept
<1>3. \A p \in DOMAIN obj : /\ obj'[p].pub = obj[p].pub /\ obj'[p].index = obj[p].index
                            /\ obj'[p].allowed = obj[p].allowed
                            /\ obj'[p].static = obj[p].static
                            /\ obj'[p].limiter = obj[p].limiter
  BY DEF Kept
<1>4. Configured' = Configured
  BY <1>1 DEF Configured
<1>5. Configured \subseteq DOMAIN obj /\ removed \subseteq DOMAIN obj /\ removed \cap Configured = {}
  BY Zenon DEF DeviceInv
<1>6. GeneratorInv'
  BY <1>1, <1>2, <1>3 DEF DeviceInv, GeneratorInv
<1>7. IndicesDistinct'
  BY <1>2, <1>3, Zenon DEF DeviceInv, IndicesDistinct
<1>8. KeysAgree'
  BY <1>1, <1>3, <1>4, <1>5, Zenon DEF DeviceInv, KeysAgree
<1>9. TablesAgree'
  <2>1. \A k \in PubKeys : peers[k] # NoPeer => peers[k] \in DOMAIN obj
    BY <1>5 DEF Configured
  <2>2. TablesAgree
    BY Zenon DEF DeviceInv
  <2>3. (\A k \in PubKeys : peers[k] # NoPeer =>
           obj[peers[k]].pub = k /\ peers_by_idx[obj[peers[k]].index] = peers[k])'
    BY <1>1, <1>3, <2>1, <2>2, Zenon DEF TablesAgree
  <2>4. (\A i \in Indices : peers_by_idx[i] # NoPeer =>
           peers_by_idx[i] \in Configured /\ obj[peers_by_idx[i]].index = i)'
    BY <1>1, <1>3, <1>4, <1>5, <2>2, ZenonT(30) DEF TablesAgree
  <2>5. (\A n \in Networks : peers_by_ip[n] # NoPeer =>
           peers_by_ip[n] \in Configured /\ obj[peers_by_ip[n]].allowed[n] = 1)'
    BY <1>1, <1>3, <1>4, <1>5, <2>2 DEF TablesAgree
  <2> QED BY <2>3, <2>4, <2>5 DEF TablesAgree
<1> QED BY <1>1, <1>2, <1>4, <1>5, <1>6, <1>7, <1>8, <1>9

(* Steps that change the request or end the process, and nothing else.     *)
LEMMA QuietStep ==
  ASSUME DeviceInv, UNCHANGED <<config, socks, tables, obj, conns>>,
         api' \in [mode : {"idle", "set", "peer"}, endpoint : Addrs \cup {NoAddr}]
  PROVE  DeviceInv'
<1>1. Kept(obj, obj')
  BY DEF Kept, DeviceInv, TypeOK
<1>2. TypeOK'
  BY DEF DeviceInv, TypeOK, config, socks, tables
<1>3. UNCHANGED <<tables, key, limiter>>
  BY DEF config
<1>4. /\ Configured' = Configured
      /\ (Configured \subseteq DOMAIN obj)' /\ (removed \subseteq DOMAIN obj)'
      /\ (removed \cap Configured = {})'
      /\ GeneratorInv' /\ IndicesDistinct' /\ TablesAgree' /\ KeysAgree'
  BY <1>1, <1>3, TablesKept, Zenon
<1>5. Wired(obj, conns, Configured, removed, listen_port, fwmark)'
  BY <1>4, Zenon DEF DeviceInv, Wired, config, socks, tables
<1> QED BY <1>2, <1>4, <1>5, Zenon DEF DeviceInv

-----------------------------------------------------------------------------
(* Steps on sockets, endpoints and marks. *)
LEMMA SocketStep ==
  ASSUME DeviceInv, UNCHANGED <<tables, key, limiter, can_mark, aborted>>,
         Kept(obj, obj'),
         Wired(obj', conns', Configured, removed, listen_port', fwmark'),
         fwmark' \in 0 .. 1, listen' \in 0 .. MaxPort, listen_port' \in 1 .. MaxPort,
         udp_handlers' \subseteq 1 .. MaxPort,
         api' \in [mode : {"idle", "set", "peer"}, endpoint : Addrs \cup {NoAddr}]
  PROVE  DeviceInv'
<1>1. /\ Configured' = Configured
      /\ (Configured \subseteq DOMAIN obj)' /\ (removed \subseteq DOMAIN obj)'
      /\ (removed \cap Configured = {})'
      /\ GeneratorInv' /\ IndicesDistinct' /\ TablesAgree' /\ KeysAgree'
  BY TablesKept
<1>2. obj' \in Seq(PeerType) /\ Len(obj') = Len(obj) /\ conns' \subseteq ConnType
  BY DEF Kept, Wired
<1>3. TypeOK'
  BY <1>2, Zenon DEF DeviceInv, TypeOK, tables
<1>4. Wired(obj, conns, Configured, removed, listen_port, fwmark)'
  BY <1>1 DEF Wired, tables
<1> QED BY <1>1, <1>3, <1>4, Zenon DEF DeviceInv

(* Every peer that a datagram may reach is configured. *)
LEMMA RoutedConfigured ==
  ASSUME TablesAgree
  PROVE  Routed \subseteq Configured
BY ZenonT(30) DEF TablesAgree, Routed

(* A datagram reaches configured peers alone; roaming and connecting keep  *)
(* their sockets current.                                                  *)
LEMMA UdpPacketStep ==
  ASSUME DeviceInv, NEW p \in Routed, NEW addr \in Addrs, NEW connected \in BOOLEAN,
         UdpPacket(p, addr, connected)
  PROVE  DeviceInv'
<1> DEFINE d == set_endpoint(D, p, addr)
<1>1. p \in Configured
  BY RoutedConfigured DEF DeviceInv
<1>2. /\ obj \in Seq(PeerType) /\ Configured \subseteq DOMAIN obj
      /\ Wired(obj, conns, Configured, removed, listen_port, fwmark)
      /\ removed \cap Configured = {} /\ Len(obj) <= MaxPeers
      /\ listen_port \in 1 .. MaxPort /\ fwmark \in 0 .. 1
  BY ZenonT(30) DEF DeviceInv, TypeOK
<1>3. /\ d = [obj |-> d.obj, conns |-> d.conns] /\ Kept(obj, d.obj)
      /\ Wired(d.obj, d.conns, Configured, removed, listen_port, fwmark)
      /\ d.obj[p].endpoint = addr
  BY <1>1, <1>2, SetEndpoint DEF D
<1> HIDE DEF d
<1>4. Kept(obj, obj') /\ Wired(obj', conns', Configured, removed, listen_port, fwmark)
  <2>1. CASE connected
    <3> DEFINE e == register_conn_handler(connect_endpoint(d, p), p)
    <3>1. obj' = e.obj /\ conns' = e.conns /\ d.obj[p].conn = 0 /\ FreeConns(d) # {}
      BY <2>1, Zenon DEF UdpPacket, d
    <3>2. d.obj \in Seq(PeerType) /\ DOMAIN d.obj = DOMAIN obj
      BY <1>3 DEF Kept
    <3>3. DOMAIN obj \subseteq Peer
      BY <1>2, DeviceAssumption DEF Peer
    <3> DEFINE d2 == [obj |-> d.obj, conns |-> d.conns]
               e2 == register_conn_handler(connect_endpoint(d2, p), p)
    <3>4. FreeConns(d2) # {} /\ e = e2
      BY <3>1, <1>3, Zenon
    <3>5. Kept(d.obj, e2.obj) /\ Wired(e2.obj, e2.conns, Configured, removed, listen_port, fwmark)
      <4>1. Configured \subseteq DOMAIN d.obj /\ DOMAIN d.obj \subseteq Peer
        BY <1>2, <3>2, <3>3
      <4> HIDE DEF e2
      <4> QED BY <1>1, <1>2, <1>3, <3>1, <3>2, <3>4, <4>1, ConnectPeer, Zenon DEF e2
    <3> HIDE DEF e, e2
    <3>6. Kept(obj, e2.obj)
      BY <1>3, <3>5, KeptTrans
    <3> QED BY <3>1, <3>4, <3>5, <3>6, ZenonT(30)
  <2>2. CASE ~connected
    <3>1. obj' = d.obj /\ conns' = d.conns
      BY <2>2, Zenon DEF UdpPacket, d
    <3> QED BY <3>1, <1>3, Zenon
  <2> QED BY <2>1, <2>2, Zenon
<1>5. UNCHANGED <<config, socks, tables, api, aborted>>
  BY DEF UdpPacket
<1> QED BY <1>4, <1>5, SocketStep DEF config, socks, DeviceInv, TypeOK

(* An expired connection loses its socket.                                 *)
LEMMA TimerExpiredStep ==
  ASSUME DeviceInv, NEW p \in Configured, TimerExpired(p)
  PROVE  DeviceInv'
<1> DEFINE d == shutdown_endpoint(D, {p})
<1>1. /\ obj \in Seq(PeerType) /\ Configured \subseteq DOMAIN obj
      /\ Wired(obj, conns, Configured, removed, listen_port, fwmark)
  BY DEF DeviceInv, TypeOK
<1>2. {p} \subseteq Configured
  OBVIOUS
<1>3. Kept(obj, d.obj) /\ Wired(d.obj, d.conns, Configured, removed, listen_port, fwmark)
  <2> HIDE DEF d
  <2> QED BY <1>1, <1>2, Shutdown, Zenon DEF d, D
<1>4. obj' = d.obj /\ conns' = d.conns /\ UNCHANGED <<config, socks, tables, api, aborted>>
  BY DEF TimerExpired
<1> HIDE DEF d
<1>5. Kept(obj, obj') /\ Wired(obj', conns', Configured, removed, listen_port, fwmark)
  BY <1>3, <1>4, ZenonT(30)
<1> QED BY <1>4, <1>5, SocketStep, Zenon DEF config, socks, DeviceInv, TypeOK

(* Only a closed socket leaves the event loop.                             *)
LEMMA ConnEofStep ==
  ASSUME DeviceInv, NEW c \in conns, ConnEof(c)
  PROVE  DeviceInv'
<1>1. /\ conns' = conns \ {c} /\ ~c.open /\ UNCHANGED <<config, socks, tables, obj, api, aborted>>
  BY DEF ConnEof
<1>2. Kept(obj, obj')
  BY <1>1, ZenonT(30) DEF Kept, DeviceInv, TypeOK
<1>3. Wired(obj, conns', Configured, removed, listen_port, fwmark)
  BY <1>1 DEF DeviceInv, Wired
<1>4. Wired(obj', conns', Configured, removed, listen_port', fwmark')
  BY <1>1, <1>3 DEF config, socks
<1> QED BY <1>1, <1>2, <1>4, SocketStep DEF config, socks, DeviceInv, TypeOK

(* After open_listen_socket has shut every endpoint, no open socket is     *)
(* left that a new port could make stale.                                  *)
LEMMA ListenPortStep ==
  ASSUME DeviceInv, NEW bound \in BOOLEAN, ApiListenPort(bound)
  PROVE  DeviceInv'
<1> DEFINE d == shutdown_endpoint(D, Configured)
<1>1. /\ obj \in Seq(PeerType) /\ Configured \subseteq DOMAIN obj
      /\ Wired(obj, conns, Configured, removed, listen_port, fwmark)
  BY Zenon DEF DeviceInv, TypeOK
<1>2. /\ Kept(obj, d.obj) /\ Wired(d.obj, d.conns, Configured, removed, listen_port, fwmark)
      /\ \A c \in d.conns : c.peer \in Configured => ~c.open
  BY <1>1, Shutdown, Zenon DEF D
<1>3. obj' = d.obj /\ conns' = d.conns /\ UNCHANGED <<config, tables, aborted>>
  BY Zenon DEF ApiListenPort, open_listen_socket
<1> HIDE DEF d
<1>4. Wired(obj', conns', Configured, removed, listen_port', fwmark')
  BY <1>2, <1>3 DEF Wired, config
<1>5. /\ listen' \in 0 .. MaxPort /\ listen_port' \in 1 .. MaxPort
      /\ udp_handlers' \subseteq 1 .. MaxPort
  <2>1. /\ listen_port \in 1 .. MaxPort /\ udp_handlers \subseteq 1 .. MaxPort
        /\ MaxPort \in Nat
    BY DeviceAssumption DEF DeviceInv, TypeOK
  <2>2. listen_port < MaxPort
    BY DEF ApiListenPort
  <2>3. listen_port + 1 \in 1 .. MaxPort /\ listen_port + 1 \in 0 .. MaxPort /\ 0 \in 0 .. MaxPort
    BY <2>1, <2>2
  <2>4. \/ /\ listen' = listen_port + 1 /\ listen_port' = listen_port + 1
           /\ udp_handlers' = udp_handlers \cup {listen_port + 1}
        \/ listen' = 0 /\ listen_port' = listen_port /\ udp_handlers' = udp_handlers
    BY DEF ApiListenPort, open_listen_socket
  <2> QED BY <2>1, <2>3, <2>4, Zenon
<1>6. api' \in [mode : {"idle", "set", "peer"}, endpoint : Addrs \cup {NoAddr}]
  BY DEF ApiListenPort, DeviceInv, TypeOK, NoRequest, Request
<1>7. UNCHANGED <<key, limiter, can_mark, aborted>> /\ fwmark' \in 0 .. 1 /\ UNCHANGED tables
  BY <1>3 DEF config, DeviceInv, TypeOK
<1>8. Kept(obj, obj')
  BY <1>2, <1>3, ZenonT(30)
<1> QED BY <1>4, <1>5, <1>6, <1>7, <1>8, SocketStep

(* The open socket of a configured peer is the one its endpoint holds, so  *)
(* set_fwmark reaches all of them.                                         *)
LEMMA FwmarkStep ==
  ASSUME DeviceInv, NEW mark \in 0 .. 1, ApiFwmark(mark)
  PROVE  DeviceInv'
<1> DEFINE marked == {obj[p].conn : p \in Configured} \ {0}
           Marked(c) == IF c.id \in marked THEN [c EXCEPT !.mark = mark] ELSE c
           cs2 == IF ~can_mark THEN conns ELSE {Marked(c) : c \in conns}
<1>1. conns' = cs2 /\ fwmark' = mark /\ UNCHANGED <<key, limiter, can_mark, socks, tables, obj, aborted>>
  BY DEF ApiFwmark, set_fwmark
<1>2. api' \in [mode : {"idle", "set", "peer"}, endpoint : Addrs \cup {NoAddr}]
  BY DEF ApiFwmark, set_fwmark, DeviceInv, TypeOK, NoRequest, Request
<1>3. Kept(obj, obj')
  BY <1>1 DEF Kept, DeviceInv, TypeOK
<1>4. Wired(obj, conns, Configured, removed, listen_port, fwmark)
  BY DEF DeviceInv
<1>5. Wired(obj, cs2, Configured, removed, listen_port, mark)
  <2>1. CASE ~can_mark
    BY <1>4, <2>1, ZenonT(30) DEF Wired
  <2>2. CASE can_mark
    <3>1. ASSUME NEW c \in conns
          PROVE  /\ Marked(c) \in ConnType /\ Marked(c).open = c.open /\ Marked(c).id = c.id
                 /\ Marked(c).peer = c.peer /\ Marked(c).addr = c.addr
                 /\ Marked(c).port = c.port
                 /\ c.id \in marked => Marked(c).mark = mark
      <4>1. c \in ConnType
        BY <1>4 DEF Wired
      <4>2. CASE c.id \in marked
        <5>1. Marked(c) = [c EXCEPT !.mark = mark]
          BY <4>2
        <5> HIDE DEF Marked
        <5> QED BY <4>1, <5>1 DEF ConnType
      <4>3. CASE c.id \notin marked
        BY <4>1, <4>3
      <4> QED BY <4>2, <4>3
    <3>2. ASSUME NEW c \in conns, c.open, c.peer \in Configured
          PROVE  c.id \in marked
      <4>1. c.id = obj[c.peer].conn /\ c \in ConnType
        BY <1>4, <3>2 DEF Wired
      <4>2. c.id # 0
        BY <4>1 DEF ConnType
      <4> QED BY <4>1, <4>2, <3>2, Zenon
    <3>3. cs2 = {Marked(c) : c \in conns}
      BY <2>2, Zenon
    <3> HIDE DEF marked, Marked, cs2
    <3>4. cs2 \subseteq ConnType
      BY <3>1, <3>3, Zenon
    <3>5. \A c \in cs2 : c.peer \in DOMAIN obj
      BY <1>4, <3>1, <3>3 DEF Wired
    <3>6. \A c \in cs2 : c.peer \in removed => ~c.open
      <4>1. \A c \in conns : c.peer \in removed => ~c.open
        BY <1>4 DEF Wired
      <4>2. \A c \in conns : Marked(c).peer \in removed => ~Marked(c).open
        BY <4>1, <3>1, Zenon
      <4> QED BY <4>2, <3>3, Zenon
    <3>7. \A c \in cs2 : c.open /\ c.peer \in Configured =>
            /\ obj[c.peer].conn = c.id /\ obj[c.peer].endpoint = c.addr
            /\ c.port = listen_port /\ (can_mark => c.mark = mark)
      <4> SUFFICES ASSUME NEW c \in conns, Marked(c).open, Marked(c).peer \in Configured
                   PROVE  /\ obj[Marked(c).peer].conn = Marked(c).id
                          /\ obj[Marked(c).peer].endpoint = Marked(c).addr
                          /\ Marked(c).port = listen_port
                          /\ (can_mark => Marked(c).mark = mark)
        BY <3>3, Zenon
      <4>1. c.open /\ c.peer \in Configured
        BY <3>1, Zenon
      <4>2. c.id \in marked
        BY <4>1, <3>2, Zenon
      <4> QED BY <4>1, <4>2, <3>1, <1>4 DEF Wired
    <3>8. ASSUME NEW p \in Configured, obj[p].conn # 0
          PROVE  \E c \in cs2 : c.peer = p /\ c.id = obj[p].conn /\ c.open
      <4>1. PICK c \in conns : c.peer = p /\ c.id = obj[p].conn /\ c.open
        BY <3>8, <1>4 DEF Wired
      <4>2. Marked(c).peer = p /\ Marked(c).id = obj[p].conn /\ Marked(c).open
        BY <4>1, <3>1, Zenon
      <4> QED BY <4>2, <3>3, Zenon
    <3> QED BY <3>4, <3>5, <3>6, <3>7, <3>8 DEF Wired
  <2> QED BY <2>1, <2>2
<1> HIDE DEF cs2
<1>6. Wired(obj', conns', Configured, removed, listen_port', fwmark')
  BY <1>1, <1>5 DEF socks
<1> QED BY <1>1, <1>2, <1>3, <1>6, SocketStep DEF socks, DeviceInv, TypeOK

-----------------------------------------------------------------------------
(* set_key gives its key and a new limiter to the configured peers.        *)
LEMMA PrivateKeyStep ==
  ASSUME DeviceInv, NEW k \in PrivKeys, ApiPrivateKey(k)
  PROVE  DeviceInv'
<1>1. UNCHANGED <<fwmark, can_mark, socks, tables, conns, api, aborted>>
  BY DEF ApiPrivateKey
<1>2. CASE k = key
  <2>1. UNCHANGED <<config, socks, tables, obj, conns, api>>
    BY <1>1, <1>2 DEF ApiPrivateKey, set_key, config
  <2>2. TypeOK
    BY DEF DeviceInv
  <2>3. api' \in [mode : {"idle", "set", "peer"}, endpoint : Addrs \cup {NoAddr}]
    BY <2>1, <2>2 DEF TypeOK
  <2> QED BY <2>1, <2>3, QuietStep
<1>3. CASE k # key
  <2> DEFINE l == limiter + 1
             Rekeyed(x) == [x EXCEPT !.static = k, !.limiter = l]
             o2 == [p \in DOMAIN obj |-> IF p \in Configured THEN Rekeyed(obj[p]) ELSE obj[p]]
  <2>1. obj' = o2 /\ key' = k /\ limiter' = l /\ limiter < MaxLimiters
    BY <1>3, Zenon DEF ApiPrivateKey, set_key
  <2>2. l \in 0 .. MaxLimiters
    <3>1. limiter \in 0 .. MaxLimiters
      BY Zenon DEF DeviceInv, TypeOK
    <3>2. limiter < MaxLimiters
      BY <2>1, Zenon
    <3>3. MaxLimiters \in Nat
      BY DeviceAssumption
    <3> QED BY <3>1, <3>2, <3>3
  <2>3. obj \in Seq(PeerType) /\ Configured \subseteq DOMAIN obj
    BY DEF DeviceInv, TypeOK
  <2> HIDE DEF l
  <2>4. ASSUME NEW x \in PeerType
        PROVE  /\ Rekeyed(x) \in PeerType /\ Rekeyed(x).static = k /\ Rekeyed(x).limiter = l
               /\ Rekeyed(x).pub = x.pub /\ Rekeyed(x).index = x.index
               /\ Rekeyed(x).allowed = x.allowed /\ Rekeyed(x).conn = x.conn
               /\ Rekeyed(x).endpoint = x.endpoint
    BY <2>2, Zenon DEF PeerType
  <2>5. \A p \in DOMAIN obj : obj[p] \in PeerType
    BY <2>3
  <2> HIDE DEF Rekeyed
  <2>6. \A p \in DOMAIN obj :
          /\ o2[p] \in PeerType
          /\ o2[p].pub = obj[p].pub /\ o2[p].index = obj[p].index
          /\ o2[p].allowed = obj[p].allowed /\ o2[p].conn = obj[p].conn
          /\ o2[p].endpoint = obj[p].endpoint
    BY <2>4, <2>5, Zenon
  <2>7. \A p \in Configured : o2[p].static = k /\ o2[p].limiter = l
    BY <2>3, <2>4, <2>5, Zenon
  <2>8. o2 \in [DOMAIN obj -> PeerType]
    BY <2>6
  <2> HIDE DEF o2
  <2>9. o2 \in Seq(PeerType) /\ Len(o2) = Len(obj) /\ DOMAIN o2 = DOMAIN obj
    BY <2>3, <2>8, SameLength
  <2>10. UNCHANGED <<peers, peers_by_idx, peers_by_ip, next_index, drawn, removed>>
    BY <1>1 DEF tables
  <2>11. Configured' = Configured
    BY <2>10, ZenonT(30) DEF Configured
  <2>12. TypeOK'
    BY <1>1, <2>1, <2>2, <2>9, <2>10 DEF DeviceInv, TypeOK, socks
  <2>13. GeneratorInv'
    <3>1. GeneratorInv
      BY Zenon DEF DeviceInv
    <3>2. DOMAIN obj' = DOMAIN obj /\ \A p \in DOMAIN obj : obj'[p].index = obj[p].index
      BY <2>1, <2>6, <2>9, Zenon
    <3> QED BY <2>10, <3>1, <3>2, SameGenerator, Zenon
  <2>14. IndicesDistinct'
    BY <2>1, <2>6, <2>9, ZenonT(30) DEF DeviceInv, IndicesDistinct
  <2>15. KeysAgree'
    BY <2>1, <2>7, <2>11, Zenon DEF KeysAgree
  <2>16. TablesAgree'
    <3>1. \A q \in PubKeys : peers[q] # NoPeer => peers[q] \in DOMAIN obj
      BY <2>3 DEF Configured
    <3>2. TablesAgree
      BY Zenon DEF DeviceInv
    <3>3. (\A q \in PubKeys : peers[q] # NoPeer =>
             obj[peers[q]].pub = q /\ peers_by_idx[obj[peers[q]].index] = peers[q])'
      BY <2>1, <2>6, <2>10, <3>1, <3>2, Zenon DEF TablesAgree
    <3>4. (\A i \in Indices : peers_by_idx[i] # NoPeer =>
             peers_by_idx[i] \in Configured /\ obj[peers_by_idx[i]].index = i)'
      BY <2>1, <2>3, <2>6, <2>10, <2>11, <3>2, Zenon DEF TablesAgree
    <3>5. (\A n \in Networks : peers_by_ip[n] # NoPeer =>
             peers_by_ip[n] \in Configured /\ obj[peers_by_ip[n]].allowed[n] = 1)'
      BY <2>1, <2>3, <2>6, <2>10, <2>11, <3>2, ZenonT(30) DEF TablesAgree
    <3> QED BY <3>3, <3>4, <3>5 DEF TablesAgree
  <2>17. Wired(obj, conns, Configured, removed, listen_port, fwmark)
    BY DEF DeviceInv
  <2>18. Wired(o2, conns, Configured, removed, listen_port, fwmark)
    BY <2>3, <2>6, <2>9, <2>17, ZenonT(30) DEF Wired
  <2>19. Wired(obj, conns, Configured, removed, listen_port, fwmark)'
    BY <1>1, <2>1, <2>10, <2>11, <2>18, ZenonT(30) DEF Wired, socks
  <2>20. (Configured \subseteq DOMAIN obj /\ removed \subseteq DOMAIN obj /\ removed \cap Configured = {})'
    BY <2>1, <2>9, <2>10, <2>11, Zenon DEF DeviceInv
  <2> QED BY <2>12, <2>13, <2>14, <2>15, <2>16, <2>19, <2>20 DEF DeviceInv
<1> QED BY <1>2, <1>3

(* With no peer configured, no socket is one of a configured peer.         *)
LEMMA ClearPeersStep ==
  ASSUME DeviceInv, clear_peers
  PROVE  DeviceInv'
<1>1. /\ peers' = [k \in PubKeys |-> NoPeer] /\ peers_by_idx' = [i \in Indices |-> NoPeer]
      /\ peers_by_ip' = new
      /\ UNCHANGED <<config, socks, next_index, drawn, removed, obj, conns, api, aborted>>
  BY DEF clear_peers
<1>2. Configured' = {}
  BY <1>1, Zenon DEF Configured, NoPeer
<1>3. TypeOK'
  BY <1>1 DEF DeviceInv, TypeOK, config, socks, new, NoPeer
<1>4. GeneratorInv'
  BY <1>1, Zenon DEF DeviceInv, GeneratorInv
<1>5. IndicesDistinct' /\ KeysAgree'
  BY <1>1, <1>2, Zenon DEF DeviceInv, IndicesDistinct, KeysAgree
<1>6. TablesAgree'
  BY <1>1 DEF TablesAgree, new, NoPeer
<1>7. Wired(obj, conns, Configured, removed, listen_port, fwmark)'
  BY <1>1, <1>2, Zenon DEF DeviceInv, Wired, config, socks
<1> QED BY <1>1, <1>2, <1>3, <1>4, <1>5, <1>6, <1>7 DEF DeviceInv

(* Public keys and indices tell the configured peers apart, so remove_peer *)
(* takes exactly one peer out of each table.                               *)
LEMMA RemovePeerStep ==
  ASSUME DeviceInv, NEW k \in PubKeys, remove_peer(k), UNCHANGED <<config, socks>>,
         api' \in [mode : {"idle", "set", "peer"}, endpoint : Addrs \cup {NoAddr}]
  PROVE  DeviceInv'
<1> DEFINE p == peers[k]
           d == shutdown_endpoint(D, {p})
<1>1. CASE p = NoPeer
  <2>1. UNCHANGED <<tables, obj, conns>>
    BY <1>1, Zenon DEF remove_peer
  <2> QED BY <2>1, QuietStep
<1>2. CASE p # NoPeer
  <2>1. /\ peers' = [peers EXCEPT ![k] = NoPeer]
        /\ peers_by_idx' = [peers_by_idx EXCEPT ![obj[p].index] = NoPeer]
        /\ peers_by_ip' = remove(peers_by_ip, p)
        /\ removed' = removed \cup {p}
        /\ obj' = d.obj /\ conns' = d.conns
        /\ UNCHANGED <<next_index, drawn>>
    BY <1>2, Zenon DEF remove_peer
  <2>2. /\ obj \in Seq(PeerType) /\ Len(obj) <= MaxPeers
        /\ Configured \subseteq DOMAIN obj /\ removed \subseteq DOMAIN obj
        /\ removed \cap Configured = {}
    BY DEF DeviceInv, TypeOK
  <2>3. /\ peers \in [PubKeys -> Peer \cup {NoPeer}]
        /\ peers_by_idx \in [Indices -> Peer \cup {NoPeer}]
        /\ peers_by_ip \in [Networks -> Peer \cup {NoPeer}]
    BY DEF DeviceInv, TypeOK
  <2>4. TablesAgree /\ IndicesDistinct /\ KeysAgree /\ GeneratorInv
    BY DEF DeviceInv
  <2>5. Wired(obj, conns, Configured, removed, listen_port, fwmark)
    BY DEF DeviceInv
  <2>6. p \in Configured /\ {p} \subseteq Configured /\ p \in DOMAIN obj
    <3>1. p \in Configured
      BY <1>2 DEF Configured
    <3> QED BY <3>1, <2>2
  <2>7. /\ Kept(obj, d.obj) /\ Wired(d.obj, d.conns, Configured, removed, listen_port, fwmark)
        /\ \A c \in d.conns : c.peer \in {p} => ~c.open
    <3>1. /\ obj \in Seq(PeerType) /\ Configured \subseteq DOMAIN obj
          /\ Wired(obj, conns, Configured, removed, listen_port, fwmark)
      BY <2>2, <2>5
    <3>2. {p} \subseteq Configured
      BY <2>6
    <3> HIDE DEF p
    <3> QED BY <3>1, <3>2, Shutdown, ZenonT(30) DEF D
  <2> HIDE DEF d
  <2>8. /\ DOMAIN obj' = DOMAIN obj /\ Len(obj') = Len(obj) /\ obj' \in Seq(PeerType)
        /\ \A q \in DOMAIN obj : /\ obj'[q].pub = obj[q].pub /\ obj'[q].index = obj[q].index
                                 /\ obj'[q].allowed = obj[q].allowed
                                 /\ obj'[q].static = obj[q].static
                                 /\ obj'[q].limiter = obj[q].limiter
    BY <2>1, <2>7, Zenon DEF Kept
  <2>9. obj[p].index \in Indices /\ p \in Peer
    <3>1. obj[p] \in PeerType
      BY <2>2, <2>6
    <3>2. p \in Peer
      BY <1>2, <2>3
    <3> QED BY <3>1, <3>2 DEF PeerType
  <2>10. /\ peers'[k] = NoPeer /\ \A j \in PubKeys : j # k => peers'[j] = peers[j]
         /\ peers' \in [PubKeys -> Peer \cup {NoPeer}]
    BY <2>1, <2>3
  <2>11. /\ peers_by_idx'[obj[p].index] = NoPeer
         /\ \A i \in Indices : i # obj[p].index => peers_by_idx'[i] = peers_by_idx[i]
         /\ peers_by_idx' \in [Indices -> Peer \cup {NoPeer}]
    BY <2>1, <2>3, <2>9, Zenon
  <2>12. /\ \A n \in Networks : peers_by_ip'[n] = IF peers_by_ip[n] = p THEN NoPeer ELSE peers_by_ip[n]
         /\ peers_by_ip' \in [Networks -> Peer \cup {NoPeer}]
    BY <2>1, <2>3, Zenon DEF remove, NoPeer
  <2>13. \A j \in PubKeys : j # k => peers[j] # p
    BY <1>2, <2>4 DEF TablesAgree
  <2>14. Configured' = Configured \ {p}
    <3>1. \A x : x \in Configured' <=> x # NoPeer /\ \E j \in PubKeys : x = peers'[j]
      BY DEF Configured
    <3>2. \A x : x \in Configured <=> x # NoPeer /\ \E j \in PubKeys : x = peers[j]
      BY ZenonT(30) DEF Configured
    <3>3. ASSUME NEW x PROVE x \in Configured' <=> x \in Configured /\ x # p
      <4>1. \A j \in PubKeys : peers'[j] = IF j = k THEN NoPeer ELSE peers[j]
        BY <2>10
      <4> QED BY <3>1, <3>2, <1>2, <4>1, <2>13
    <3> QED BY <3>3
  <2> HIDE DEF p
  <2>15. TypeOK'
    <3>1. removed' \subseteq Peer
      BY <2>1, <2>9, ZenonT(30) DEF DeviceInv, TypeOK
    <3>2. conns' \subseteq ConnType
      BY <2>1, <2>7 DEF Wired
    <3>3. next_index' = next_index /\ drawn' = drawn
      BY <2>1
    <3>4. UNCHANGED <<key, limiter, fwmark, can_mark, listen, listen_port, udp_handlers>>
      BY DEF config, socks
    <3>5. TypeOK
      BY DEF DeviceInv
    <3>6. (/\ key \in PrivKeys \cup {NoKey} /\ limiter \in 0 .. MaxLimiters
           /\ fwmark \in 0 .. 1 /\ can_mark \in BOOLEAN
           /\ listen \in 0 .. MaxPort /\ listen_port \in 1 .. MaxPort
           /\ udp_handlers \subseteq 1 .. MaxPort)'
      BY <3>4, <3>5, Zenon DEF TypeOK
    <3>7. (next_index \in [initial : Seeds, lfsr : Word, mask : Seeds] /\ drawn \subseteq Word)'
      BY <3>3, <3>5, Zenon DEF TypeOK
    <3>8. obj' \in Seq(PeerType) /\ Len(obj') <= MaxPeers
      BY <2>2, <2>8, Zenon
    <3>9. /\ peers' \in [PubKeys -> Peer \cup {NoPeer}]
          /\ peers_by_idx' \in [Indices -> Peer \cup {NoPeer}]
          /\ peers_by_ip' \in [Networks -> Peer \cup {NoPeer}]
      BY <2>10, <2>11, <2>12, ZenonT(30)
    <3> QED BY <3>1, <3>2, <3>6, <3>7, <3>8, <3>9, Zenon DEF TypeOK
  <2>16. GeneratorInv'
    <3>1. UNCHANGED <<next_index, drawn>>
      BY <2>1, ZenonT(30)
    <3> QED BY <3>1, <2>4, <2>8 DEF GeneratorInv
  <2>17. IndicesDistinct'
    BY <2>4, <2>8 DEF IndicesDistinct
  <2>18. KeysAgree'
    BY <2>2, <2>4, <2>8, <2>14, ZenonT(30) DEF KeysAgree, config
  <2>19. TablesAgree'
    <3>1. ASSUME NEW j \in PubKeys, peers'[j] # NoPeer
          PROVE  obj'[peers'[j]].pub = j /\ peers_by_idx'[obj'[peers'[j]].index] = peers'[j]
      <4>1. j # k /\ peers'[j] = peers[j] /\ peers[j] # p
        BY <3>1, <2>10, <2>13, Zenon
      <4> DEFINE q == peers[j]
      <4>2. q \in DOMAIN obj /\ obj[q].pub = j /\ peers_by_idx[obj[q].index] = q
        BY <2>2, <2>4, <3>1, <4>1 DEF TablesAgree, Configured
      <4>3. obj[q].index # obj[p].index
        BY <2>4, <2>6, <4>1, <4>2, Zenon DEF IndicesDistinct
      <4>4. obj[q].index \in Indices
        <5>1. obj[q] \in PeerType
          BY <2>2, <4>2
        <5> QED BY <5>1 DEF PeerType
      <4>5. obj'[q].pub = j /\ obj'[q].index = obj[q].index
        BY <2>8, <4>2, Zenon
      <4>6. peers_by_idx'[obj[q].index] = q
        BY <2>11, <4>2, <4>3, <4>4, Zenon
      <4> QED BY <4>1, <4>5, <4>6
    <3>2. ASSUME NEW i \in Indices, peers_by_idx'[i] # NoPeer
          PROVE  peers_by_idx'[i] \in Configured' /\ obj'[peers_by_idx'[i]].index = i
      <4>1. i # obj[p].index /\ peers_by_idx'[i] = peers_by_idx[i]
        BY <3>2, <2>11, Zenon
      <4>2. peers_by_idx[i] \in Configured /\ obj[peers_by_idx[i]].index = i
        BY <2>4, <3>2, <4>1, Zenon DEF TablesAgree
      <4> QED BY <2>2, <2>8, <2>14, <4>1, <4>2
    <3>3. ASSUME NEW n \in Networks, peers_by_ip'[n] # NoPeer
          PROVE  peers_by_ip'[n] \in Configured' /\ obj'[peers_by_ip'[n]].allowed[n] = 1
      <4>1. peers_by_ip'[n] = peers_by_ip[n] /\ peers_by_ip[n] # p
        BY <3>3, <2>12, Zenon
      <4>2. peers_by_ip[n] \in Configured /\ obj[peers_by_ip[n]].allowed[n] = 1
        BY <2>4, <3>3, <4>1, Zenon DEF TablesAgree
      <4> QED BY <2>2, <2>8, <2>14, <4>1, <4>2
    <3> QED BY <3>1, <3>2, <3>3, Zenon DEF TablesAgree
  <2>20. Wired(obj, conns, Configured, removed, listen_port, fwmark)'
    <3>1. Wired(obj', conns', Configured, removed, listen_port, fwmark)
      BY <2>1, <2>7, Zenon
    <3>2. \A c \in conns' : c.peer \in removed' => ~c.open
      <4>1. \A c \in conns' : c.peer \in removed => ~c.open
        BY <3>1 DEF Wired
      <4> QED BY <2>1, <2>7, <4>1, Zenon
    <3>3. /\ listen_port' = listen_port /\ fwmark' = fwmark /\ can_mark' = can_mark
          /\ Configured' \subseteq Configured
      BY <2>14, Zenon DEF config, socks
    <3> QED BY <3>1, <3>2, <3>3 DEF Wired
  <2>21. (Configured \subseteq DOMAIN obj /\ removed \subseteq DOMAIN obj /\ removed \cap Configured = {})'
    BY <2>1, <2>2, <2>6, <2>8, <2>14
  <2> QED BY <2>15, <2>16, <2>17, <2>18, <2>19, <2>20, <2>21, Zenon DEF DeviceInv
<1> QED BY <1>1, <1>2

-----------------------------------------------------------------------------
(* The index generator *)

(* A set of numbers that is not empty has a least member. *)
LEMMA LeastNat ==
  ASSUME NEW S, S \subseteq Nat, S # {}
  PROVE  \E x \in S : \A y \in S : x <= y
<1>1. PICK x \in S : \A y \in S : ~(<<y, x>> \in OpToRel(<, Nat))
  BY NatLessThanWellFounded, WFMin, Zenon
<1>2. SUFFICES ASSUME NEW y \in S, y < x PROVE FALSE
  OBVIOUS
<1>3. <<y, x>> \in Nat \X Nat /\ <<y, x>>[1] < <<y, x>>[2]
  BY <1>2
<1>4. <<y, x>> \in OpToRel(<, Nat)
  BY <1>3, Zenon DEF OpToRel
<1> QED BY <1>1, <1>4, Zenon

(* lfsr - 1 is different for different registers: at the least bit in      *)
(* which they differ the same borrow arrives.                              *)
LEMMA LessOneInjective ==
  ASSUME NEW r \in Word, NEW s \in Word, less_one(r) = less_one(s)
  PROVE  r = s
<1> DEFINE diff == {i \in Positions : r[i] # s[i]}
<1>1. SUFFICES ASSUME diff # {} PROVE FALSE
  BY DEF Word
<1>2. diff \subseteq Nat
  BY LfsrAssumption DEF Positions
<1>3. PICK i \in diff : \A j \in diff : i <= j
  BY <1>1, <1>2, LeastNat, Zenon
<1>4. \A j \in 0 .. i - 1 : j \in Positions /\ r[j] = s[j]
  <2> SUFFICES ASSUME NEW j \in 0 .. i - 1 PROVE j \in Positions /\ r[j] = s[j]
    OBVIOUS
  <2>1. j \in Positions
    BY LfsrAssumption DEF Positions
  <2>2. ~(i <= j)
    BY <1>2
  <2> QED BY <1>3, <2>1, <2>2
<1>5. (\A j \in 0 .. i - 1 : ~r[j]) <=> (\A j \in 0 .. i - 1 : ~s[j])
  BY <1>4, Zenon
<1>6. less_one(r)[i] = (r[i] # (\A j \in 0 .. i - 1 : ~r[j]))
  BY DEF less_one
<1>7. less_one(s)[i] = (s[i] # (\A j \in 0 .. i - 1 : ~s[j]))
  BY DEF less_one
<1>8. r[i] \in BOOLEAN /\ s[i] \in BOOLEAN /\ r[i] # s[i]
  BY DEF Word
<1> QED BY <1>5, <1>6, <1>7, <1>8, Zenon

(* The mask keeps different numbers different. *)
LEMMA XorInjective ==
  ASSUME NEW r \in Word, NEW s \in Word, NEW m \in Word, xor(r, m) = xor(s, m)
  PROVE  r = s
<1>1. SUFFICES ASSUME NEW i \in Positions PROVE r[i] = s[i]
  BY DEF Word
<1>2. (r[i] # m[i]) = (s[i] # m[i])
  BY DEF xor
<1>3. r[i] \in BOOLEAN /\ s[i] \in BOOLEAN /\ m[i] \in BOOLEAN
  BY DEF Word
<1> QED BY <1>2, <1>3

(* Two registers have the same index only if they are equal. *)
LEMMA IndexInjective ==
  ASSUME NEW r \in Word, NEW s \in Word, NEW m \in Word, index(r, m) = index(s, m)
  PROVE  r = s
<1>1. less_one(r) \in Word /\ less_one(s) \in Word
  BY DEF less_one, Word
<1>2. less_one(r) = less_one(s)
  BY <1>1, XorInjective DEF index
<1> QED BY <1>2, LessOneInjective

(* An index has the width of the register.                                 *)
LEMMA IndexType ==
  ASSUME NEW r \in Word, NEW m \in Word
  PROVE  index(r, m) \in Word
BY DEF index, xor, Word

(* The register keeps its width.                                           *)
LEMMA ShiftType ==
  ASSUME NEW r \in Word
  PROVE  shift(r) \in Word
BY DEF shift, Word

(* Two registers step to the same one only if they are equal: the tap on   *)
(* the bit that the shift empties tells what was shifted out.              *)
LEMMA ShiftInjective ==
  ASSUME NEW r \in Word, NEW s \in Word, shift(r) = shift(s)
  PROVE  r = s
<1> DEFINE top == Width - 1
<1>1. top \in Positions /\ 0 \in Positions /\ top \in LFSR_POLY /\ ~(top + 1 < Width)
  BY LfsrAssumption DEF Positions
<1>2. \A i \in Positions : r[i] \in BOOLEAN /\ s[i] \in BOOLEAN
  BY DEF Word
<1>3. \A i \in Positions : shift(r)[i] = ((i + 1 < Width /\ r[i + 1]) # (r[0] /\ i \in LFSR_POLY))
  BY DEF shift
<1>4. \A i \in Positions : shift(s)[i] = ((i + 1 < Width /\ s[i + 1]) # (s[0] /\ i \in LFSR_POLY))
  BY DEF shift
<1>5. r[0] = s[0]
  BY <1>1, <1>2, <1>3, <1>4
<1>6. ASSUME NEW i \in Positions PROVE r[i] = s[i]
  <2>1. CASE i = 0
    BY <2>1, <1>5
  <2>2. CASE i # 0
    <3>1. i - 1 \in Positions /\ (i - 1) + 1 < Width /\ (i - 1) + 1 = i
      BY <2>2, LfsrAssumption DEF Positions
    <3>2. shift(r)[i - 1] = (r[i] # (r[0] /\ i - 1 \in LFSR_POLY))
      BY <3>1, <1>2, <1>3
    <3>3. shift(s)[i - 1] = (s[i] # (s[0] /\ i - 1 \in LFSR_POLY))
      BY <3>1, <1>2, <1>4
    <3> QED BY <3>2, <3>3, <1>2, <1>5
  <2> QED BY <2>1, <2>2
<1> QED BY <1>6 DEF Word

-----------------------------------------------------------------------------
(* The table of prefixes *)

(* The length of a prefix is a number of address bits.                     *)
LEMMA NetworkLength ==
  ASSUME NEW n \in Networks
  PROVE  n.cidr \in 0 .. Bits /\ n.cidr \in Int
<1>1. PICK a \in Address, c \in 0 .. Bits : n = new_truncate(a, c)
  BY DEF Networks
<1>2. n.cidr = c
  BY <1>1 DEF new_truncate
<1> QED BY <1>2

(* Among networks that are not none one has the longest prefix.            *)
LEMMA LongestExists ==
  ASSUME NEW S, S \subseteq Networks, S # {}
  PROVE  \E n \in S : \A m \in S : m.cidr <= n.cidr
<1> DEFINE hosts == {Bits - n.cidr : n \in S}
<1>1. \A n \in S : n.cidr \in 0 .. Bits
  BY NetworkLength
<1>2. hosts \subseteq Nat /\ hosts # {}
  <2>1. \A n \in S : Bits - n.cidr \in Nat
    BY <1>1, BitsAssumption
  <2> QED BY <2>1, Zenon
<1>3. PICK h \in hosts : \A g \in hosts : h <= g
  BY <1>2, LeastNat, Zenon
<1>4. PICK n \in S : h = Bits - n.cidr
  OBVIOUS
<1>5. ASSUME NEW m \in S PROVE m.cidr <= n.cidr
  <2>1. Bits - n.cidr <= Bits - m.cidr
    BY <1>3, <1>4, Zenon
  <2>2. m.cidr \in 0 .. Bits /\ n.cidr \in 0 .. Bits
    BY <1>1
  <2> QED BY <2>1, <2>2, BitsAssumption
<1> QED BY <1>5

(* find returns what the longest network that covers the address holds.    *)
LEMMA FindLongest ==
  ASSUME NEW t, NEW a, Matches(t, a) # {}
  PROVE  \E n \in Matches(t, a) :
           find(t, a) = t[n] /\ \A m \in Matches(t, a) : m.cidr <= n.cidr
<1> DEFINE Longest(n) == \A m \in Matches(t, a) : m.cidr <= n.cidr
<1>1. \E n \in Matches(t, a) : Longest(n)
  BY LongestExists, Zenon DEF Matches
<1> DEFINE n == CHOOSE x \in Matches(t, a) : Longest(x)
<1>2. n \in Matches(t, a) /\ Longest(n)
  BY <1>1, Zenon
<1>3. find(t, a) = t[n]
  BY Zenon DEF find
<1> QED BY <1>2, <1>3, Zenon

(* An address under no network finds nothing.                              *)
LEMMA FindNone ==
  ASSUME NEW t, NEW a, Matches(t, a) = {}
  PROVE  find(t, a) = 0
BY DEF find

(* Where the tables agree, and only there: a packet goes to a peer that    *)
(* may send from its address, by the longest prefix.                       *)
LEMMA RoutesFromTables ==
  ASSUME TablesAgree
  PROVE  RoutesAllowed
<1> SUFFICES ASSUME NEW a \in Address, Route(a) # NoPeer
             PROVE  /\ is_allowed_ip(Route(a), a)
                    /\ \A n \in Matches(peers_by_ip, a) :
                         \E m \in Matches(obj[Route(a)].allowed, a) : m.cidr >= n.cidr
  BY Zenon DEF RoutesAllowed
<1> DEFINE own == obj[Route(a)].allowed
<1>1. Matches(peers_by_ip, a) # {}
  BY FindNone, Zenon DEF Route, NoPeer
<1>2. PICK n \in Matches(peers_by_ip, a) :
        Route(a) = peers_by_ip[n] /\ \A m \in Matches(peers_by_ip, a) : m.cidr <= n.cidr
  BY <1>1, FindLongest, Zenon DEF Route
<1>3. n \in Networks /\ Covers(n, a) /\ own[n] = 1
  BY <1>2, Zenon DEF Matches, TablesAgree
<1>4. n \in Matches(own, a)
  BY <1>3 DEF Matches
<1>5. PICK l \in Matches(own, a) : find(own, a) = own[l]
  BY <1>4, FindLongest, Zenon
<1>6. is_allowed_ip(Route(a), a)
  BY <1>5 DEF is_allowed_ip, Matches
<1>7. ASSUME NEW k \in Matches(peers_by_ip, a)
      PROVE  \E m \in Matches(own, a) : m.cidr >= k.cidr
  <2>1. k.cidr <= n.cidr
    BY <1>2
  <2>2. k.cidr \in Int /\ n.cidr \in Int
    BY NetworkLength DEF Matches
  <2>3. n.cidr >= k.cidr
    BY <2>1, <2>2
  <2> QED BY <1>4, <2>3, Zenon
<1> QED BY <1>6, <1>7, Zenon

-----------------------------------------------------------------------------
(* The addition of a peer *)

(* What a draw of the index generator leaves: GeneratorInv but for peers.  *)
Drawn ==
  /\ next_index' \in [initial : Seeds, lfsr : Word, mask : Seeds]
  /\ drawn' = drawn \cup {next_index.lfsr} /\ drawn' \subseteq Word
  /\ next_index'.mask = next_index.mask
  /\ next_index'.lfsr \notin drawn'
  /\ next_index'.initial \in drawn' \cup {next_index'.lfsr}
  /\ \A d \in drawn' \cup {next_index'.lfsr} :
       d # next_index'.initial => \E e \in drawn' : d = shift(e)

(* y is a peer for section s, with an index that no peer has had.          *)
Fits(y, s) ==
  /\ y \in PeerType
  /\ y.pub = s.pub /\ y.conn = 0 /\ y.static = key /\ y.limiter = 0
  /\ y.index = index(next_index.lfsr, next_index.mask)
  /\ \A n \in NetworksOf(s.ips) : n \in Networks => y.allowed[n] = 1
  /\ \A q \in DOMAIN obj : obj[q].index # y.index

(* The register moves to a value it did not have, unless it is exhausted:  *)
(* only the first value has no predecessor among the drawn ones, and no    *)
(* other value has two.                                                    *)
LEMMA DrawStep ==
  ASSUME DeviceInv, DrawIndex, ~Exhausted(next_index.lfsr, next_index.initial)
  PROVE  Drawn
<1> DEFINE r == next_index.lfsr
           i == next_index.initial
<1>1. /\ next_index \in [initial : Seeds, lfsr : Word, mask : Seeds]
      /\ drawn \subseteq Word /\ r \in Word
      /\ r \notin drawn /\ i \in drawn \cup {r}
      /\ \A d \in drawn \cup {r} : d # i => \E e \in drawn : d = shift(e)
  BY DEF DeviceInv, TypeOK, GeneratorInv
<1>2. shift(r) \in Word /\ shift(r) # i
  BY <1>1, ShiftType DEF Exhausted
<1>3. /\ next_index' = [next_index EXCEPT !.lfsr = shift(next_index.lfsr)]
      /\ drawn' = drawn \cup {r}
  BY DEF DrawIndex
<1>4. /\ next_index'.lfsr = shift(r) /\ next_index'.initial = i
      /\ next_index'.mask = next_index.mask
      /\ next_index' \in [initial : Seeds, lfsr : Word, mask : Seeds]
  BY <1>1, <1>2, <1>3
<1> HIDE DEF r, i
<1>5. shift(r) \notin drawn \cup {r}
  <2> SUFFICES ASSUME shift(r) \in drawn \cup {r} PROVE FALSE
    OBVIOUS
  <2>1. PICK e \in drawn : shift(r) = shift(e)
    BY <1>1, <1>2
  <2>2. r = e
    BY <1>1, <2>1, ShiftInjective
  <2> QED BY <1>1, <2>2
<1>6. ASSUME NEW d \in drawn' \cup {shift(r)}, d # i
      PROVE  \E e \in drawn' : d = shift(e)
  <2>1. CASE d \in drawn \cup {r}
    BY <1>1, <1>3, <1>6, <2>1
  <2>2. CASE d = shift(r)
    BY <1>3, <2>2
  <2> QED BY <1>3, <1>6, <2>1, <2>2
<1>7. drawn' \subseteq Word /\ i \in drawn'
  BY <1>1, <1>3, ZenonT(30)
<1> QED BY <1>3, <1>4, <1>5, <1>6, <1>7, Zenon DEF r, Drawn

(* What add_peer appends is a peer, with an index that no peer has had.    *)
LEMMA NewPeerFits ==
  ASSUME DeviceInv, NEW s \in Section, key # NoKey
  PROVE  Fits(NewPeer(s), s)
<1>1. s.pub \in PubKeys /\ s.endpoint \in Addrs \cup {NoAddr}
  BY Zenon DEF Section
<1>2. /\ key \in PrivKeys
      /\ next_index.lfsr \in Word /\ next_index.mask \in Word
      /\ drawn \subseteq Word
  BY DeviceAssumption DEF DeviceInv, TypeOK, random_index
<1>3. index(next_index.lfsr, next_index.mask) \in Indices
  BY <1>2, IndexType DEF Indices
<1>4. /\ from_iter(s.ips) \in [Networks -> 0 .. 1]
      /\ \A n \in NetworksOf(s.ips) : n \in Networks => from_iter(s.ips)[n] = 1
  BY DEF from_iter, insert, new
<1>5. 0 \in 0 .. MaxConns /\ 0 \in 0 .. MaxLimiters
  BY DeviceAssumption
<1>6. ASSUME NEW q \in DOMAIN obj, obj[q].index = index(next_index.lfsr, next_index.mask)
      PROVE  FALSE
  <2>1. PICK e \in drawn : obj[q].index = index(e, next_index.mask)
    BY DEF DeviceInv, GeneratorInv
  <2>2. e = next_index.lfsr
    BY <1>2, <1>6, <2>1, IndexInjective, Zenon
  <2> QED BY <2>2, Zenon DEF DeviceInv, GeneratorInv
<1>7. NewPeer(s) \in PeerType
  BY <1>1, <1>2, <1>3, <1>4, <1>5, ZenonT(30) DEF NewPeer, PeerType
<1>8. /\ NewPeer(s).pub = s.pub /\ NewPeer(s).conn = 0
      /\ NewPeer(s).static = key /\ NewPeer(s).limiter = 0
      /\ NewPeer(s).index = index(next_index.lfsr, next_index.mask)
      /\ NewPeer(s).allowed = from_iter(s.ips)
  BY DEF NewPeer
<1> QED BY <1>4, <1>6, <1>7, <1>8 DEF Fits

-----------------------------------------------------------------------------
(* The invariant is kept by every step *)

(* The new peer has a place, a key in the tables and an index of its own,  *)
(* and no socket; without a private key only the generator moves.          *)
LEMMA AddPeerStep ==
  ASSUME DeviceInv, NEW s \in Section, peers[s.pub] = NoPeer,
         Len(obj) < MaxPeers, Drawn, key # NoKey => Fits(NewPeer(s), s),
         add_peer(s), UNCHANGED <<removed, conns, config, socks>>,
         api' \in [mode : {"idle", "set", "peer"}, endpoint : Addrs \cup {NoAddr}]
  PROVE  DeviceInv'
<1>1. /\ next_index' \in [initial : Seeds, lfsr : Word, mask : Seeds]
      /\ drawn' = drawn \cup {next_index.lfsr} /\ drawn' \subseteq Word
      /\ next_index'.mask = next_index.mask
      /\ next_index'.lfsr \notin drawn'
      /\ next_index'.initial \in drawn' \cup {next_index'.lfsr}
      /\ \A d \in drawn' \cup {next_index'.lfsr} :
           d # next_index'.initial => \E e \in drawn' : d = shift(e)
  BY ZenonT(30) DEF Drawn
<1>2. \A q \in DOMAIN obj : \E e \in drawn : obj[q].index = index(e, next_index.mask)
  BY Zenon DEF DeviceInv, GeneratorInv
<1>3. CASE key = NoKey
  <2>1. UNCHANGED <<obj, peers, peers_by_idx, peers_by_ip>>
    BY <1>3 DEF add_peer
  <2>2. Configured' = Configured
    BY <2>1, ZenonT(30) DEF Configured
  <2>3. TypeOK'
    BY <1>1, <2>1 DEF DeviceInv, TypeOK, config, socks
  <2>4. GeneratorInv'
    BY <1>1, <1>2, <2>1, ZenonT(30) DEF GeneratorInv
  <2>5. IndicesDistinct' /\ KeysAgree'
    BY <2>1, <2>2, Zenon DEF DeviceInv, IndicesDistinct, KeysAgree, config
  <2>6. TablesAgree'
    BY <2>1, <2>2, Zenon DEF DeviceInv, TablesAgree
  <2>7. Wired(obj, conns, Configured, removed, listen_port, fwmark)'
    BY <2>1, <2>2, ZenonT(30) DEF DeviceInv, Wired, config, socks
  <2> QED BY <2>1, <2>2, <2>3, <2>4, <2>5, <2>6, <2>7, Zenon DEF DeviceInv
<1>4. CASE key # NoKey
  <2> DEFINE y == NewPeer(s)
             p == Len(obj) + 1
             k == s.pub
  <2>1. /\ obj' = Append(obj, y)
        /\ peers' = [peers EXCEPT ![k] = p]
        /\ peers_by_idx' = [peers_by_idx EXCEPT ![y.index] = p]
        /\ peers_by_ip' = insert(peers_by_ip, s.ips, p)
    BY <1>4 DEF add_peer
  <2>2. /\ y \in PeerType /\ y.pub = k /\ y.conn = 0 /\ y.static = key /\ y.limiter = 0
        /\ y.index = index(next_index.lfsr, next_index.mask)
        /\ \A n \in NetworksOf(s.ips) : n \in Networks => y.allowed[n] = 1
        /\ \A q \in DOMAIN obj : obj[q].index # y.index
    BY <1>4, Zenon DEF Fits
  <2> HIDE DEF y
  <2>3. /\ obj \in Seq(PeerType) /\ Len(obj) <= MaxPeers
        /\ Configured \subseteq DOMAIN obj /\ removed \subseteq DOMAIN obj
        /\ removed \cap Configured = {}
        /\ peers \in [PubKeys -> Peer \cup {NoPeer}]
        /\ peers_by_idx \in [Indices -> Peer \cup {NoPeer}]
        /\ peers_by_ip \in [Networks -> Peer \cup {NoPeer}]
    BY DEF DeviceInv, TypeOK
  <2>4. TablesAgree /\ IndicesDistinct /\ KeysAgree
    BY Zenon DEF DeviceInv
  <2>5. Wired(obj, conns, Configured, removed, listen_port, fwmark)
    BY Zenon DEF DeviceInv
  <2>6. k \in PubKeys /\ y.index \in Indices
    BY <2>2, Zenon DEF PeerType
  <2>7. p \in Peer /\ p # NoPeer /\ p \notin DOMAIN obj
    <3>1. Len(obj) \in Nat /\ MaxPeers \in Nat /\ DOMAIN obj = 1 .. Len(obj)
      BY <2>3, DeviceAssumption
    <3> QED BY <3>1 DEF Peer, NoPeer
  <2>8. /\ obj' \in Seq(PeerType) /\ DOMAIN obj' = DOMAIN obj \cup {p} /\ obj'[p] = y
        /\ \A q \in DOMAIN obj : obj'[q] = obj[q]
        /\ Len(obj') <= MaxPeers
    <3>1. /\ obj' \in Seq(PeerType) /\ Len(obj') = Len(obj) + 1
          /\ DOMAIN obj' = DOMAIN obj \cup {Len(obj) + 1} /\ obj'[Len(obj) + 1] = y
          /\ \A q \in DOMAIN obj : obj'[q] = obj[q]
      <4>1. obj \in Seq(PeerType) /\ y \in PeerType
        BY <2>2, <2>3, Zenon
      <4>2. /\ Append(obj, y) \in Seq(PeerType) /\ Len(Append(obj, y)) = Len(obj) + 1
            /\ DOMAIN Append(obj, y) = DOMAIN obj \cup {Len(obj) + 1}
            /\ Append(obj, y)[Len(obj) + 1] = y
            /\ \A q \in DOMAIN obj : Append(obj, y)[q] = obj[q]
        BY <4>1, Extended, Zenon
      <4> QED BY <2>1, <4>2, Zenon
    <3>2. Len(obj) + 1 <= MaxPeers
      <4>1. Len(obj) \in Nat /\ MaxPeers \in Nat
        BY <2>3, DeviceAssumption
      <4> QED BY <4>1
    <3> QED BY <3>1, <3>2, Zenon
  <2> HIDE DEF p, k
  <2>9. /\ peers'[k] = p /\ \A j \in PubKeys : j # k => peers'[j] = peers[j]
        /\ peers' \in [PubKeys -> Peer \cup {NoPeer}] /\ peers[k] = NoPeer
    BY <2>1, <2>3, <2>6, <2>7, Zenon DEF k
  <2>10. /\ peers_by_idx'[y.index] = p
         /\ \A i \in Indices : i # y.index => peers_by_idx'[i] = peers_by_idx[i]
         /\ peers_by_idx' \in [Indices -> Peer \cup {NoPeer}]
    BY <2>1, <2>3, <2>6, <2>7, Zenon
  <2>11. /\ \A n \in Networks :
              peers_by_ip'[n] = IF n \in NetworksOf(s.ips) THEN p ELSE peers_by_ip[n]
         /\ peers_by_ip' \in [Networks -> Peer \cup {NoPeer}]
    BY <2>1, <2>3, <2>7 DEF insert
  <2>12. Configured' = Configured \cup {p}
    <3>1. \A x : x \in Configured' <=> x # NoPeer /\ \E j \in PubKeys : x = peers'[j]
      BY DEF Configured
    <3>2. \A x : x \in Configured <=> x # NoPeer /\ \E j \in PubKeys : x = peers[j]
      BY ZenonT(30) DEF Configured
    <3>3. ASSUME NEW x PROVE x \in Configured' <=> x \in Configured \/ x = p
      <4>1. ASSUME x \in Configured' PROVE x \in Configured \/ x = p
        <5>1. PICK j \in PubKeys : x # NoPeer /\ x = peers'[j]
          BY <3>1, <4>1, Zenon
        <5> QED BY <3>2, <2>9, <5>1, Zenon
      <4>2. ASSUME x \in Configured PROVE x \in Configured'
        <5>1. PICK j \in PubKeys : x # NoPeer /\ x = peers[j]
          BY <3>2, <4>2, Zenon
        <5>2. peers'[j] = x
          BY <2>9, <5>1, Zenon
        <5> QED BY <3>1, <5>1, <5>2, Zenon
      <4>3. p \in Configured'
        BY <3>1, <2>6, <2>7, <2>9, Zenon
      <4> QED BY <4>1, <4>2, <4>3, Zenon
    <3> QED BY <3>3, Zenon
  <2>13. TypeOK'
    BY <1>1, <2>8, <2>9, <2>10, <2>11, ZenonT(30) DEF DeviceInv, TypeOK, config, socks
  <2>14. GeneratorInv'
    <3>1. \A q \in DOMAIN obj' : \E e \in drawn' : obj'[q].index = index(e, next_index'.mask)
      <4>1. obj'[p].index = index(next_index.lfsr, next_index'.mask) /\ next_index.lfsr \in drawn'
        BY <1>1, <2>2, <2>8, Zenon
      <4>2. ASSUME NEW q \in DOMAIN obj
            PROVE  \E e \in drawn' : obj'[q].index = index(e, next_index'.mask)
        <5>1. PICK e \in drawn : obj[q].index = index(e, next_index.mask)
          BY <1>2, Zenon
        <5>2. e \in drawn' /\ obj'[q].index = index(e, next_index'.mask)
          BY <1>1, <2>8, <5>1, Zenon
        <5> QED BY <5>2, Zenon
      <4> QED BY <2>8, <4>1, <4>2, Zenon
    <3> QED BY <1>1, <3>1, ZenonT(30) DEF GeneratorInv
  <2>15. IndicesDistinct'
    BY <2>2, <2>4, <2>8, ZenonT(30) DEF IndicesDistinct
  <2>16. KeysAgree'
    BY <2>2, <2>3, <2>4, <2>8, <2>12, ZenonT(30) DEF KeysAgree, config
  <2>17. TablesAgree'
    <3>1. ASSUME NEW j \in PubKeys, peers'[j] # NoPeer
          PROVE  obj'[peers'[j]].pub = j /\ peers_by_idx'[obj'[peers'[j]].index] = peers'[j]
      <4>1. CASE j = k
        BY <4>1, <2>2, <2>8, <2>9, <2>10, ZenonT(30)
      <4>2. CASE j # k
        <5> DEFINE q == peers[j]
        <5>1. peers'[j] = q
          BY <4>2, <2>9, ZenonT(30)
        <5>2. q \in DOMAIN obj /\ obj[q].pub = j /\ peers_by_idx[obj[q].index] = q
          BY <2>3, <2>4, <3>1, <5>1 DEF TablesAgree, Configured
        <5>3. obj'[q] = obj[q] /\ obj[q].index # y.index
          BY <2>2, <2>8, <5>2, ZenonT(30)
        <5>4. obj[q].index \in Indices
          <6>1. obj[q] \in PeerType
            BY <2>3, <5>2, PeerTyped, Zenon
          <6> QED BY <6>1, Zenon DEF PeerType
        <5> QED BY <2>10, <5>1, <5>2, <5>3, <5>4, ZenonT(30)
      <4> QED BY <4>1, <4>2, ZenonT(30)
    <3>2. ASSUME NEW i \in Indices, peers_by_idx'[i] # NoPeer
          PROVE  peers_by_idx'[i] \in Configured' /\ obj'[peers_by_idx'[i]].index = i
      <4>1. CASE i = y.index
        BY <4>1, <2>8, <2>10, <2>12, Zenon
      <4>2. CASE i # y.index
        <5>1. peers_by_idx'[i] = peers_by_idx[i]
          BY <4>2, <2>10
        <5>2. peers_by_idx[i] \in Configured /\ obj[peers_by_idx[i]].index = i
          BY <2>4, <3>2, <5>1, ZenonT(30) DEF TablesAgree
        <5> QED BY <2>3, <2>8, <2>12, <5>1, <5>2, ZenonT(30)
      <4> QED BY <4>1, <4>2, Zenon
    <3>3. ASSUME NEW n \in Networks, peers_by_ip'[n] # NoPeer
          PROVE  peers_by_ip'[n] \in Configured' /\ obj'[peers_by_ip'[n]].allowed[n] = 1
      <4>1. CASE n \in NetworksOf(s.ips)
        BY <4>1, <2>2, <2>8, <2>11, <2>12, ZenonT(30)
      <4>2. CASE n \notin NetworksOf(s.ips)
        <5>1. peers_by_ip'[n] = peers_by_ip[n]
          BY <4>2, <2>11, ZenonT(30)
        <5>2. peers_by_ip[n] \in Configured /\ obj[peers_by_ip[n]].allowed[n] = 1
          BY <2>4, <3>3, <5>1, Zenon DEF TablesAgree
        <5> QED BY <2>3, <2>8, <2>12, <5>1, <5>2, ZenonT(30)
      <4> QED BY <4>1, <4>2
    <3> QED BY <3>1, <3>2, <3>3, ZenonT(30) DEF TablesAgree
  <2>18. Wired(obj', conns, Configured \cup {p}, removed, listen_port, fwmark)
    <3>1. \A c \in conns : c.peer \in DOMAIN obj /\ c.peer # p
      BY <2>5, <2>7, ZenonT(30) DEF Wired
    <3>2. ASSUME NEW c \in conns, c.open, c.peer \in Configured \cup {p}
          PROVE  /\ obj'[c.peer].conn = c.id /\ obj'[c.peer].endpoint = c.addr
                 /\ c.port = listen_port /\ (can_mark => c.mark = fwmark)
      <4>1. c.peer \in Configured /\ obj'[c.peer] = obj[c.peer]
        BY <2>8, <3>1, <3>2, ZenonT(30)
      <4> QED BY <2>5, <3>2, <4>1, ZenonT(30) DEF Wired
    <3>3. ASSUME NEW q \in Configured \cup {p}, obj'[q].conn # 0
          PROVE  \E c \in conns : c.peer = q /\ c.id = obj'[q].conn /\ c.open
      <4>1. q \in Configured /\ obj'[q] = obj[q]
        BY <2>2, <2>3, <2>8, <3>3, ZenonT(30)
      <4> QED BY <2>5, <3>3, <4>1 DEF Wired
    <3> QED BY <2>5, <2>8, <3>1, <3>2, <3>3, ZenonT(30) DEF Wired
  <2>19. Wired(obj, conns, Configured, removed, listen_port, fwmark)'
    BY <2>12, <2>18, ZenonT(30) DEF Wired, config, socks
  <2>20. (Configured \subseteq DOMAIN obj /\ removed \subseteq DOMAIN obj /\ removed \cap Configured = {})'
    BY <2>3, <2>7, <2>8, <2>12, ZenonT(30)
  <2> QED BY <2>13, <2>14, <2>15, <2>16, <2>17, <2>19, <2>20, Zenon DEF DeviceInv
<1> QED BY <1>3, <1>4

(* A peer's section: a removal, an addition, or a panic that changes none  *)
(* of the state.                                                           *)
LEMMA SetPeerStep ==
  ASSUME DeviceInv, NEW s \in Section, NEW last \in BOOLEAN, api_set_peer(s, last)
  PROVE  DeviceInv'
<1>1. UNCHANGED <<config, socks>> /\ update_peer(s)
  BY Zenon DEF api_set_peer
<1>2. s.pub \in PubKeys /\ s.endpoint \in Addrs \cup {NoAddr}
  BY Zenon DEF Section
<1>3. api' \in [mode : {"idle", "set", "peer"}, endpoint : Addrs \cup {NoAddr}]
  BY <1>2, ZenonT(30) DEF api_set_peer, NoRequest, Request
<1>4. CASE s.remove
  BY <1>1, <1>2, <1>3, <1>4, RemovePeerStep, Zenon DEF update_peer
<1>5. CASE ~s.remove /\ ( \/ peers[s.pub] # NoPeer
                         \/ Exhausted(next_index.lfsr, next_index.initial))
  <2>1. UNCHANGED <<tables, obj, conns>>
    BY <1>1, <1>5, Zenon DEF update_peer
  <2> QED BY <1>1, <1>3, <2>1, QuietStep
<1>6. CASE /\ ~s.remove /\ peers[s.pub] = NoPeer
           /\ ~Exhausted(next_index.lfsr, next_index.initial)
  <2>1. /\ Len(obj) < MaxPeers /\ DrawIndex /\ add_peer(s)
        /\ UNCHANGED <<removed, conns>>
    BY <1>1, <1>6, Zenon DEF update_peer
  <2>2. Drawn
    BY <1>6, <2>1, DrawStep
  <2>3. key # NoKey => Fits(NewPeer(s), s)
    BY NewPeerFits
  <2> QED BY <1>1, <1>3, <1>6, <2>1, <2>2, <2>3, AddPeerStep, Zenon
<1> QED BY <1>4, <1>5, <1>6

(* DeviceInv is inductive: no line of a request and no handler breaks it.  *)
LEMMA DeviceStep == DeviceInv /\ [Next]_vars => DeviceInv'
<1> SUFFICES ASSUME DeviceInv, [Next]_vars PROVE DeviceInv'
  BY Zenon
<1> DEFINE ApiType == [mode : {"idle", "set", "peer"}, endpoint : Addrs \cup {NoAddr}]
<1>1. api \in ApiType /\ NoRequest \in ApiType
      /\ Request("set", NoAddr) \in ApiType /\ Request("peer", NoAddr) \in ApiType
  BY DEF DeviceInv, TypeOK, NoRequest, Request
<1>2. CASE ApiSet \/ ApiError \/ ApiEnd \/ ApiPublicKey \/ UdpNoKey \/ IfaceNotConnected \/ UNCHANGED vars
  <2>1. UNCHANGED <<config, socks, tables, obj, conns>> /\ api' \in ApiType
    BY <1>1, <1>2, Zenon
    DEF ApiSet, ApiError, ApiEnd, ApiPublicKey, UdpNoKey, IfaceNotConnected, vars
  <2> QED BY <2>1, QuietStep
<1>3. CASE clear_peers
  BY <1>3, ClearPeersStep
<1>4. ASSUME NEW k \in PrivKeys, ApiPrivateKey(k) PROVE DeviceInv'
  BY <1>4, PrivateKeyStep
<1>5. ASSUME NEW bound \in BOOLEAN, ApiListenPort(bound) PROVE DeviceInv'
  BY <1>5, ListenPortStep
<1>6. CASE ApiFwmark(1)
  <2>1. 1 \in 0 .. 1
    OBVIOUS
  <2> QED BY <1>6, <2>1, FwmarkStep
<1>7. ASSUME NEW s \in Section, NEW last \in BOOLEAN, api_set_peer(s, last) PROVE DeviceInv'
  BY <1>7, SetPeerStep
<1>8. ASSUME NEW p \in Routed, NEW addr \in Addrs, NEW connected \in ConnectOutcomes,
             UdpPacket(p, addr, connected)
      PROVE  DeviceInv'
  <2>1. connected \in BOOLEAN
    BY DeviceAssumption
  <2> QED BY <1>8, <2>1, UdpPacketStep, Zenon
<1>9. ASSUME NEW p \in Configured, TimerExpired(p) PROVE DeviceInv'
  BY <1>9, TimerExpiredStep
<1>10. ASSUME NEW c \in conns, ConnEof(c) PROVE DeviceInv'
  BY <1>10, ConnEofStep
<1>11. CASE Api
  BY <1>2, <1>3, <1>4, <1>5, <1>6, <1>7, <1>11, Zenon DEF Api
<1>12. CASE Handlers
  BY <1>2, <1>8, <1>9, <1>10, <1>12, Zenon DEF Handlers
<1> QED BY <1>2, <1>11, <1>12 DEF Next

-----------------------------------------------------------------------------
(* Theorems *)

(* The inductive invariant holds in every reachable state of the device.   *)
THEOREM DeviceInvariance == Spec => []DeviceInv
BY DeviceInit, DeviceStep, PTL DEF Spec

(* Every variable has its type, for any number of peers, ports and keys:   *)
(* a peer never gets a tunnel without a private key (update_peer).         *)
THEOREM DeviceTypes == Spec => []TypeOK
<1>1. DeviceInv => TypeOK
  BY DEF DeviceInv
<1> QED BY <1>1, DeviceInvariance, PTL

(* peers, peers_by_idx and peers_by_ip agree after every addition, removal *)
(* and replacement (update_peer, remove_peer, clear_peers).                *)
THEOREM DeviceTables == Spec => []TablesAgree
<1>1. DeviceInv => TablesAgree
  BY DEF DeviceInv
<1> QED BY <1>1, DeviceInvariance, PTL

(* Routing agrees with the source check, by the longest prefix, for any    *)
(* number of address bits (register_iface_handler, is_allowed_ip).         *)
THEOREM DeviceRoutes == Spec => []RoutesAllowed
<1>1. DeviceInv => RoutesAllowed
  BY RoutesFromTables DEF DeviceInv
<1> QED BY <1>1, DeviceInvariance, PTL

(* No two peers ever share an index, for a register of any width whose     *)
(* emptied bit is tapped, from any seed and mask (IndexLfsr::next).        *)
THEOREM DeviceIndices == Spec => []IndicesDistinct
<1>1. DeviceInv => IndicesDistinct
  BY DEF DeviceInv
<1> QED BY <1>1, DeviceInvariance, PTL

(* Every configured peer uses the device's key and no old limiter          *)
(* (set_key, update_peer).                                                 *)
THEOREM DeviceKeys == Spec => []KeysAgree
<1>1. DeviceInv => KeysAgree
  BY Zenon DEF DeviceInv
<1> QED BY <1>1, DeviceInvariance, PTL

(* The open connected sockets of the configured peers are current          *)
(* (set_endpoint, connect_endpoint, shutdown_endpoint, set_fwmark).        *)
THEOREM DeviceConnections == Spec => []ConnectionsCurrent
<1>1. DeviceInv => ConnectionsCurrent
  BY Zenon DEF DeviceInv, Wired, ConnectionsCurrent
<1> QED BY <1>1, DeviceInvariance, PTL

(* A peer that remove_peer took out never has an open socket again.        *)
THEOREM DeviceRemoved == Spec => []RemovedSilent
<1>1. DeviceInv => RemovedSilent
  BY DEF DeviceInv, Wired, RemovedSilent
<1> QED BY <1>1, DeviceInvariance, PTL
=============================================================================
