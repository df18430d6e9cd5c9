------------------------- MODULE RemoteControlProofs -------------------------
(***************************************************************************)
(* Theorems about RemoteControl for every set of connections and commands, *)
(* every rate limit and every number of faults.                            *)
(***************************************************************************)
EXTENDS RemoteControl, SequenceLemmas

(* What the steps of a flush and of a send are made of.                    *)

\* A row of a flush, or a command, goes to a connection or vanishes.
SendsTo(conn, m) ==
    \/ /\ link[conn] = "up"
       /\ wire' = [wire EXCEPT ![conn] = Append(@, m)]
       /\ lost' = lost
    \/ /\ link[conn] # "up"
       /\ wire' = wire
       /\ lost' = lost \union {m}

LEMMA SendsEither ==
    ASSUME NEW conn, NEW m, wire' = Sent(conn, m), lost' = Vanished(conn, m)
    PROVE  SendsTo(conn, m)
BY DEF Sent, Vanished, SendsTo

LEMMA SendsType ==
    ASSUME RelayTypeOK, NEW conn \in Conns, NEW m \in Cmds, SendsTo(conn, m)
    PROVE  wire' \in [Conns -> Seq(Cmds)] /\ lost' \in SUBSET Cmds
PROOF
<1>1. lost' \in SUBSET Cmds  BY DEF SendsTo, RelayTypeOK
<1>2. CASE link[conn] = "up"
  <2>1. wire[conn] \in Seq(Cmds)  BY DEF RelayTypeOK
  <2>2. Append(wire[conn], m) \in Seq(Cmds)  BY <2>1, AppendFacts
  <2> QED  BY <1>1, <1>2, <2>2 DEF SendsTo, RelayTypeOK
<1>3. CASE link[conn] # "up"  BY <1>1, <1>3 DEF SendsTo, RelayTypeOK
<1> QED  BY <1>2, <1>3

\* What a send leaves on the wires.
LEMMA SendsWire ==
    ASSUME RelayTypeOK, NEW conn \in Conns, NEW m \in Cmds, SendsTo(conn, m)
    PROVE  /\ \A c \in Conns : c # conn \/ link[c] # "up" => wire'[c] = wire[c]
           /\ \A c \in Conns : ToSet(wire'[c]) \subseteq ToSet(wire[c]) \union {m}
           /\ \A c \in Conns : \A x : x # m => ToSet(wire'[c]) \ {m} = ToSet(wire[c]) \ {m}
           /\ \A c \in Conns : \A x : x # m /\ Once(wire[c], x) => Once(wire'[c], x)
           /\ \A c \in Conns : m \notin ToSet(wire[c]) /\ Once(wire[c], m) => Once(wire'[c], m)
PROOF
<1>1. wire \in [Conns -> Seq(Cmds)]  BY DEF RelayTypeOK
<1>2. CASE link[conn] = "up"
  <2>1. /\ ToSet(Append(wire[conn], m)) = ToSet(wire[conn]) \union {m}
        /\ \A x : Once(wire[conn], x) /\ (x = m => m \notin ToSet(wire[conn]))
                    => Once(Append(wire[conn], m), x)
    BY <1>1, AppendFacts
  <2>2. /\ wire'[conn] = Append(wire[conn], m)
        /\ \A c \in Conns \ {conn} : wire'[c] = wire[c]
    BY <1>1, <1>2 DEF SendsTo
  <2> QED  BY <1>2, <2>1, <2>2
<1>3. CASE link[conn] # "up"
  BY <1>3 DEF SendsTo
<1> QED  BY <1>2, <1>3

\* One row of a flush: sent and marked, or left as it is.
RowGoes(c, reg, m, rest, done) ==
    /\ rowsLeft' = [rowsLeft EXCEPT ![c] = rest]
    /\ \/ /\ reg \in Conns /\ link[reg] # "closed"
          /\ SendsTo(reg, m)
          /\ marked' = [marked EXCEPT ![c] = done \union {m}]
       \/ /\ reg = NoConn \/ link[reg] = "closed"
          /\ wire' = wire /\ lost' = lost
          /\ marked' = [marked EXCEPT ![c] = done]

LEMMA RowEither ==
    ASSUME NEW c, NEW reg \in Conns \union {NoConn}, NEW m, NEW rest, NEW done,
           SendRow(c, reg, m, rest, done)
    PROVE  RowGoes(c, reg, m, rest, done)
PROOF
<1>1. CASE CanSend(reg)
  <2>1. reg \in Conns /\ link[reg] # "closed"  BY <1>1 DEF CanSend
  <2>2. SendsTo(reg, m)  BY <1>1, SendsEither DEF SendRow
  <2> QED  BY <1>1, <2>1, <2>2 DEF SendRow, RowGoes
<1>2. CASE ~CanSend(reg)
  BY <1>2 DEF SendRow, RowGoes, CanSend
<1> QED  BY <1>1, <1>2

LEMMA RowType ==
    ASSUME RelayTypeOK, NEW c \in Conns, NEW reg, NEW m \in Cmds,
           NEW rest \in Seq(Cmds), NEW done \in SUBSET Cmds,
           RowGoes(c, reg, m, rest, done)
    PROVE  /\ rowsLeft' \in [Conns -> Seq(Cmds)] /\ marked' \in [Conns -> SUBSET Cmds]
           /\ wire' \in [Conns -> Seq(Cmds)] /\ lost' \in SUBSET Cmds
PROOF
<1>1. rowsLeft' \in [Conns -> Seq(Cmds)]  BY DEF RowGoes, RelayTypeOK
<1>2. marked' \in [Conns -> SUBSET Cmds]
  <2>1. PICK new \in SUBSET Cmds : marked' = [marked EXCEPT ![c] = new]
    BY DEF RowGoes
  <2>2. marked \in [Conns -> SUBSET Cmds]  BY DEF RelayTypeOK
  <2> QED  BY <2>1, <2>2
<1>3. wire' \in [Conns -> Seq(Cmds)] /\ lost' \in SUBSET Cmds
  BY SendsType DEF RowGoes, RelayTypeOK
<1> QED  BY <1>1, <1>2, <1>3

\* Registration sends nothing: there is no row, or the table cannot be read.
FlushesNothing(c) ==
    /\ handler' = [handler EXCEPT ![c] = "loop"]
    /\ UNCHANGED <<rowsLeft, marked, wire, lost>>
    /\ pending = <<>> \/ unread' = ToSet(pending)

\* Registration sends the first row.
FlushesFirst(c) ==
    /\ pending # <<>>
    /\ handler' = [handler EXCEPT ![c] = "flush"]
    /\ SendRow(c, c, Head(pending), Tail(pending), {})

LEMMA RegisterEither ==
    ASSUME NEW c, Register(c)
    PROVE  FlushesNothing(c) \/ FlushesFirst(c)
BY DEF Register, ReadRows, ReadFails, FlushesNothing, FlushesFirst

LEMMA RegisterRow ==
    ASSUME RelayTypeOK, NEW c \in Conns, Register(c), FlushesFirst(c)
    PROVE  /\ Head(pending) \in Cmds /\ Tail(pending) \in Seq(Cmds)
           /\ RowGoes(c, c, Head(pending), Tail(pending), {})
           /\ SendsTo(c, Head(pending))
           /\ marked' = [marked EXCEPT ![c] = {Head(pending)}]
PROOF
<1>1. Head(pending) \in Cmds /\ Tail(pending) \in Seq(Cmds)
  BY HeadFacts DEF RelayTypeOK, FlushesFirst
<1>2. RowGoes(c, c, Head(pending), Tail(pending), {})
  BY RowEither DEF FlushesFirst
<1>3. c # NoConn /\ link[c] # "closed"  BY RelayAssumption DEF Register
<1> QED  BY <1>1, <1>2, <1>3 DEF RowGoes

LEMMA FlushRowGoes ==
    ASSUME RelayTypeOK, NEW c \in Conns, FlushRow(c)
    PROVE  /\ Head(rowsLeft[c]) \in Cmds /\ Tail(rowsLeft[c]) \in Seq(Cmds)
           /\ RowGoes(c, registered, Head(rowsLeft[c]), Tail(rowsLeft[c]), marked[c])
PROOF
<1>1. rowsLeft[c] \in Seq(Cmds) /\ rowsLeft[c] # <<>> /\ registered \in Conns \union {NoConn}
  BY DEF FlushRow, RelayTypeOK
<1> QED  BY <1>1, HeadFacts, RowEither DEF FlushRow
----------------------------------------------------------------------------
LEMMA RelayConstants ==
    /\ NoConn \notin Conns /\ MaxCmds \in Nat \ {0} /\ MaxBackoff \in Nat \ {0}
    /\ MaxCuts \in Nat
BY RelayAssumption

LEMMA RelayTypeStep ==
    ASSUME RelayTypeOK, [RelayNext]_relayVars
    PROVE  RelayTypeOK'
PROOF
<1>1. ASSUME NEW m \in Cmds, RelayCommand(m)
      PROVE  RelayTypeOK'
  <2>1. registered \in Conns  BY <1>1 DEF RelayCommand, CanSend, RelayTypeOK
  <2>2. SendsTo(registered, m)  BY <1>1, SendsEither DEF RelayCommand
  <2>3. wire' \in [Conns -> Seq(Cmds)] /\ lost' \in SUBSET Cmds
    BY <2>1, <2>2, SendsType
  <2> QED  BY <1>1, <2>3, RelayConstants DEF RelayCommand, RelayTypeOK
<1>2. ASSUME NEW m \in Cmds, NEW ok \in BOOLEAN, QueueCommand(m, ok)
      PROVE  RelayTypeOK'
  <2>1. Append(pending, m) \in Seq(Cmds)  BY AppendFacts DEF RelayTypeOK
  <2>2. pending' \in Seq(Cmds) /\ lost' \in SUBSET Cmds
    BY <1>2, <2>1 DEF QueueCommand, RelayTypeOK
  <2> QED  BY <1>2, <2>2, RelayConstants DEF QueueCommand, RelayTypeOK
<1>3. ASSUME NEW c \in Conns, Register(c)
      PROVE  RelayTypeOK'
  <2>1. /\ rowsLeft' \in [Conns -> Seq(Cmds)] /\ marked' \in [Conns -> SUBSET Cmds]
        /\ wire' \in [Conns -> Seq(Cmds)] /\ lost' \in SUBSET Cmds
    <3>1. CASE FlushesNothing(c)
      BY <3>1 DEF FlushesNothing, RelayTypeOK
    <3>2. CASE FlushesFirst(c)
      <4>1. {} \in SUBSET Cmds  OBVIOUS
      <4> QED  BY <1>3, <3>2, <4>1, RegisterRow, RowType
    <3> QED  BY <1>3, <3>1, <3>2, RegisterEither
  <2>2. overlapped' \in BOOLEAN
    <3>1. overlapped' = (overlapped \/ registered # NoConn)  BY <1>3 DEF Register
    <3> QED  BY <3>1, Zenon
  <2>3. handler' \in [Conns -> {"none", "auth", "flush", "loop"}]
    BY <1>3, RegisterEither DEF FlushesNothing, FlushesFirst, RelayTypeOK
  <2>4. cuts' \in 0 .. MaxCuts /\ unread' \in SUBSET Cmds
    <3>1. ToSet(pending) \subseteq Cmds
      <4>1. pending \in Seq(Cmds)  BY DEF RelayTypeOK
      <4> QED  BY <4>1, LenProperties, ElementOfSeq DEF ToSet
    <3>2. cuts \in 0 .. MaxCuts  BY DEF RelayTypeOK
    <3> QED  BY <1>3, <3>1, <3>2, RelayConstants DEF Register, ReadRows, ReadFails
  <2> QED  BY <1>3, <2>1, <2>2, <2>3, <2>4 DEF Register, RelayTypeOK
<1>4. ASSUME NEW c \in Conns, RefuseAuth(c)
      PROVE  RelayTypeOK'
  BY <1>4 DEF RefuseAuth, RelayTypeOK
<1>5. ASSUME NEW c \in Conns, FlushRow(c)
      PROVE  RelayTypeOK'
  <2>1. /\ rowsLeft' \in [Conns -> Seq(Cmds)] /\ marked' \in [Conns -> SUBSET Cmds]
        /\ wire' \in [Conns -> Seq(Cmds)] /\ lost' \in SUBSET Cmds
    <3>1. marked[c] \in SUBSET Cmds  BY DEF RelayTypeOK
    <3> QED  BY <1>5, <3>1, FlushRowGoes, RowType
  <2> QED  BY <1>5, <2>1 DEF FlushRow, RelayTypeOK
<1>6. ASSUME NEW c \in Conns, FlushCommit(c)
      PROVE  RelayTypeOK'
  <2>1. NotSent(c) \in Seq(Cmds)  BY WithoutFacts DEF NotSent, RelayTypeOK
  <2>2. pending' \in Seq(Cmds)  BY <1>6, <2>1 DEF FlushCommit, RelayTypeOK
  <2>3. \/ uncommitted' = uncommitted /\ cuts' = cuts
        \/ cuts < MaxCuts /\ cuts' = cuts + 1 /\ uncommitted' = uncommitted \union marked[c]
    BY <1>6 DEF FlushCommit
  <2>4. cuts' \in 0 .. MaxCuts
    <3>1. cuts \in 0 .. MaxCuts  BY DEF RelayTypeOK
    <3> QED  BY <2>3, <3>1, RelayConstants
  <2>5. uncommitted' \in SUBSET Cmds
    <3>1. marked[c] \in SUBSET Cmds /\ uncommitted \in SUBSET Cmds  BY DEF RelayTypeOK
    <3> QED  BY <2>3, <3>1
  <2> QED  BY <1>6, <2>2, <2>4, <2>5 DEF FlushCommit, RelayTypeOK
<1>7. ASSUME NEW c \in Conns, HandlerEnds(c),
             wire' \in [Conns -> Seq(Cmds)], lost' \in SUBSET Cmds, cuts' \in 0 .. MaxCuts
      PROVE  RelayTypeOK'
  <2>1. overlapped' \in BOOLEAN
    <3>1. overlapped' = (overlapped \/ registered \notin {c, NoConn})
      BY <1>7 DEF HandlerEnds
    <3> QED  BY <3>1, Zenon
  <2> QED  BY <1>7, <2>1, RelayConstants DEF HandlerEnds, RelayTypeOK
<1>8. ASSUME NEW c \in Conns, wire' = [wire EXCEPT ![c] = <<>>],
             lost' = lost \union ToSet(wire[c])
      PROVE  wire' \in [Conns -> Seq(Cmds)] /\ lost' \in SUBSET Cmds
  <2>1. ToSet(wire[c]) \subseteq Cmds
    <3>1. wire[c] \in Seq(Cmds)  BY DEF RelayTypeOK
    <3> QED  BY <3>1, LenProperties, ElementOfSeq DEF ToSet
  <2> QED  BY <1>8, <2>1, EmptyFacts DEF RelayTypeOK
<1>9. ASSUME NEW c \in Conns, SocketDrops(c) \/ AckRaises(c) \/ NoticeCut(c) \/ Cut(c)
      PROVE  RelayTypeOK'
  <2>1. CASE SocketDrops(c)  BY <1>7, <2>1 DEF SocketDrops, RelayTypeOK
  <2>2. CASE AckRaises(c)
    <3>1. cuts' \in 0 .. MaxCuts  BY <2>2, RelayConstants DEF AckRaises, RelayTypeOK
    <3> QED  BY <1>7, <1>8, <2>2, <3>1 DEF AckRaises
  <2>3. CASE NoticeCut(c)  BY <2>3 DEF NoticeCut, RelayTypeOK
  <2>4. CASE Cut(c)
    <3>1. wire' \in [Conns -> Seq(Cmds)] /\ lost' \in SUBSET Cmds
      BY <1>8, <2>4 DEF Cut
    <3>2. link' \in [Conns -> {"up", "cut", "closed"}] /\ cuts' \in 0 .. MaxCuts
      BY <2>4, RelayConstants DEF Cut, RelayTypeOK
    <3> QED  BY <2>4, <3>1, <3>2 DEF Cut, RelayTypeOK
  <2> QED  BY <1>9, <2>1, <2>2, <2>3, <2>4
<1>10. ASSUME NEW c \in Conns, Connect(c)
       PROVE  RelayTypeOK'
  BY <1>10, RelayConstants DEF Connect, RelayTypeOK
<1>11. CASE ClientNotices
  BY <1>11, RelayConstants DEF ClientNotices, RelayTypeOK
<1>12. CASE ClientHandles
  <2>1. client \in Conns /\ wire[client] \in Seq(Cmds) /\ wire[client] # <<>>
    BY <1>12 DEF ClientHandles, RelayTypeOK
  <2>2. Head(wire[client]) \in Cmds /\ Tail(wire[client]) \in Seq(Cmds)
    BY <2>1, HeadFacts
  <2>3. handled' \in [Cmds -> Nat] /\ wire' \in [Conns -> Seq(Cmds)]
    BY <1>12, <2>1, <2>2 DEF ClientHandles, RelayTypeOK
  <2> QED  BY <1>12, <2>3 DEF ClientHandles, RelayTypeOK
<1>13. CASE TokenExpires
  <2>1. tokenValid' \in BOOLEAN  BY <1>13, Zenon DEF TokenExpires
  <2> QED  BY <1>13, <2>1 DEF TokenExpires, RelayTypeOK
<1>14. CASE WindowMoves
  BY <1>14, RelayConstants DEF WindowMoves, RelayTypeOK
<1>15. CASE UNCHANGED relayVars
  BY <1>15 DEF relayVars, RelayTypeOK
<1> QED
  BY <1>1, <1>2, <1>3, <1>4, <1>5, <1>6, <1>9, <1>10, <1>11, <1>12, <1>13, <1>14, <1>15
  DEF RelayNext, ServerStep, ClientStep
----------------------------------------------------------------------------
(* Which connection has a handler, and where messages and rows can be.     *)

LEMMA LinksStep ==
    ASSUME RelayTypeOK, RelayLinks, [RelayNext]_relayVars
    PROVE  RelayLinks'
PROOF
<1>1. ASSUME NEW m \in Cmds, RelayCommand(m)
      PROVE  RelayLinks'
  <2>1. registered \in Conns  BY <1>1 DEF RelayCommand, CanSend, RelayTypeOK
  <2>2. SendsTo(registered, m)  BY <1>1, SendsEither DEF RelayCommand
  <2>3. \A c \in Conns : c # registered \/ link[c] # "up" => wire'[c] = wire[c]
    BY <2>1, <2>2, SendsWire
  <2>4. UNCHANGED <<registered, handler, rowsLeft, marked, link, overlapped>>
    BY <1>1 DEF RelayCommand
  <2> QED  BY <2>1, <2>3, <2>4, RelayConstants DEF RelayLinks
<1>2. ASSUME NEW c \in Conns, Register(c)
      PROVE  RelayLinks'
  <2>1. /\ registered' = c /\ UNCHANGED link
        /\ overlapped' = (overlapped \/ registered # NoConn)
        /\ handler[c] = "auth" /\ c # NoConn
    BY <1>2, RelayConstants DEF Register
  <2>2. \A d \in Conns \ {c} : /\ handler'[d] = handler[d]
                               /\ rowsLeft'[d] = rowsLeft[d] /\ marked'[d] = marked[d]
                               /\ wire'[d] = wire[d]
    <3>1. CASE FlushesNothing(c)  BY <3>1 DEF FlushesNothing, RelayTypeOK
    <3>2. CASE FlushesFirst(c)
      <4>1. /\ rowsLeft' = [rowsLeft EXCEPT ![c] = Tail(pending)]
            /\ handler' = [handler EXCEPT ![c] = "flush"]
        BY <1>2, <3>2, RegisterRow DEF RowGoes, FlushesFirst
      <4>2. \A d \in Conns : d # c => wire'[d] = wire[d]
        BY <1>2, <3>2, RegisterRow, SendsWire
      <4>3. \A d \in Conns : d # c => marked'[d] = marked[d]
        BY <1>2, <3>2, RegisterRow DEF RelayTypeOK
      <4> QED  BY <4>1, <4>2, <4>3 DEF RelayTypeOK
    <3> QED  BY <1>2, <3>1, <3>2, RegisterEither
  <2>3. /\ handler'[c] \in {"flush", "loop"}
        /\ handler'[c] # "flush" => rowsLeft'[c] = <<>> /\ marked'[c] = {}
        /\ link[c] # "up" => wire'[c] = <<>>
    <3>1. rowsLeft[c] = <<>> /\ marked[c] = {} /\ wire[c] = <<>>
      BY <2>1 DEF RelayLinks
    <3>2. CASE FlushesNothing(c)
      BY <3>1, <3>2 DEF FlushesNothing, RelayTypeOK
    <3>3. CASE FlushesFirst(c)
      <4>1. handler' = [handler EXCEPT ![c] = "flush"]
        BY <3>3 DEF FlushesFirst
      <4>2. link[c] # "up" => wire'[c] = wire[c]
        BY <1>2, <3>3, RegisterRow, SendsWire
      <4> QED  BY <3>1, <4>1, <4>2 DEF RelayTypeOK
    <3> QED  BY <1>2, <3>2, <3>3, RegisterEither
  <2>4. ASSUME NEW d \in Conns \ {c}, handler[d] \in {"flush", "loop"}
        PROVE  overlapped'
    <3>1. overlapped \/ registered = d  BY <2>4 DEF RelayLinks
    <3>2. registered = d => registered # NoConn  BY RelayConstants
    <3> QED  BY <2>1, <3>1, <3>2, Zenon
  <2> QED  BY <2>1, <2>2, <2>3, <2>4 DEF RelayLinks
<1>3. ASSUME NEW c \in Conns, FlushRow(c)
      PROVE  RelayLinks'
  <2>1. RowGoes(c, registered, Head(rowsLeft[c]), Tail(rowsLeft[c]), marked[c])
        /\ Head(rowsLeft[c]) \in Cmds
    BY <1>3, FlushRowGoes
  <2>2. /\ handler[c] = "flush" /\ UNCHANGED <<registered, handler, link, overlapped>>
        /\ \A d \in Conns : d # c => rowsLeft'[d] = rowsLeft[d] /\ marked'[d] = marked[d]
    BY <1>3, <2>1 DEF FlushRow, RowGoes, RelayTypeOK
  <2>3. \A d \in Conns : d # registered \/ link[d] # "up" => wire'[d] = wire[d]
    <3>1. CASE registered \in Conns /\ SendsTo(registered, Head(rowsLeft[c]))
      BY <2>1, <3>1, SendsWire
    <3>2. CASE wire' = wire  BY <3>2
    <3> QED  BY <2>1, <3>1, <3>2 DEF RowGoes
  <2> QED  BY <2>2, <2>3, RelayConstants DEF RelayLinks
<1>4. ASSUME NEW c \in Conns, FlushCommit(c)
      PROVE  RelayLinks'
  <2>1. /\ handler[c] = "flush" /\ rowsLeft[c] = <<>>
        /\ handler' = [handler EXCEPT ![c] = "loop"]
        /\ marked' = [marked EXCEPT ![c] = {}]
        /\ UNCHANGED <<registered, rowsLeft, link, wire, overlapped>>
    BY <1>4 DEF FlushCommit
  <2>2. /\ handler'[c] = "loop" /\ marked'[c] = {}
        /\ \A d \in Conns \ {c} : handler'[d] = handler[d] /\ marked'[d] = marked[d]
    BY <2>1 DEF RelayTypeOK
  <2> QED  BY <2>1, <2>2, RelayConstants DEF RelayLinks, RelayTypeOK
<1>5. ASSUME NEW c \in Conns, SocketDrops(c) \/ AckRaises(c)
      PROVE  RelayLinks'
  <2>1. /\ handler[c] = "loop" /\ registered' = NoConn
        /\ link' = [link EXCEPT ![c] = "closed"]
        /\ handler' = [handler EXCEPT ![c] = "none"]
        /\ overlapped' = (overlapped \/ registered \notin {c, NoConn})
        /\ UNCHANGED <<rowsLeft, marked>>
    BY <1>5 DEF SocketDrops, AckRaises, HandlerEnds
  <2>2. wire'[c] = <<>> /\ \A d \in Conns \ {c} : wire'[d] = wire[d]
    BY <1>5 DEF SocketDrops, AckRaises, RelayLinks, RelayTypeOK
  <2>3. /\ handler'[c] = "none"
        /\ \A d \in Conns \ {c} : handler'[d] = handler[d] /\ link'[d] = link[d]
    BY <2>1 DEF RelayTypeOK
  <2> QED  BY <2>1, <2>2, <2>3, RelayConstants DEF RelayLinks
<1>6. ASSUME NEW c \in Conns, NoticeCut(c) \/ RefuseAuth(c) \/ Connect(c)
      PROVE  RelayLinks'
  <2>1. /\ handler'[c] # handler[c] =>
              handler[c] \in {"auth", "none"} /\ handler'[c] \in {"auth", "none"}
        /\ \A d \in Conns \ {c} : handler'[d] = handler[d] /\ link'[d] = link[d]
        /\ UNCHANGED <<registered, rowsLeft, marked, wire, overlapped>>
        /\ handler[c] \in {"auth", "none"} \/ link[c] # "up"
        /\ handler'[c] \in {"auth", "none"} \/ link'[c] # "up"
    BY <1>6 DEF NoticeCut, RefuseAuth, Connect, RelayTypeOK
  <2>2. wire'[c] = <<>>  BY <2>1 DEF RelayLinks
  <2>3. /\ registered' # NoConn => handler'[registered'] \in {"flush", "loop"}
        /\ handler'[c] # "flush" => rowsLeft'[c] = <<>> /\ marked'[c] = {}
        /\ handler'[c] \in {"flush", "loop"} => overlapped' \/ registered' = c
    BY <2>1, RelayConstants DEF RelayLinks, RelayTypeOK
  <2> QED  BY <2>1, <2>2, <2>3 DEF RelayLinks
<1>7. ASSUME NEW c \in Conns, Cut(c)
      PROVE  RelayLinks'
  <2>1. /\ wire'[c] = <<>> /\ link'[c] = "cut"
        /\ \A d \in Conns \ {c} : wire'[d] = wire[d] /\ link'[d] = link[d]
        /\ UNCHANGED <<registered, handler, rowsLeft, marked, overlapped>>
    BY <1>7 DEF Cut, RelayTypeOK
  <2> QED  BY <2>1, RelayConstants DEF RelayLinks
<1>8. CASE ClientHandles
  <2>1. /\ client \in Conns /\ wire[client] # <<>>
        /\ \A d \in Conns \ {client} : wire'[d] = wire[d]
        /\ UNCHANGED <<registered, handler, rowsLeft, marked, link, overlapped>>
    BY <1>8 DEF ClientHandles, RelayTypeOK
  <2> QED  BY <2>1, RelayConstants DEF RelayLinks
<1>9. ASSUME UNCHANGED <<registered, handler, rowsLeft, marked, link, wire, overlapped>>
      PROVE  RelayLinks'
  BY <1>9, RelayConstants DEF RelayLinks
<1>10. ASSUME NEW m \in Cmds, NEW ok \in BOOLEAN, QueueCommand(m, ok)
       PROVE  RelayLinks'
  BY <1>9, <1>10 DEF QueueCommand
<1>11. CASE ClientNotices \/ TokenExpires \/ WindowMoves \/ UNCHANGED relayVars
  BY <1>9, <1>11 DEF ClientNotices, TokenExpires, WindowMoves, relayVars
<1> QED
  BY <1>1, <1>2, <1>3, <1>4, <1>5, <1>6, <1>7, <1>8, <1>10, <1>11
  DEF RelayNext, ServerStep, ClientStep
----------------------------------------------------------------------------
(* Where rows and messages come from.                                      *)

LEMMA HeadIn ==
    ASSUME NEW D, NEW s \in Seq(D), s # <<>>
    PROVE  Head(s) \in ToSet(s) /\ ToSet(Tail(s)) \subseteq ToSet(s)
BY HeadFacts

LEMMA SendsReach ==
    ASSUME RelayTypeOK, NEW conn \in Conns, NEW m \in Cmds, SendsTo(conn, m),
           UNCHANGED handled, NEW x
    PROVE  Reached(x)' => Reached(x) \/ x = m
BY SendsWire DEF Reached

LEMMA FewerReach ==
    ASSUME UNCHANGED handled, NEW x,
           \A c \in Conns : ToSet(wire'[c]) \subseteq ToSet(wire[c])
    PROVE  Reached(x)' => Reached(x)
BY DEF Reached

LEMMA RowsStep ==
    ASSUME RelayTypeOK, RelayRows, [RelayNext]_relayVars
    PROVE  RelayRows'
PROOF
<1>1. ASSUME NEW m \in Cmds, RelayCommand(m)
      PROVE  RelayRows'
  <2>1. registered \in Conns  BY <1>1 DEF RelayCommand, CanSend, RelayTypeOK
  <2>2. SendsTo(registered, m)  BY <1>1, SendsEither DEF RelayCommand
  <2>3. /\ accepted' = accepted \union {m}
        /\ UNCHANGED <<pending, rowsLeft, handled>>
    BY <1>1 DEF RelayCommand
  <2>4. \A x \in Cmds : Reached(x)' => Reached(x) \/ x = m
    BY <2>1, <2>2, <2>3, SendsReach
  <2> QED  BY <2>3, <2>4 DEF RelayRows
<1>2. ASSUME NEW m \in Cmds, NEW ok \in BOOLEAN, QueueCommand(m, ok)
      PROVE  RelayRows'
  <2>1. /\ m \notin accepted /\ accepted' = accepted \union {m}
        /\ pending' = Append(pending, m) \/ pending' = pending
        /\ UNCHANGED <<rowsLeft, handled, wire>>
    BY <1>2 DEF QueueCommand
  <2>2. pending \in Seq(Cmds)  BY DEF RelayTypeOK
  <2>3. ToSet(pending') \subseteq accepted' /\ IsInjective(pending')
    BY <2>1, <2>2, AppendFacts DEF RelayRows
  <2>4. \A x \in Cmds : Reached(x)' => Reached(x)
    BY <2>1, FewerReach
  <2> QED  BY <2>1, <2>3, <2>4 DEF RelayRows
<1>3. ASSUME NEW c \in Conns, Register(c)
      PROVE  RelayRows'
  <2>1. UNCHANGED <<pending, accepted, handled>>  BY <1>3 DEF Register
  <2>2. CASE FlushesNothing(c)
    <3>1. UNCHANGED <<rowsLeft, wire>>  BY <2>2 DEF FlushesNothing
    <3> QED  BY <2>1, <3>1, FewerReach DEF RelayRows
  <2>3. CASE FlushesFirst(c)
    <3>1. /\ Head(pending) \in Cmds /\ SendsTo(c, Head(pending))
          /\ rowsLeft' = [rowsLeft EXCEPT ![c] = Tail(pending)]
      BY <1>3, <2>3, RegisterRow DEF RowGoes
    <3>2. pending \in Seq(Cmds) /\ pending # <<>>  BY <2>3 DEF RelayTypeOK, FlushesFirst
    <3>3. /\ Head(pending) \in accepted /\ ToSet(Tail(pending)) \subseteq accepted
          /\ IsInjective(Tail(pending))
      BY <2>3, <3>2, HeadIn, HeadFacts DEF RelayRows
    <3>4. \A x \in Cmds : Reached(x)' => Reached(x) \/ x = Head(pending)
      BY <2>1, <3>1, SendsReach
    <3>5. \A d \in Conns : rowsLeft'[d] = rowsLeft[d] \/ rowsLeft'[d] = Tail(pending)
      BY <3>1 DEF RelayTypeOK
    <3>6. \A d \in Conns : ToSet(rowsLeft'[d]) \subseteq accepted /\ IsInjective(rowsLeft'[d])
      BY <3>3, <3>5 DEF RelayRows
    <3> QED  BY <2>1, <3>3, <3>4, <3>6 DEF RelayRows
  <2> QED  BY <1>3, <2>2, <2>3, RegisterEither
<1>4. ASSUME NEW c \in Conns, FlushRow(c)
      PROVE  RelayRows'
  <2>1. UNCHANGED <<pending, accepted, handled>>  BY <1>4 DEF FlushRow
  <2> DEFINE m == Head(rowsLeft[c])
             rest == Tail(rowsLeft[c])
  <2>2. m \in Cmds /\ RowGoes(c, registered, m, rest, marked[c])
    BY <1>4, FlushRowGoes
  <2>3. m \in accepted /\ ToSet(rest) \subseteq accepted /\ IsInjective(rest)
    <3>1. rowsLeft[c] \in Seq(Cmds) /\ rowsLeft[c] # <<>>
      BY <1>4 DEF FlushRow, RelayTypeOK
    <3> QED  BY <3>1, HeadIn, HeadFacts DEF RelayRows
  <2>4. \A x \in Cmds : Reached(x)' => Reached(x) \/ x = m
    <3> HIDE DEF m, rest
    <3>1. CASE registered \in Conns /\ SendsTo(registered, m)
      BY <2>1, <2>2, <3>1, SendsReach
    <3>2. CASE wire' = wire  BY <2>1, <3>2, FewerReach
    <3> QED  BY <2>2, <3>1, <3>2 DEF RowGoes
  <2>5. \A d \in Conns : rowsLeft'[d] = rowsLeft[d] \/ rowsLeft'[d] = rest
    BY <2>2 DEF RowGoes, RelayTypeOK
  <2> HIDE DEF m, rest
  <2>6. \A d \in Conns : ToSet(rowsLeft'[d]) \subseteq accepted /\ IsInjective(rowsLeft'[d])
    BY <2>3, <2>5 DEF RelayRows
  <2> QED  BY <2>1, <2>3, <2>4, <2>6 DEF RelayRows
<1>5. ASSUME NEW c \in Conns, FlushCommit(c)
      PROVE  RelayRows'
  <2>1. UNCHANGED <<rowsLeft, accepted, handled, wire>>  BY <1>5 DEF FlushCommit
  <2>2. pending' = NotSent(c) \/ pending' = pending  BY <1>5 DEF FlushCommit
  <2>3. pending \in Seq(Cmds)  BY DEF RelayTypeOK
  <2>4. ToSet(pending') \subseteq accepted /\ IsInjective(pending')
    BY <2>2, <2>3, WithoutFacts DEF NotSent, RelayRows
  <2> QED  BY <2>1, <2>4, FewerReach DEF RelayRows
<1>6. ASSUME NEW c \in Conns, SocketDrops(c) \/ AckRaises(c) \/ Cut(c)
      PROVE  RelayRows'
  <2>1. UNCHANGED <<rowsLeft, accepted, handled, pending>>
    BY <1>6 DEF SocketDrops, AckRaises, Cut, HandlerEnds
  <2>2. \A d \in Conns : wire'[d] = wire[d] \/ wire'[d] = <<>>
    BY <1>6 DEF SocketDrops, AckRaises, Cut, RelayTypeOK
  <2>3. \A d \in Conns : ToSet(wire'[d]) \subseteq ToSet(wire[d])
    BY <2>2, EmptyFacts
  <2> QED  BY <2>1, <2>3, FewerReach DEF RelayRows
<1>7. CASE ClientHandles
  <2>1. UNCHANGED <<rowsLeft, accepted, pending>>
    BY <1>7 DEF ClientHandles
  <2>2. /\ client \in Conns /\ wire[client] \in Seq(Cmds) /\ wire[client] # <<>>
        /\ wire' = [wire EXCEPT ![client] = Tail(wire[client])]
        /\ handled' = [handled EXCEPT ![Head(wire[client])] = @ + 1]
    BY <1>7 DEF ClientHandles, RelayTypeOK
  <2>3. /\ Head(wire[client]) \in ToSet(wire[client])
        /\ ToSet(Tail(wire[client])) \subseteq ToSet(wire[client])
    BY <2>2, HeadIn
  <2>4. ASSUME NEW x \in Cmds, Reached(x)' PROVE Reached(x)
    <3>1. CASE handled'[x] > 0
      <4>1. x = Head(wire[client]) \/ handled[x] > 0
        BY <2>2, <3>1 DEF RelayTypeOK
      <4> QED  BY <2>2, <2>3, <4>1 DEF Reached
    <3>2. ASSUME NEW d \in Conns, x \in ToSet(wire'[d]) PROVE Reached(x)
      <4>1. x \in ToSet(wire[d])  BY <2>2, <2>3, <3>2 DEF RelayTypeOK
      <4> QED  BY <4>1 DEF Reached
    <3> QED  BY <2>4, <3>1, <3>2 DEF Reached
  <2> QED  BY <2>1, <2>4 DEF RelayRows
<1>8. ASSUME UNCHANGED <<rowsLeft, accepted, pending, wire, handled>>
      PROVE  RelayRows'
  BY <1>8, FewerReach DEF RelayRows
<1>9. ASSUME NEW c \in Conns, NoticeCut(c) \/ RefuseAuth(c) \/ Connect(c)
      PROVE  RelayRows'
  BY <1>8, <1>9 DEF NoticeCut, RefuseAuth, Connect
<1>10. CASE ClientNotices \/ TokenExpires \/ WindowMoves \/ UNCHANGED relayVars
  BY <1>8, <1>10 DEF ClientNotices, TokenExpires, WindowMoves, relayVars
<1> QED
  BY <1>1, <1>2, <1>3, <1>4, <1>5, <1>6, <1>7, <1>9, <1>10
  DEF RelayNext, ServerStep, ClientStep
----------------------------------------------------------------------------
(* Every command has one copy.                                             *)

\* The wires' part of OneCopy, and the tables'.
OnWires(x) ==
    /\ handled[x] <= 1
    /\ \A c \in Conns : Once(wire[c], x) /\ (x \in ToSet(wire[c]) => handled[x] = 0)

InTables(x) ==
    Reached(x) => /\ x \in ToSet(pending) => \E c \in Conns : x \in marked[c]
                  /\ \A c \in Conns : x \notin ToSet(rowsLeft[c])

LEMMA CopyParts ==
    ASSUME NEW x
    PROVE  /\ OneCopy(x) <=> OnWires(x) /\ InTables(x)
           /\ OneCopy(x)' <=> OnWires(x)' /\ InTables(x)'
BY DEF OneCopy, OnWires, InTables

\* A command that has reached nobody may be sent.
LEMMA SendsCopy ==
    ASSUME RelayTypeOK, NEW conn \in Conns, NEW m \in Cmds, SendsTo(conn, m),
           UNCHANGED handled, NEW x \in Cmds, OnWires(x), x = m => ~Reached(m)
    PROVE  OnWires(x)'
PROOF
<1>1. handled'[x] <= 1  BY DEF OnWires
<1>2. ASSUME NEW c \in Conns PROVE Once(wire'[c], x)
  <2>1. CASE x # m  BY <2>1, SendsWire DEF OnWires
  <2>2. CASE x = m
    <3>1. m \notin ToSet(wire[c]) /\ Once(wire[c], m)
      BY <2>2 DEF Reached, OnWires
    <3> QED  BY <2>2, <3>1, SendsWire
  <2> QED  BY <2>1, <2>2
<1>3. ASSUME NEW c \in Conns, x \in ToSet(wire'[c]) PROVE handled'[x] = 0
  <2>1. CASE x # m
    <3>1. x \in ToSet(wire[c])  BY <1>3, <2>1, SendsWire
    <3> QED  BY <3>1 DEF OnWires
  <2>2. CASE x = m
    <3>1. ~(handled[m] > 0) /\ handled[m] \in Nat  BY <2>2 DEF Reached, RelayTypeOK
    <3> QED  BY <2>2, <3>1
  <2> QED  BY <2>1, <2>2
<1> QED  BY <1>1, <1>2, <1>3 DEF OnWires

LEMMA FewerCopy ==
    ASSUME UNCHANGED handled, NEW x, OnWires(x),
           \A c \in Conns : wire'[c] = wire[c] \/ wire'[c] = <<>>
    PROVE  OnWires(x)'
PROOF
<1>1. ASSUME NEW c \in Conns
      PROVE  Once(wire'[c], x) /\ (x \in ToSet(wire'[c]) => handled'[x] = 0)
  <2>1. CASE wire'[c] = wire[c]  BY <2>1 DEF OnWires
  <2>2. CASE wire'[c] = <<>>  BY <2>2, EmptyFacts
  <2> QED  BY <2>1, <2>2
<1> QED  BY <1>1 DEF OnWires

\* Without an overlap there is one flush at most, and the messages on their way
\* are on the registered connection.
LEMMA OneConnection ==
    ASSUME RelayTypeOK, RelayLinks, ~overlapped, NEW c \in Conns, c # registered
    PROVE  rowsLeft[c] = <<>> /\ marked[c] = {} /\ wire[c] = <<>>
PROOF
<1>1. handler[c] \in {"none", "auth"}  BY DEF RelayLinks, RelayTypeOK
<1> QED  BY <1>1 DEF RelayLinks

LEMMA NoRows ==
    ASSUME NEW x, NEW seq, seq = <<>>
    PROVE  x \notin ToSet(seq)
BY DEF ToSet

LEMMA CopyStep ==
    ASSUME RelayTypeOK, RelayLinks, RelayRows, [RelayNext]_relayVars,
           ~overlapped', NEW x \in Cmds, x \notin uncommitted',
           ~overlapped /\ x \notin uncommitted => OneCopy(x)
    PROVE  OneCopy(x)'
PROOF
<1>1. ~overlapped /\ x \notin uncommitted
  <2>1. overlapped => overlapped'
    BY Zenon DEF RelayNext, RelayCommand, QueueCommand, ServerStep, Register, ReadRows, ReadFails, RefuseAuth, FlushRow,
       FlushCommit, SocketDrops, NoticeCut, AckRaises, HandlerEnds, Cut, ClientStep, Connect,
       ClientNotices, ClientHandles, TokenExpires, WindowMoves, relayVars
  <2>2. uncommitted \subseteq uncommitted'
    BY Zenon DEF RelayNext, RelayCommand, QueueCommand, ServerStep, Register, ReadRows, ReadFails, RefuseAuth, FlushRow,
       FlushCommit, SocketDrops, NoticeCut, AckRaises, HandlerEnds, Cut, ClientStep, Connect,
       ClientNotices, ClientHandles, TokenExpires, WindowMoves, relayVars
  <2> QED  BY <2>1, <2>2
<1>2. OnWires(x) /\ InTables(x)  BY <1>1, CopyParts
<1>3. SUFFICES OnWires(x)' /\ InTables(x)'  BY CopyParts
<1>4. ASSUME NEW m \in Cmds, RelayCommand(m)
      PROVE  OnWires(x)' /\ InTables(x)'
  <2>1. registered \in Conns  BY <1>4 DEF RelayCommand, CanSend, RelayTypeOK
  <2>2. SendsTo(registered, m)  BY <1>4, SendsEither DEF RelayCommand
  <2>3. UNCHANGED <<pending, rowsLeft, handled, marked>> /\ m \notin accepted
    BY <1>4 DEF RelayCommand
  <2>4. ~Reached(m) /\ m \notin ToSet(pending)
        /\ \A c \in Conns : m \notin ToSet(rowsLeft[c])
    BY <2>3 DEF RelayRows
  <2>5. OnWires(x)'  BY <1>2, <2>1, <2>2, <2>3, <2>4, SendsCopy
  <2>6. Reached(x)' => Reached(x) \/ x = m  BY <2>1, <2>2, <2>3, SendsReach
  <2> QED  BY <1>2, <2>3, <2>4, <2>5, <2>6 DEF InTables
<1>5. ASSUME NEW m \in Cmds, NEW ok \in BOOLEAN, QueueCommand(m, ok)
      PROVE  OnWires(x)' /\ InTables(x)'
  <2>1. /\ m \notin accepted
        /\ pending' = Append(pending, m) \/ pending' = pending
        /\ UNCHANGED <<rowsLeft, handled, wire, marked>>
    BY <1>5 DEF QueueCommand
  <2>2. ~Reached(m)  BY <2>1 DEF RelayRows
  <2>3. Reached(x)' => Reached(x)  BY <2>1, FewerReach
  <2>4. ToSet(pending') \subseteq ToSet(pending) \union {m}
    <3>1. pending \in Seq(Cmds)  BY DEF RelayTypeOK
    <3> QED  BY <2>1, <3>1, AppendFacts
  <2>5. OnWires(x)'  BY <1>2, <2>1, FewerCopy
  <2> QED  BY <1>2, <2>1, <2>2, <2>3, <2>4, <2>5 DEF InTables
<1>6. ASSUME NEW c \in Conns, Register(c)
      PROVE  OnWires(x)' /\ InTables(x)'
  <2>1. registered = NoConn /\ UNCHANGED <<pending, handled>>
    BY <1>6, Zenon DEF Register
  <2>2. \A d \in Conns : rowsLeft[d] = <<>> /\ marked[d] = {}
    BY <1>1, <2>1, OneConnection, RelayConstants
  <2>3. Reached(x) => x \notin ToSet(pending)
    BY <1>2, <2>2 DEF InTables
  <2>4. CASE FlushesNothing(c)
    <3>1. UNCHANGED <<rowsLeft, wire, marked>>  BY <2>4 DEF FlushesNothing
    <3> QED  BY <1>2, <2>1, <3>1, FewerCopy, FewerReach DEF InTables
  <2>5. CASE FlushesFirst(c)
    <3> DEFINE m == Head(pending)
    <3>1. /\ m \in Cmds /\ SendsTo(c, m)
          /\ rowsLeft' = [rowsLeft EXCEPT ![c] = Tail(pending)]
          /\ marked' = [marked EXCEPT ![c] = {m}]
      BY <1>6, <2>5, RegisterRow DEF RowGoes
    <3>2. pending \in Seq(Cmds) /\ pending # <<>>  BY <2>5 DEF RelayTypeOK, FlushesFirst
    <3>3. /\ m \in ToSet(pending) /\ ToSet(Tail(pending)) \subseteq ToSet(pending)
          /\ m \notin ToSet(Tail(pending))
      BY <2>5, <3>2, HeadIn, HeadFacts DEF RelayRows
    <3> HIDE DEF m
    <3>4. x = m => ~Reached(m)  BY <2>3, <3>3
    <3>5. OnWires(x)'  BY <1>2, <2>1, <3>1, <3>4, SendsCopy
    <3>6. Reached(x)' => Reached(x) \/ x = m  BY <2>1, <3>1, SendsReach
    <3>7. /\ marked'[c] = {m} /\ rowsLeft'[c] = Tail(pending)
          /\ \A d \in Conns \ {c} : rowsLeft'[d] = <<>>
      BY <2>2, <3>1 DEF RelayTypeOK
    <3>8. ASSUME Reached(x)', NEW d \in Conns PROVE x \notin ToSet(rowsLeft'[d])
      <4>1. x \notin ToSet(Tail(pending))  BY <2>3, <3>3, <3>6, <3>8
      <4> QED  BY <3>7, <4>1, NoRows
    <3>9. ASSUME Reached(x)', x \in ToSet(pending') PROVE x \in marked'[c]
      BY <2>1, <2>3, <3>6, <3>7, <3>9
    <3> QED  BY <3>5, <3>8, <3>9 DEF InTables
  <2> QED  BY <1>6, <2>4, <2>5, RegisterEither
<1>7. ASSUME NEW c \in Conns, FlushRow(c)
      PROVE  OnWires(x)' /\ InTables(x)'
  <2>1. UNCHANGED <<pending, handled>> /\ handler[c] = "flush" /\ rowsLeft[c] # <<>>
    BY <1>7 DEF FlushRow
  <2> DEFINE m == Head(rowsLeft[c])
             rest == Tail(rowsLeft[c])
  <2>2. m \in Cmds /\ RowGoes(c, registered, m, rest, marked[c])
    BY <1>7, FlushRowGoes
  <2>3. /\ m \in ToSet(rowsLeft[c]) /\ ToSet(rest) \subseteq ToSet(rowsLeft[c])
        /\ m \notin ToSet(rest)
    <3>1. rowsLeft[c] \in Seq(Cmds)  BY DEF RelayTypeOK
    <3> QED  BY <2>1, <3>1, HeadIn, HeadFacts DEF RelayRows
  <2> HIDE DEF m, rest
  <2>4. /\ rowsLeft'[c] = rest
        /\ \A d \in Conns \ {c} : rowsLeft'[d] = rowsLeft[d]
    BY <2>2 DEF RowGoes, RelayTypeOK
  <2>5. x = m => ~Reached(m)
    BY <1>2, <2>3 DEF InTables
  <2>6. CASE registered \in Conns /\ SendsTo(registered, m)
             /\ marked' = [marked EXCEPT ![c] = marked[c] \union {m}]
    <3>1. OnWires(x)'  BY <1>2, <2>1, <2>2, <2>5, <2>6, SendsCopy
    <3>2. Reached(x)' => Reached(x) \/ x = m  BY <2>1, <2>2, <2>6, SendsReach
    <3>3. marked'[c] = marked[c] \union {m} /\ \A d \in Conns \ {c} : marked'[d] = marked[d]
      BY <2>6 DEF RelayTypeOK
    <3>4. ASSUME Reached(x)', x \in ToSet(pending')
          PROVE  \E d \in Conns : x \in marked'[d]
      BY <1>2, <2>1, <3>2, <3>3, <3>4 DEF InTables
    <3>5. ASSUME Reached(x)', NEW d \in Conns PROVE x \notin ToSet(rowsLeft'[d])
      <4>1. CASE x = m
        <5>1. d # c => rowsLeft[d] = <<>>
          <6>1. c = registered  BY <1>1, <2>1 DEF RelayLinks
          <6> QED  BY <1>1, <6>1, OneConnection
        <5> QED  BY <2>3, <2>4, <4>1, <5>1, NoRows
      <4>2. CASE x # m  BY <1>2, <2>3, <2>4, <3>2, <3>5, <4>2 DEF InTables
      <4> QED  BY <4>1, <4>2
    <3> QED  BY <3>1, <3>4, <3>5 DEF InTables
  <2>7. CASE wire' = wire /\ marked' = [marked EXCEPT ![c] = marked[c]]
    <3>1. marked' = marked  BY <2>7 DEF RelayTypeOK
    <3>2. OnWires(x)' /\ (Reached(x)' => Reached(x))
      BY <1>2, <2>1, <2>7, FewerCopy, FewerReach
    <3> QED  BY <1>2, <2>1, <2>3, <2>4, <3>1, <3>2 DEF InTables
  <2> QED  BY <2>2, <2>6, <2>7 DEF RowGoes
<1>8. ASSUME NEW c \in Conns, FlushCommit(c)
      PROVE  OnWires(x)' /\ InTables(x)'
  <2>1. /\ UNCHANGED <<rowsLeft, handled, wire>> /\ handler[c] = "flush"
        /\ \A d \in Conns \ {c} : marked'[d] = marked[d]
    BY <1>8 DEF FlushCommit, RelayTypeOK
  <2>2. ToSet(pending') \subseteq ToSet(pending)
        /\ x \notin ToSet(pending') \intersect marked[c]
    <3>1. pending \in Seq(Cmds)  BY DEF RelayTypeOK
    <3>2. CASE pending' = NotSent(c)
      BY <3>1, <3>2, WithoutFacts DEF NotSent
    <3>3. CASE UNCHANGED pending /\ uncommitted' = uncommitted \union marked[c]
      BY <3>3
    <3> QED  BY <1>8, <3>2, <3>3 DEF FlushCommit
  <2>3. OnWires(x)' /\ (Reached(x)' => Reached(x))
    BY <1>2, <2>1, FewerCopy, FewerReach
  <2> QED  BY <1>2, <2>1, <2>2, <2>3 DEF InTables
<1>9. ASSUME NEW c \in Conns, SocketDrops(c) \/ AckRaises(c) \/ Cut(c)
      PROVE  OnWires(x)' /\ InTables(x)'
  <2>1. UNCHANGED <<rowsLeft, marked, handled, pending>>
    BY <1>9 DEF SocketDrops, AckRaises, Cut, HandlerEnds
  <2>2. \A d \in Conns : wire'[d] = wire[d] \/ wire'[d] = <<>>
    BY <1>9 DEF SocketDrops, AckRaises, Cut, RelayTypeOK
  <2>3. \A d \in Conns : ToSet(wire'[d]) \subseteq ToSet(wire[d])
    BY <2>2, EmptyFacts
  <2> QED  BY <1>2, <2>1, <2>2, <2>3, FewerCopy, FewerReach DEF InTables
<1>10. CASE ClientHandles
  <2>1. UNCHANGED <<rowsLeft, marked, pending>>
    BY <1>10 DEF ClientHandles
  <2> DEFINE m == Head(wire[client])
             rest == Tail(wire[client])
  <2>2. /\ client \in Conns /\ wire[client] \in Seq(Cmds) /\ wire[client] # <<>>
        /\ wire' = [wire EXCEPT ![client] = rest]
        /\ handled' = [handled EXCEPT ![m] = @ + 1]
    BY <1>10 DEF ClientHandles, RelayTypeOK
  <2>3. /\ m \in Cmds /\ m \in ToSet(wire[client])
        /\ ToSet(rest) \subseteq ToSet(wire[client])
        /\ Once(wire[client], x) => Once(rest, x) /\ (x = m => x \notin ToSet(rest))
    BY <2>2, HeadIn, HeadFacts
  <2> HIDE DEF m, rest
  <2>4. /\ wire'[client] = rest /\ \A d \in Conns \ {client} : wire'[d] = wire[d]
        /\ handled'[x] = IF x = m THEN handled[x] + 1 ELSE handled[x]
    BY <2>2, <2>3 DEF RelayTypeOK
  <2>5. \A d \in Conns \ {client} : wire[d] = <<>>
    <3>1. client = registered  BY <1>1, <2>2, OneConnection
    <3> QED  BY <1>1, <3>1, OneConnection
  <2>6. handled'[x] <= 1
    BY <1>2, <2>2, <2>3, <2>4 DEF OnWires
  <2>7. ASSUME NEW d \in Conns
        PROVE  Once(wire'[d], x) /\ (x \in ToSet(wire'[d]) => handled'[x] = 0)
    <3>1. CASE d = client  BY <1>2, <2>2, <2>3, <2>4, <3>1 DEF OnWires
    <3>2. CASE d # client  BY <2>4, <2>5, <3>2, EmptyFacts
    <3> QED  BY <3>1, <3>2
  <2>8. Reached(x)' => Reached(x)
    BY <2>2, <2>3, <2>4 DEF Reached
  <2> QED  BY <1>2, <2>1, <2>6, <2>7, <2>8 DEF OnWires, InTables
<1>11. ASSUME UNCHANGED <<rowsLeft, marked, pending, wire, handled>>
       PROVE  OnWires(x)' /\ InTables(x)'
  BY <1>2, <1>11, FewerCopy, FewerReach DEF InTables
<1>12. ASSUME NEW c \in Conns, NoticeCut(c) \/ RefuseAuth(c) \/ Connect(c)
       PROVE  OnWires(x)' /\ InTables(x)'
  BY <1>11, <1>12 DEF NoticeCut, RefuseAuth, Connect
<1>13. CASE ClientNotices \/ TokenExpires \/ WindowMoves \/ UNCHANGED relayVars
  BY <1>11, <1>13 DEF ClientNotices, TokenExpires, WindowMoves, relayVars
<1> QED
  BY <1>4, <1>5, <1>6, <1>7, <1>8, <1>9, <1>10, <1>12, <1>13
  DEF RelayNext, ServerStep, ClientStep
----------------------------------------------------------------------------
(* Rows wait only for a connection or for a flush under way.               *)

Waits(m) ==
    \/ registered = NoConn
    \/ link[registered] # "up"
    \/ m \in uncommitted \union unread
    \/ \E c \in Conns : handler[c] = "flush" /\ m \in ToSet(rowsLeft[c]) \union marked[c]

LEMMA WaitsFor ==
    /\ QueuedOnlyOffline <=> \A m \in ToSet(pending) : Waits(m)
    /\ QueuedOnlyOffline' <=> \A m \in ToSet(pending') : Waits(m)'
BY DEF QueuedOnlyOffline, Waits

LEMMA QueuedStep ==
    ASSUME RelayTypeOK, RelayLinks, QueuedOnlyOffline, [RelayNext]_relayVars
    PROVE  QueuedOnlyOffline'
PROOF
<1>1. ASSUME UNCHANGED <<registered, handler, rowsLeft, marked, link, uncommitted, unread, pending>>
      PROVE  QueuedOnlyOffline'
  BY <1>1, WaitsFor DEF Waits
<1>2. ASSUME NEW m \in Cmds, NEW ok \in BOOLEAN, QueueCommand(m, ok)
      PROVE  QueuedOnlyOffline'
  <2>1. /\ registered' = NoConn \/ link'[registered'] # "up"
    BY <1>2 DEF QueueCommand, CanSend
  <2> QED  BY <2>1, WaitsFor DEF Waits
<1>3. ASSUME NEW c \in Conns, Register(c)
      PROVE  QueuedOnlyOffline'
  <2>1. CASE FlushesNothing(c)
    <3>1. UNCHANGED pending  BY <1>3 DEF Register
    <3> QED  BY <2>1, <3>1, NoRows, WaitsFor DEF Waits, FlushesNothing
  <2>2. CASE FlushesFirst(c)
    <3>1. pending \in Seq(Cmds) /\ pending # <<>> /\ UNCHANGED pending
      BY <1>3, <2>2 DEF RelayTypeOK, Register, FlushesFirst
    <3>2. ToSet(pending) = {Head(pending)} \union ToSet(Tail(pending))
      BY <2>2, <3>1, HeadFacts
    <3>3. /\ handler'[c] = "flush" /\ marked'[c] = {Head(pending)}
          /\ rowsLeft'[c] = Tail(pending)
      BY <1>3, <2>2, RegisterRow DEF RowGoes, FlushesFirst, RelayTypeOK
    <3> QED  BY <3>1, <3>2, <3>3, WaitsFor DEF Waits
  <2> QED  BY <1>3, <2>1, <2>2, RegisterEither
<1>4. ASSUME NEW c \in Conns, FlushRow(c)
      PROVE  QueuedOnlyOffline'
  <2>1. UNCHANGED <<registered, handler, link, uncommitted, unread, pending>>
    BY <1>4 DEF FlushRow
  <2> DEFINE m == Head(rowsLeft[c])
             rest == Tail(rowsLeft[c])
  <2>2. RowGoes(c, registered, m, rest, marked[c])  BY <1>4, FlushRowGoes
  <2>3. ToSet(rowsLeft[c]) = {m} \union ToSet(rest)
    <3>1. rowsLeft[c] \in Seq(Cmds) /\ rowsLeft[c] # <<>>
      BY <1>4 DEF FlushRow, RelayTypeOK
    <3> QED  BY <3>1, HeadFacts
  <2> HIDE DEF m, rest
  <2>4. /\ rowsLeft'[c] = rest
        /\ \A d \in Conns \ {c} : rowsLeft'[d] = rowsLeft[d] /\ marked'[d] = marked[d]
    BY <2>2 DEF RowGoes, RelayTypeOK
  <2>5. CASE marked' = [marked EXCEPT ![c] = marked[c] \union {m}]
    <3>1. marked'[c] = marked[c] \union {m}  BY <2>5 DEF RelayTypeOK
    <3>2. ASSUME NEW x, Waits(x) PROVE Waits(x)'
      BY <2>1, <2>3, <2>4, <3>1, <3>2 DEF Waits
    <3> QED  BY <2>1, <3>2, WaitsFor
  <2>6. CASE registered = NoConn \/ link[registered] = "closed"
    BY <2>1, <2>6, WaitsFor DEF Waits
  <2> QED  BY <2>2, <2>5, <2>6 DEF RowGoes
<1>5. ASSUME NEW c \in Conns, FlushCommit(c)
      PROVE  QueuedOnlyOffline'
  <2>1. /\ UNCHANGED <<registered, link, rowsLeft, unread>> /\ rowsLeft[c] = <<>>
        /\ \A d \in Conns \ {c} : handler'[d] = handler[d] /\ marked'[d] = marked[d]
    BY <1>5 DEF FlushCommit, RelayTypeOK
  <2>2. /\ ToSet(pending') \subseteq ToSet(pending) /\ uncommitted \subseteq uncommitted'
        /\ \A x \in ToSet(pending') : x \in marked[c] => x \in uncommitted'
    <3>1. pending \in Seq(Cmds)  BY DEF RelayTypeOK
    <3>2. CASE pending' = NotSent(c) /\ UNCHANGED uncommitted
      BY <3>1, <3>2, WithoutFacts DEF NotSent
    <3>3. CASE UNCHANGED pending /\ uncommitted' = uncommitted \union marked[c]
      BY <3>3
    <3> QED  BY <1>5, <3>2, <3>3 DEF FlushCommit
  <2>3. ASSUME NEW x \in ToSet(pending'), Waits(x) PROVE Waits(x)'
    BY <2>1, <2>2, <2>3, NoRows DEF Waits
  <2> QED  BY <2>2, <2>3, WaitsFor
<1>6. ASSUME NEW c \in Conns, SocketDrops(c) \/ AckRaises(c)
      PROVE  QueuedOnlyOffline'
  <2>1. registered' = NoConn  BY <1>6 DEF SocketDrops, AckRaises, HandlerEnds
  <2> QED  BY <2>1, WaitsFor DEF Waits
<1>7. ASSUME NEW c \in Conns, NoticeCut(c) \/ Cut(c) \/ RefuseAuth(c) \/ Connect(c)
      PROVE  QueuedOnlyOffline'
  <2>1. /\ UNCHANGED <<registered, rowsLeft, marked, uncommitted, unread, pending>>
        /\ \A d \in Conns : handler[d] = "flush" => handler'[d] = "flush"
    BY <1>7 DEF NoticeCut, Cut, RefuseAuth, Connect, RelayTypeOK
  <2>2. registered \in Conns /\ link[registered] # "up" => link'[registered] # "up"
    BY <1>7, RelayConstants DEF NoticeCut, Cut, RefuseAuth, Connect, RelayTypeOK, RelayLinks
  <2>3. ASSUME NEW x, Waits(x) PROVE Waits(x)'
    BY <2>1, <2>2, <2>3 DEF Waits, RelayTypeOK
  <2> QED  BY <2>1, <2>3, WaitsFor
<1>8. ASSUME NEW m \in Cmds, RelayCommand(m)
      PROVE  QueuedOnlyOffline'
  BY <1>1, <1>8 DEF RelayCommand
<1>9. CASE ClientHandles \/ ClientNotices \/ TokenExpires \/ WindowMoves \/ UNCHANGED relayVars
  BY <1>1, <1>9 DEF ClientHandles, ClientNotices, TokenExpires, WindowMoves, relayVars
<1> QED
  BY <1>2, <1>3, <1>4, <1>5, <1>6, <1>7, <1>8, <1>9
  DEF RelayNext, ServerStep, ClientStep
----------------------------------------------------------------------------
LEMMA RelayInitInv == RelayInit => RelayInv
PROOF
<1> SUFFICES ASSUME RelayInit PROVE RelayInv
  OBVIOUS
<1> USE RelayConstants
<1>1. RelayTypeOK
  <2>1. /\ handler \in [Conns -> {"none", "auth", "flush", "loop"}]
        /\ rowsLeft \in [Conns -> Seq(Cmds)] /\ marked \in [Conns -> SUBSET Cmds]
        /\ link \in [Conns -> {"up", "cut", "closed"}] /\ wire \in [Conns -> Seq(Cmds)]
        /\ pending \in Seq(Cmds) /\ handled \in [Cmds -> Nat]
    BY EmptyFacts DEF RelayInit
  <2>2. tokenValid \in BOOLEAN /\ overlapped \in BOOLEAN
    BY Zenon DEF RelayInit
  <2> QED  BY <2>1, <2>2 DEF RelayInit, RelayTypeOK
<1>2. RelayLinks  BY DEF RelayInit, RelayLinks
<1>3. /\ \A m \in Cmds : ~Reached(m) /\ handled[m] = 0
      /\ \A c \in Conns : wire[c] = <<>> /\ rowsLeft[c] = <<>>
      /\ pending = <<>>
  BY NoRows DEF RelayInit, Reached
<1>4. RelayRows
  <2>1. ToSet(pending) \subseteq accepted /\ IsInjective(pending)
    BY <1>3, EmptyFacts
  <2>2. \A c \in Conns : ToSet(rowsLeft[c]) \subseteq accepted /\ IsInjective(rowsLeft[c])
    BY <1>3, EmptyFacts
  <2> QED  BY <1>3, <2>1, <2>2 DEF RelayRows
<1>5. QueuedOnlyOffline  BY <1>3, NoRows DEF QueuedOnlyOffline
<1>6. \A m \in Cmds : OneCopy(m)
  BY <1>3, EmptyFacts DEF OneCopy
<1>7. TwiceOnlyAfterOverlap  BY <1>3 DEF TwiceOnlyAfterOverlap
<1> QED  BY <1>1, <1>2, <1>4, <1>5, <1>6, <1>7 DEF RelayInv

LEMMA RelayStepInv == RelayInv /\ [RelayNext]_relayVars => RelayInv'
PROOF
<1> SUFFICES ASSUME RelayInv, [RelayNext]_relayVars PROVE RelayInv'
  OBVIOUS
<1> USE DEF RelayInv
<1>1. RelayTypeOK' /\ RelayLinks' /\ RelayRows' /\ QueuedOnlyOffline'
  BY RelayTypeStep, LinksStep, RowsStep, QueuedStep
<1>2. ~overlapped' => \A m \in Cmds \ uncommitted' : OneCopy(m)'
  <2> SUFFICES ASSUME ~overlapped', NEW m \in Cmds \ uncommitted' PROVE OneCopy(m)'
    OBVIOUS
  <2> QED  BY CopyStep
<1>3. TwiceOnlyAfterOverlap'
  <2>1. handled' \in [Cmds -> Nat]  BY <1>1 DEF RelayTypeOK
  <2> SUFFICES ASSUME NEW m \in Cmds, handled'[m] > 1, ~overlapped', m \notin uncommitted'
               PROVE  FALSE
    BY DEF TwiceOnlyAfterOverlap
  <2>2. OneCopy(m)'  BY <1>2
  <2> QED  BY <2>1, <2>2 DEF OneCopy
<1> QED  BY <1>1, <1>2, <1>3

\* RelayInv holds in every state: a command waits in the table only while no
\* working connection is registered or a flush has read it, and the local server
\* executes it twice only after two connections overlapped or a commit failed; rows
\* that a failure of the database left behind are the exception to the first part
\* (_handle_command, flush_pending_commands and unregister_local).
THEOREM RelayCorrect == RelaySpec => []RelayInv
BY RelayInitInv, RelayStepInv, PTL DEF RelaySpec
=============================================================================
