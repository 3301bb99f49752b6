-------------------------- MODULE TransportProofs --------------------------
(***************************************************************************)
(* Theorems about what reaches a driver over its sockets.  First the        *)
(* connection and the tap (TappedPresenter), for any clients, observers and *)
(* bounds.  Then the Stop of the control socket, with the calls it has to   *)
(* find and the client of the language server they share (Interrupt), for   *)
(* any threads, channel and bounds.                                         *)
(***************************************************************************)
EXTENDS TappedPresenter, Interrupt, TLAPS

-----------------------------------------------------------------------------
(* The tap.                                                                *)

\* The n-th event of the history is event n, the one being broadcast is the
\* last of them, and no observer has seen an event that was not remembered.
Numbered ==
    /\ \A i \in Indices(tapHistory) : tapHistory[i] = i
    /\ casting \subseteq {Len(tapHistory)}
    /\ \A o \in Observers : \A i \in Indices(seen[o]) : seen[o][i] <= Len(tapHistory)

TapInv == TapTypeOK /\ Numbered /\ ObserversMissNothing

\* What a step of the tap may do: the actions of EventTap, the events in order.
TapNext ==
    \/ Remember(Len(tapHistory) + 1)
    \/ Broadcast
    \/ \E o \in Observers : Onboard(o) \/ ObserverLeaves(o)

\* A line appended is the only new one.
LEMMA LinesOfAppend ==
    ASSUME NEW s \in Seq(Nat), NEW e \in Nat
    PROVE  Lines(Append(s, e)) = Lines(s) \union {e}
<1> DEFINE t == Append(s, e)
<1>1. /\ Len(t) = Len(s) + 1
      /\ t[Len(s) + 1] = e
      /\ \A i \in 1 .. Len(s) : t[i] = s[i]
  OBVIOUS
<1>2. Lines(t) \subseteq Lines(s) \union {e}
  <2>1. ASSUME NEW i \in 1 .. Len(t)
        PROVE  t[i] \in Lines(s) \union {e}
    <3>1. i \in 1 .. Len(s) \/ i = Len(s) + 1
      BY <1>1
    <3> QED
      BY <1>1, <3>1 DEF Lines, Indices
  <2> QED
    BY <2>1 DEF Lines, Indices
<1>3. Lines(s) \subseteq Lines(t)
  <2>1. ASSUME NEW i \in 1 .. Len(s)
        PROVE  s[i] \in Lines(t)
    <3>1. i \in 1 .. Len(t) /\ s[i] = t[i]
      BY <1>1
    <3> HIDE DEF t
    <3> QED
      BY <3>1 DEF Lines, Indices
  <2> QED
    BY <2>1 DEF Lines, Indices
<1>4. e \in Lines(t)
  <2>1. Len(s) + 1 \in 1 .. Len(t)
    BY <1>1
  <2> HIDE DEF t
  <2> QED
    BY <1>1, <2>1 DEF Lines, Indices
<1> QED
  BY <1>2, <1>3, <1>4

\* Initially nothing has been emitted.
LEMMA TapInvInit == TapInit => TapInv
BY DEF TapInit, TapInv, TapTypeOK, Numbered, ObserversMissNothing, Indices, Lines

\* A step of the system is one of the tap or leaves the tap alone.
LEMMA TapStep == Next => TapNext \/ UNCHANGED tapVars
<1> SUFFICES ASSUME Next PROVE TapNext \/ UNCHANGED tapVars
  OBVIOUS
<1>1. CASE Driver
  BY <1>1 DEF Driver, Send, Recv, TapNext
<1>2. CASE Environment
  BY <1>2 DEF Environment, TapNext
<1> QED
  BY <1>1, <1>2 DEF Next

\* What leaves the tap alone leaves its invariant alone.
LEMMA TapInvStutter == TapInv /\ UNCHANGED tapVars => TapInv'
<1> SUFFICES ASSUME TapInv, UNCHANGED tapVars PROVE TapInv'
  OBVIOUS
<1>1. UNCHANGED <<tapHistory, casting, observer, seen, left>>
  BY DEF tapVars
<1>2. TapTypeOK'
  BY <1>1 DEF TapInv, TapTypeOK
<1>3. Numbered' /\ ObserversMissNothing'
  BY <1>1 DEF TapInv, Numbered, ObserversMissNothing, Lines, Indices
<1> QED
  BY <1>2, <1>3 DEF TapInv

\* Remembering, broadcasting and onboarding keep the invariant of the tap.
LEMMA TapInvStep == TapInv /\ TapNext => TapInv'
<1> SUFFICES ASSUME TapInv, TapNext PROVE TapInv'
  OBVIOUS
<1> USE DEF Indices
<1>1. CASE Remember(Len(tapHistory) + 1)
  <2>1. /\ tapHistory' = Append(tapHistory, Len(tapHistory) + 1)
        /\ casting = {}
        /\ casting' = {Len(tapHistory) + 1}
        /\ UNCHANGED <<observer, seen, left>>
    BY <1>1 DEF Remember
  <2>2. TapTypeOK'
    BY <2>1 DEF TapInv, TapTypeOK
  <2>3. /\ Len(tapHistory') = Len(tapHistory) + 1
        /\ \A i \in 1 .. Len(tapHistory) : tapHistory'[i] = tapHistory[i]
        /\ tapHistory'[Len(tapHistory) + 1] = Len(tapHistory) + 1
    BY <2>1 DEF TapInv, TapTypeOK
  <2>4. Numbered'
    <3>1. \A i \in Indices(tapHistory') : tapHistory'[i] = i
      BY <2>3 DEF TapInv, TapTypeOK, Numbered
    <3>2. casting' \subseteq {Len(tapHistory')}
      BY <2>1, <2>3
    <3>3. \A o \in Observers : \A i \in Indices(seen'[o]) : seen'[o][i] <= Len(tapHistory')
      BY <2>1, <2>3 DEF TapInv, TapTypeOK, Numbered
    <3> QED
      BY <3>1, <3>2, <3>3 DEF Numbered
  <2>5. Lines(tapHistory') \subseteq Lines(tapHistory) \union casting'
    BY <2>1, LinesOfAppend DEF TapInv, TapTypeOK
  <2>6. ObserversMissNothing'
    BY <2>1, <2>5 DEF TapInv, ObserversMissNothing
  <2> QED
    BY <2>2, <2>4, <2>6 DEF TapInv
<1>2. CASE Broadcast
  <2> DEFINE attached == {o \in Observers : observer[o] = "attached"}
  <2>1. PICK e \in casting :
            seen' = [o \in Observers |-> IF o \in attached \ left
                                         THEN Append(seen[o], e) ELSE seen[o]]
    BY <1>2 DEF Broadcast
  <2>2. /\ observer' = [o \in Observers |-> IF o \in attached \intersect left
                                            THEN "dropped" ELSE observer[o]]
        /\ casting' = {}
        /\ UNCHANGED <<tapHistory, left>>
    BY <1>2 DEF Broadcast
  <2>3. e = Len(tapHistory) /\ casting = {e} /\ e \in Nat
    BY <2>1 DEF TapInv, TapTypeOK, Numbered
  <2>4. TapTypeOK'
    BY <2>1, <2>2, <2>3 DEF TapInv, TapTypeOK
  <2>5. ASSUME NEW o \in Observers
        PROVE  \A i \in Indices(seen'[o]) : seen'[o][i] <= Len(tapHistory)
    BY <2>1, <2>3 DEF TapInv, TapTypeOK, Numbered
  <2>6. Numbered'
    BY <2>2, <2>5 DEF TapInv, Numbered
  <2>7. ASSUME NEW o \in Observers, observer'[o] = "attached"
        PROVE  /\ Lines(tapHistory') \subseteq Lines(seen'[o]) \union casting'
               /\ \A i, j \in Indices(seen'[o]) : i < j => seen'[o][i] <= seen'[o][j]
    <3>1. observer[o] = "attached" /\ o \notin left
      BY <2>2, <2>7
    <3>2. seen'[o] = Append(seen[o], e) /\ seen[o] \in Seq(Nat)
      BY <2>1, <3>1 DEF TapInv, TapTypeOK
    <3>3. Lines(seen'[o]) = Lines(seen[o]) \union {e}
      BY <2>3, <3>2, LinesOfAppend
    <3>4. Lines(tapHistory') \subseteq Lines(seen'[o]) \union casting'
      BY <2>2, <2>3, <3>1, <3>3 DEF TapInv, ObserversMissNothing
    <3>5. \A i, j \in Indices(seen'[o]) : i < j => seen'[o][i] <= seen'[o][j]
      BY <2>3, <3>1, <3>2 DEF TapInv, Numbered, ObserversMissNothing
    <3> QED
      BY <3>4, <3>5
  <2> QED
    BY <2>4, <2>6, <2>7 DEF TapInv, ObserversMissNothing
<1>3. ASSUME NEW o \in Observers, ObserverLeaves(o)
      PROVE  TapInv'
  <2>1. UNCHANGED <<tapHistory, casting, observer, seen>> /\ left' = left \union {o}
    BY <1>3 DEF ObserverLeaves
  <2>2. TapTypeOK'
    BY <2>1 DEF TapInv, TapTypeOK
  <2>3. Numbered' /\ ObserversMissNothing'
    BY <2>1 DEF TapInv, Numbered, ObserversMissNothing, Lines
  <2> QED
    BY <2>2, <2>3 DEF TapInv
<1>4. ASSUME NEW o \in Observers, Onboard(o)
      PROVE  TapInv'
  <2>1. CASE UNCHANGED seen /\ observer' = [observer EXCEPT ![o] = "dropped"]
    <3>1. UNCHANGED <<tapHistory, casting, left>>
      BY <1>4 DEF Onboard
    <3>2. TapTypeOK' /\ Numbered'
      BY <2>1, <3>1 DEF TapInv, TapTypeOK, Numbered
    <3>3. \A p \in Observers : observer'[p] = "attached" => observer[p] = "attached"
      BY <2>1 DEF TapInv, TapTypeOK
    <3>4. ObserversMissNothing'
      BY <2>1, <3>1, <3>3 DEF TapInv, ObserversMissNothing, Lines
    <3> QED
      BY <3>2, <3>4 DEF TapInv
  <2>2. CASE /\ observer' = [observer EXCEPT ![o] = "attached"]
             /\ seen' = [seen EXCEPT ![o] = tapHistory]
    <3>1. UNCHANGED <<tapHistory, casting, left>>
      BY <1>4 DEF Onboard
    <3>2. TapTypeOK'
      BY <2>2, <3>1 DEF TapInv, TapTypeOK
    <3>3. /\ seen'[o] = tapHistory
          /\ \A p \in Observers \ {o} : seen'[p] = seen[p] /\ observer'[p] = observer[p]
      BY <2>2 DEF TapInv, TapTypeOK
    <3>4. ASSUME NEW p \in Observers
          PROVE  /\ \A i \in 1 .. Len(seen'[p]) : seen'[p][i] <= Len(tapHistory)
                 /\ observer'[p] = "attached" =>
                       /\ Lines(tapHistory) \subseteq Lines(seen'[p]) \union casting
                       /\ \A i, j \in 1 .. Len(seen'[p]) :
                              i < j => seen'[p][i] <= seen'[p][j]
      <4>1. CASE p = o
        BY <3>3, <4>1 DEF TapInv, TapTypeOK, Numbered
      <4>2. CASE p # o
        BY <3>3, <4>2 DEF TapInv, Numbered, ObserversMissNothing
      <4> QED
        BY <4>1, <4>2
    <3>5. Numbered' /\ ObserversMissNothing'
      <4>1. Lines(tapHistory') = Lines(tapHistory)
        BY <3>1 DEF Lines
      <4> QED
        BY <3>1, <3>4, <4>1 DEF TapInv, Numbered, ObserversMissNothing
    <3> QED
      BY <3>2, <3>5 DEF TapInv
  <2> QED
    BY <1>4, <2>1, <2>2 DEF Onboard
<1> QED
  BY <1>1, <1>2, <1>3, <1>4 DEF TapNext

-----------------------------------------------------------------------------
(* The connection to the client.                                           *)

\* Until recv has returned something, an attached client means that its Hello
\* is kept; and recv reads from a client only when none is kept.
HelloIsKept ==
    /\ received = <<>> /\ Active # {} => pendingHello
    /\ at = "read" => ~pendingHello

HostInv == HostTypeOK /\ HelloIsKept /\ HelloFirst /\ ClientSeesHistory

\* What a step of the connection may do: the actions of SocketHost.
HostNext ==
    \/ \E c \in Clients : Connect(c) \/ SayHello(c) \/ Speak(c) \/ Leave(c)
    \/ StartSend \/ StartRecv \/ SendAdopts \/ RecvPending \/ RecvAdopts
    \/ Attach \/ AttachFails \/ Write(Len(history) + 1) \/ Read

\* A step of the system is one of the connection or leaves it alone.
LEMMA HostStep == Next => HostNext \/ UNCHANGED hostVars
<1> SUFFICES ASSUME Next PROVE HostNext \/ UNCHANGED hostVars
  OBVIOUS
<1>1. CASE Driver
  BY <1>1 DEF Driver, Send, Recv, HostNext
<1>2. CASE Environment
  BY <1>2 DEF Environment, HostNext
<1> QED
  BY <1>1, <1>2 DEF Next

\* Initially nobody has connected.
LEMMA HostInvInit == HostInit => HostInv
<1> SUFFICES ASSUME HostInit PROVE HostInv
  OBVIOUS
<1>1. HostTypeOK
  <2>1. MaxSays \in Nat /\ 0 \in 0 .. MaxSays
    BY SocketHostAssumption
  <2>2. /\ link \in [Clients -> Links]
        /\ outbox \in [Clients -> Seq(Line)]
        /\ inbox \in [Clients -> Seq(Nat)]
        /\ says \in 0 .. MaxSays
    BY <2>1 DEF HostInit, Links
  <2>3. /\ at \in Positions
        /\ channel \in Seq(Clients)
        /\ gone \subseteq Clients
        /\ greeted \subseteq Clients
        /\ history \in Seq(Nat)
        /\ received \in Seq({Hello} \union Says)
        /\ pendingHello \in BOOLEAN
    <3>1. \A S : <<>> \in Seq(S)
      OBVIOUS
    <3>2. /\ at \in Positions /\ gone \subseteq Clients /\ greeted \subseteq Clients
          /\ pendingHello \in BOOLEAN
      BY DEF HostInit, Positions
    <3>3. channel = <<>> /\ history = <<>> /\ received = <<>>
      BY DEF HostInit
    <3> QED
      BY <3>1, <3>2, <3>3, Zenon
  <2> QED
    BY <2>2, <2>3 DEF HostTypeOK
<1>2. Active = {}
  BY DEF HostInit, Active, Linked
<1> QED
  BY <1>1, <1>2 DEF HostInit, HostInv, HelloIsKept, HelloFirst, ClientSeesHistory

\* The steps of the clients are well typed.
LEMMA ClientTypes ==
    ASSUME HostTypeOK, NEW c \in Clients,
           Connect(c) \/ SayHello(c) \/ Speak(c) \/ Leave(c)
    PROVE  HostTypeOK'
<1> USE DEF HostTypeOK
<1>1. CASE Connect(c)
  BY <1>1 DEF Connect, Links
<1>2. ASSUME NEW line \in Line, Writes(c, line)
      PROVE  /\ outbox' \in [Clients -> Seq(Line)]
             /\ greeted' \subseteq Clients
             /\ UNCHANGED <<at, link, channel, gone, inbox, history, pendingHello, received>>
  <2>1. Append(outbox[c], line) \in Seq(Line)
    OBVIOUS
  <2> QED
    BY <1>2, <2>1 DEF Writes
<1>3. CASE SayHello(c)
  <2>1. Hello \in Line
    BY DEF Line
  <2> QED
    BY <1>2, <1>3, <2>1 DEF SayHello
<1>4. CASE Speak(c)
  <2>1. says' \in 1 .. MaxSays /\ says' = says + 1
    BY <1>4, SocketHostAssumption DEF Speak
  <2>2. Bad \in Line /\ <<"say", says + 1>> \in Line
    BY <2>1 DEF Line, Says
  <2>3. PICK line \in Line : Writes(c, line)
    BY <1>4, <2>2 DEF Speak
  <2> QED
    BY <1>2, <2>1, <2>3
<1>5. CASE Leave(c)
  BY <1>5 DEF Leave
<1> QED
  BY <1>1, <1>3, <1>4, <1>5

\* Adopting the latest connection is well typed and attaches nobody yet.
LEMMA DrainFacts ==
    ASSUME HostTypeOK, NEW to \in Positions, DrainLatest(to)
    PROVE  /\ at' = to /\ UNCHANGED <<gone, greeted, says>> /\ channel' = <<>>
           /\ link' \in [Clients -> Links]
           /\ Active' \subseteq Active
<1>1. /\ link' = [c \in Clients |-> CASE c = channel[Len(channel)] -> "attaching"
                                       [] link[c] = "channel"       -> "dropped"
                                       [] OTHER                     -> link[c]]
      /\ channel' = <<>>
      /\ at' = to /\ UNCHANGED <<gone, greeted, says>>
  BY DEF DrainLatest, Goes
<1>2. \A c \in Clients : link[c] \in Links
  BY DEF HostTypeOK
<1>3. link' \in [Clients -> Links]
  BY <1>1, <1>2 DEF Links
<1>4. \A c \in Clients : link'[c] = "active" => link[c] = "active"
  BY <1>1
<1> QED
  BY <1>1, <1>3, <1>4 DEF Active, Linked

\* The steps that look for a connection: what they leave alone.
LEMMA AdoptFacts ==
    ASSUME HostTypeOK, SendAdopts \/ RecvAdopts
    PROVE  /\ HostTypeOK'
           /\ Active' \subseteq Active
           /\ at' = "read" => ~pendingHello
           /\ UNCHANGED <<inbox, history, pendingHello, received>>
<1>1. CASE SendAdopts
  <2>1. CASE DrainLatest("sendHello")
    <3>1. "sendHello" \in Positions
      BY DEF Positions
    <3>2. /\ at' = "sendHello" /\ UNCHANGED <<gone, greeted, says>> /\ channel' = <<>>
          /\ link' \in [Clients -> Links]
          /\ Active' \subseteq Active
      BY <2>1, <3>1, DrainFacts
    <3>3. UNCHANGED <<outbox, inbox, history, pendingHello, received>>
      BY <1>1 DEF SendAdopts
    <3>4. HostTypeOK'
      BY <3>1, <3>2, <3>3 DEF HostTypeOK
    <3> QED
      BY <3>2, <3>3, <3>4
  <2>2. CASE channel = <<>> /\ Goes("write") /\ UNCHANGED <<link, channel>>
    BY <1>1, <2>2 DEF SendAdopts, HostTypeOK, Positions, Goes, Active, Linked
  <2> QED
    BY <1>1, <2>1, <2>2 DEF SendAdopts
<1>2. CASE RecvAdopts
  <2>1. CASE DrainLatest("recvHello")
    <3>1. "recvHello" \in Positions
      BY DEF Positions
    <3>2. /\ at' = "recvHello" /\ UNCHANGED <<gone, greeted, says>> /\ channel' = <<>>
          /\ link' \in [Clients -> Links]
          /\ Active' \subseteq Active
      BY <2>1, <3>1, DrainFacts
    <3>3. UNCHANGED <<outbox, inbox, history, pendingHello, received>>
      BY <1>2 DEF RecvAdopts
    <3>4. HostTypeOK'
      BY <3>1, <3>2, <3>3 DEF HostTypeOK
    <3> QED
      BY <3>2, <3>3, <3>4
  <2>2. CASE channel = <<>> /\ Goes("read") /\ UNCHANGED <<link, channel>>
    BY <1>2, <2>2 DEF RecvAdopts, HostTypeOK, Positions, Goes, Active, Linked
  <2>3. CASE /\ channel # <<>>
             /\ link' = [link EXCEPT ![Head(channel)] = "attaching"]
             /\ channel' = Tail(channel)
             /\ Goes("recvHello")
    <3>1. Tail(channel) \in Seq(Clients)
      BY <2>3 DEF HostTypeOK
    <3>2. link' \in [Clients -> Links]
      BY <2>3 DEF HostTypeOK, Links
    <3>3. \A c \in Clients : link'[c] = "active" => link[c] = "active"
      BY <2>3 DEF HostTypeOK
    <3>4. HostTypeOK'
      BY <1>2, <2>3, <3>1, <3>2 DEF RecvAdopts, HostTypeOK, Positions, Goes
    <3> QED
      BY <1>2, <2>3, <3>3, <3>4 DEF RecvAdopts, Goes, Active, Linked
  <2> QED
    BY <1>2, <2>1, <2>2, <2>3 DEF RecvAdopts
<1> QED
  BY <1>1, <1>2

\* A step that attaches nobody and returns nothing keeps the invariant.
LEMMA QuietStep ==
    ASSUME HostInv, HostTypeOK', Active' \subseteq Active,
           at' = "read" => ~pendingHello,
           UNCHANGED <<inbox, history, pendingHello, received>>
    PROVE  HostInv'
<1>1. HelloIsKept'
  BY DEF HostInv, HelloIsKept
<1>2. HelloFirst'
  BY DEF HostInv, HelloFirst
<1>3. ClientSeesHistory'
  BY DEF HostInv, ClientSeesHistory
<1> QED
  BY <1>1, <1>2, <1>3 DEF HostInv

\* Attaching keeps the invariant: the Hello is kept, the history replayed, and
\* there is no other client.
LEMMA AttachStep == ASSUME HostInv, Attach PROVE HostInv'
<1>1. PICK c \in Linked("attaching") :
          /\ outbox[c] # <<>>
          /\ Head(outbox[c]) = Hello
          /\ outbox' = [outbox EXCEPT ![c] = Tail(@)]
          /\ LET lost == c \in gone /\ history # <<>>
             IN /\ link' = [d \in Clients |-> CASE d = c /\ ~lost -> "active"
                                                [] d = c \/ link[d] = "active" -> "dropped"
                                                [] OTHER -> link[d]]
                /\ inbox' = IF lost THEN inbox ELSE [inbox EXCEPT ![c] = history]
                /\ Goes(CASE lost             -> "failed"
                          [] at = "sendHello" -> "write"
                          [] OTHER            -> "recv")
  BY DEF Attach
<1>2. pendingHello' = TRUE /\ UNCHANGED <<channel, history, received>>
  BY DEF Attach
<1>3. c \in Clients
  BY DEF Linked
<1>4. Tail(outbox[c]) \in Seq(Line)
  BY <1>1, <1>3 DEF HostInv, HostTypeOK
<1>5. \A d \in Clients : link[d] \in Links
  BY DEF HostInv, HostTypeOK
<1>6. link' \in [Clients -> Links]
  BY <1>1, <1>5 DEF Links
<1>7. at' \in Positions /\ at' # "read" /\ UNCHANGED <<gone, greeted, says>>
  BY <1>1 DEF Goes, Positions
<1>8. inbox' \in [Clients -> Seq(Nat)]
  BY <1>1 DEF HostInv, HostTypeOK
<1>9. outbox' \in [Clients -> Seq(Line)]
  BY <1>1, <1>4 DEF HostInv, HostTypeOK
<1>10. HostTypeOK'
  BY <1>2, <1>6, <1>7, <1>8, <1>9 DEF HostInv, HostTypeOK
<1>11. \A d \in Active' : inbox'[d] = history
  <2>1. ASSUME NEW d \in Clients, link'[d] = "active"
        PROVE  inbox'[d] = history
    <3>1. d = c /\ ~(c \in gone /\ history # <<>>)
      BY <1>1, <2>1
    <3> QED
      BY <1>1, <1>3, <3>1 DEF HostInv, HostTypeOK
  <2> QED
    BY <2>1 DEF Active, Linked
<1>12. HelloIsKept' /\ HelloFirst' /\ ClientSeesHistory'
  BY <1>2, <1>7, <1>11 DEF HostInv, HelloIsKept, HelloFirst, ClientSeesHistory
<1> QED
  BY <1>10, <1>12 DEF HostInv

\* Sending keeps the invariant: the event goes to the history and to the client
\* that is still attached afterwards.
LEMMA WriteStep == ASSUME HostInv, Write(Len(history) + 1) PROVE HostInv'
<1> DEFINE e == Len(history) + 1
<1>1. /\ history' = Append(history, e)
      /\ inbox' = [c \in Clients |-> IF c \in Active \ gone THEN Append(inbox[c], e)
                                     ELSE inbox[c]]
      /\ link' = [c \in Clients |-> IF c \in Active \intersect gone THEN "dropped"
                                    ELSE link[c]]
      /\ at' = "idle"
      /\ UNCHANGED <<gone, greeted, says, channel, outbox, pendingHello, received>>
  BY DEF Write, Goes
<1>2. e \in Nat /\ history' \in Seq(Nat)
  BY <1>1 DEF HostInv, HostTypeOK
<1> HIDE DEF e
<1>3. inbox' \in [Clients -> Seq(Nat)]
  <2>1. \A c \in Clients : Append(inbox[c], e) \in Seq(Nat) /\ inbox[c] \in Seq(Nat)
    BY <1>2 DEF HostInv, HostTypeOK
  <2> QED
    BY <1>1, <2>1
<1>4. link' \in [Clients -> Links]
  BY <1>1 DEF HostInv, HostTypeOK, Links
<1>5. HostTypeOK'
  BY <1>1, <1>2, <1>3, <1>4 DEF HostInv, HostTypeOK, Positions
<1>6. Active' \subseteq Active \ gone
  BY <1>1 DEF Active, Linked
<1>7. ClientSeesHistory'
  <2>1. ASSUME NEW c \in Active' PROVE inbox'[c] = history'
    <3>1. c \in Clients /\ c \in Active \ gone
      BY <1>6 DEF Active, Linked
    <3> QED
      BY <1>1, <3>1 DEF HostInv, ClientSeesHistory
  <2> QED
    BY <2>1 DEF ClientSeesHistory
<1>8. HelloIsKept' /\ HelloFirst'
  BY <1>1, <1>6 DEF HostInv, HelloIsKept, HelloFirst
<1> QED
  BY <1>5, <1>7, <1>8 DEF HostInv

\* Reading keeps the invariant: whoever is read has had its Hello returned.
LEMMA ReadStep == ASSUME HostInv, Read PROVE HostInv'
<1>1. at = "read" /\ UNCHANGED <<channel, inbox, history, pendingHello>>
  BY DEF Read
<1>2. PICK c \in Active :
          \/ /\ outbox[c] # <<>>
             /\ Head(outbox[c]) \in Says
             /\ received' = Append(received, Head(outbox[c]))
             /\ outbox' = [outbox EXCEPT ![c] = Tail(@)]
             /\ Goes("idle")
             /\ UNCHANGED link
          \/ /\ \/ outbox[c] # <<>> /\ Head(outbox[c]) = Bad
                \/ outbox[c] = <<>> /\ c \in gone
             /\ link' = [link EXCEPT ![c] = "dropped"]
             /\ Goes("recv")
             /\ UNCHANGED <<received, outbox>>
  BY DEF Read
<1>3. c \in Clients
  BY DEF Active, Linked
<1>4. received # <<>> /\ received[1] = Hello /\ received \in Seq({Hello} \union Says)
  BY <1>1, <1>2 DEF HostInv, HostTypeOK, HelloIsKept, HelloFirst
<1>5. CASE Head(outbox[c]) \in Says /\ received' = Append(received, Head(outbox[c]))
           /\ outbox[c] # <<>> /\ outbox' = [outbox EXCEPT ![c] = Tail(@)]
           /\ Goes("idle") /\ UNCHANGED link
  <2>1. Tail(outbox[c]) \in Seq(Line)
    BY <1>3, <1>5 DEF HostInv, HostTypeOK
  <2>2. /\ received' \in Seq({Hello} \union Says)
        /\ received' # <<>> /\ received'[1] = Hello
    BY <1>4, <1>5
  <2>3. HostTypeOK'
    BY <1>1, <1>5, <2>1, <2>2 DEF HostInv, HostTypeOK, Goes, Positions
  <2>4. HelloIsKept' /\ HelloFirst' /\ ClientSeesHistory'
    BY <1>1, <1>5, <2>2 DEF HostInv, HelloIsKept, HelloFirst, ClientSeesHistory, Goes,
                            Active, Linked
  <2> QED
    BY <2>3, <2>4 DEF HostInv
<1>6. CASE link' = [link EXCEPT ![c] = "dropped"] /\ Goes("recv")
           /\ UNCHANGED <<received, outbox>>
  <2>1. link' \in [Clients -> Links]
    BY <1>6 DEF HostInv, HostTypeOK, Links
  <2>2. HostTypeOK'
    BY <1>1, <1>6, <2>1 DEF HostInv, HostTypeOK, Goes, Positions
  <2>3. Active' \subseteq Active
    BY <1>6 DEF HostInv, HostTypeOK, Active, Linked
  <2>4. at' # "read"
    BY <1>6 DEF Goes
  <2> QED
    BY <1>1, <1>6, <2>2, <2>3, <2>4, QuietStep
<1> QED
  BY <1>2, <1>5, <1>6

\* Every step of the connection keeps the invariant.
LEMMA HostInvStep == HostInv /\ HostNext => HostInv'
<1> SUFFICES ASSUME HostInv, HostNext PROVE HostInv'
  OBVIOUS
<1>1. HostTypeOK
  BY DEF HostInv
<1>2. ASSUME NEW c \in Clients, Connect(c) \/ SayHello(c) \/ Speak(c) \/ Leave(c)
      PROVE  HostInv'
  <2>1. HostTypeOK'
    BY <1>1, <1>2, ClientTypes
  <2>2. UNCHANGED <<at, inbox, history, pendingHello, received>>
    BY <1>2 DEF Connect, SayHello, Speak, Writes, Leave
  <2>3. Active' \subseteq Active
    BY <1>1, <1>2 DEF Connect, SayHello, Speak, Writes, Leave, Active, Linked, HostTypeOK
  <2>4. at' = "read" => ~pendingHello
    BY <2>2 DEF HostInv, HelloIsKept
  <2> QED
    BY <2>1, <2>2, <2>3, <2>4, QuietStep
<1>3. CASE StartSend \/ StartRecv \/ AttachFails
  <2>1. /\ at' \in Positions /\ at' # "read"
        /\ UNCHANGED <<gone, greeted, says, link, channel, outbox, inbox>>
        /\ UNCHANGED <<history, pendingHello, received>>
    BY <1>3 DEF StartSend, StartRecv, AttachFails, Goes, Positions
  <2>2. HostTypeOK'
    BY <1>1, <2>1 DEF HostTypeOK
  <2>3. Active' = Active
    BY <2>1 DEF Active, Linked
  <2> QED
    BY <2>1, <2>2, <2>3, QuietStep
<1>4. CASE SendAdopts \/ RecvAdopts
  BY <1>1, <1>4, AdoptFacts, QuietStep
<1>5. CASE RecvPending
  <2>1. /\ received' = Append(received, Hello) /\ pendingHello' = FALSE /\ at' = "idle"
        /\ UNCHANGED <<gone, greeted, says, link, channel, outbox, inbox, history>>
    BY <1>5 DEF RecvPending, Goes
  <2>2. /\ received' \in Seq({Hello} \union Says)
        /\ received' # <<>>
        /\ received'[1] = Hello
    BY <1>1, <2>1 DEF HostInv, HostTypeOK, HelloFirst
  <2>3. HostTypeOK'
    BY <1>1, <2>1, <2>2 DEF HostTypeOK, Positions
  <2>4. HelloIsKept' /\ HelloFirst' /\ ClientSeesHistory'
    BY <2>1, <2>2 DEF HostInv, HelloIsKept, HelloFirst, ClientSeesHistory, Active, Linked
  <2> QED
    BY <2>3, <2>4 DEF HostInv
<1> QED
  BY <1>2, <1>3, <1>4, <1>5, AttachStep, WriteStep, ReadStep DEF HostNext

\* What leaves the connection alone leaves its invariant alone.
LEMMA HostInvStutter == HostInv /\ UNCHANGED hostVars => HostInv'
BY DEF hostVars, HostInv, HostTypeOK, HelloIsKept, HelloFirst, ClientSeesHistory, Active, Linked

\* The two invariants hold together in every reachable state.
LEMMA Invariant == Spec => [](TapInv /\ HostInv)
<1>1. Init => TapInv /\ HostInv
  BY TapInvInit, HostInvInit DEF Init
<1>2. TapInv /\ HostInv /\ [Next]_vars => (TapInv /\ HostInv)'
  <2> SUFFICES ASSUME TapInv, HostInv, [Next]_vars PROVE TapInv' /\ HostInv'
    OBVIOUS
  <2>1. CASE Next
    BY <2>1, TapStep, TapInvStep, TapInvStutter, HostStep, HostInvStep, HostInvStutter
  <2>2. CASE UNCHANGED vars
    BY <2>2, TapInvStutter, HostInvStutter DEF vars
  <2> QED
    BY <2>1, <2>2
<1> QED
  BY <1>1, <1>2, PTL DEF Spec

\* The types of the connection and the tap.
THEOREM TypeCorrect == Spec => []TypeOK
<1>1. TapInv /\ HostInv => TypeOK
  BY DEF TypeOK, TapInv, HostInv
<1> QED
  BY <1>1, Invariant, PTL

\* An attached observer misses no event, whatever the number of observers and
\* of events, and whenever it attaches.
THEOREM ObserversAreServed == Spec => []ObserversMissNothing
<1>1. TapInv => ObserversMissNothing
  BY DEF TapInv
<1> QED
  BY <1>1, Invariant, PTL

\* Whoever is attached has been sent the whole history, whichever clients came,
\* spoke and went before.
THEOREM ClientsAreServed == Spec => []ClientSeesHistory
<1>1. HostInv => ClientSeesHistory
  BY DEF HostInv
<1> QED
  BY <1>1, Invariant, PTL

\* The handshake of a run always gets its Hello.
THEOREM HandshakeGetsHello == Spec => []HelloFirst
<1>1. HostInv => HelloFirst
  BY DEF HostInv
<1> QED
  BY <1>1, Invariant, PTL

-----------------------------------------------------------------------------
(* The client of the language server.                                      *)

Client == [child : {"none", "up", "exited"}, asked : BOOLEAN, chan : Seq(Frames),
           reader : {"reading", "full", "gone"}, held : Frames]

\* The positions under the mutex.
Inside == {"initialize", "quiescent", "ask", "await", "join"}

\* A thread is inside exactly while it holds the mutex.
OneInside == \A t \in Threads : th[t].at \in Inside <=> lock = t

\* A thread that waits for a request had one to make.
HadOne == \A t \in Threads : th[t].at = "await" => th[t].more > 0

LspInv == LspTypeOK /\ OneInside /\ HadOne

\* What a frame put in the channel, or held back, leaves of a client.
LEMMA SendsType ==
    ASSUME NEW c \in Client, Len(c.chan) <= Capacity, NEW f \in Frames
    PROVE  Sends(c, f) \in Client /\ Len(Sends(c, f).chan) <= Capacity
<1> USE LspClientAssumption
<1>1. CASE Len(c.chan) < Capacity
  <2>1. /\ Append(c.chan, f) \in Seq(Frames)
        /\ Len(Append(c.chan, f)) <= Capacity
    BY <1>1 DEF Client
  <2>2. "note" \in Frames
    BY DEF Frames
  <2> QED
    BY <1>1, <2>1, <2>2 DEF Client, Sends
<1>2. CASE ~(Len(c.chan) < Capacity)
  BY <1>2 DEF Client, Sends
<1> QED
  BY <1>1, <1>2

\* The same of a client whose answer nobody waits for any more.
LEMMA ForgottenType ==
    ASSUME NEW c \in Client, Len(c.chan) <= Capacity
    PROVE  Forgotten(c) \in Client /\ Len(Forgotten(c).chan) <= Capacity
<1> USE LspClientAssumption
<1> DEFINE noted(f) == IF f = "answer" THEN "note" ELSE f
           s == [i \in DOMAIN c.chan |-> noted(c.chan[i])]
<1>1. \A f \in Frames : noted(f) \in Frames
  BY DEF Frames
<1>2. s \in Seq(Frames) /\ Len(s) = Len(c.chan)
  <2>1. /\ c.chan \in Seq(Frames)
        /\ DOMAIN c.chan = 1 .. Len(c.chan)
        /\ \A i \in 1 .. Len(c.chan) : c.chan[i] \in Frames
    BY DEF Client
  <2> HIDE DEF noted
  <2> QED
    BY <1>1, <2>1
<1>3. c.held \in Frames
  BY DEF Client
<1>4. Forgotten(c) = [c EXCEPT !.asked = FALSE, !.held = noted(@), !.chan = s]
  BY DEF Forgotten
<1> HIDE DEF noted, s
<1> QED
  BY <1>1, <1>2, <1>3, <1>4 DEF Client

\* The client before it is started.
LEMMA NoClientType == NoClient \in Client /\ Len(NoClient.chan) <= Capacity
BY LspClientAssumption DEF NoClient, Client, Frames

\* The type invariant with the name of the client's type.
LEMMA LspType ==
    LspTypeOK <=> /\ lock \in Threads \union {Nobody}
                  /\ client \in Client
                  /\ Len(client.chan) <= Capacity
                  /\ th \in [Threads -> [at : Labels, more : Nat]]
BY DEF LspTypeOK, Client

\* No thread is called Nobody.
LEMMA NobodyElse == Nobody \notin Threads
BY ThreadsDiffer DEF Threads, Nobody, Warmer, Leaver

\* A thread that leaves, from inside or with the mutex free.
LEMMA LeaveKeeps ==
    ASSUME LspInv, NEW t \in Threads, lock \in {t, Nobody}, LeavesClient(t),
           client' \in Client, Len(client'.chan) <= Capacity
    PROVE  LspInv'
<1>1. th' \in [Threads -> [at : Labels, more : Nat]]
  BY LspType DEF LspInv, LeavesClient, Labels
<1>2. lock' = Nobody /\ LspTypeOK'
  BY <1>1, LspType DEF LspInv, LeavesClient, LspTypeOK, Client
<1>3. OneInside'
  BY <1>2, NobodyElse, LspType DEF LspInv, OneInside, LeavesClient, Inside
<1>4. HadOne'
  BY LspType DEF LspInv, HadOne, LeavesClient
<1> QED
  BY <1>2, <1>3, <1>4 DEF LspInv

\* A thread that moves on inside, having the mutex or taking it.
LEMMA InsideKeeps ==
    ASSUME LspInv, NEW t \in Threads, lock \in {t, Nobody}, lock' = t,
           th'[t] \in [at : Labels, more : Nat], th' = [th EXCEPT ![t] = th'[t]],
           th'[t].at \in Inside, th'[t].at = "await" => th'[t].more > 0,
           client' \in Client, Len(client'.chan) <= Capacity
    PROVE  LspInv'
<1>1. th' \in [Threads -> [at : Labels, more : Nat]]
  BY LspType DEF LspInv, Labels, Inside
<1>2. LspTypeOK'
  BY <1>1 DEF LspTypeOK, Client
<1>3. OneInside'
  BY NobodyElse, LspType DEF LspInv, OneInside
<1>4. HadOne'
  BY LspType DEF LspInv, HadOne
<1> QED
  BY <1>2, <1>3, <1>4 DEF LspInv

\* The mutex taken for a teardown, or kept.
LEMMA DropsKeeps ==
    ASSUME LspInv, NEW t \in Threads, lock \in {t, Nobody}, Drops(t)
    PROVE  LspInv'
<1>1. /\ client' \in Client
      /\ Len(client'.chan) <= Capacity
  BY LspType DEF LspInv, Drops, Client
<1>2. /\ th'[t] = [at |-> "join", more |-> 0]
      /\ th' = [th EXCEPT ![t] = th'[t]]
      /\ lock' = t
  BY LspType DEF LspInv, Drops
<1>3. th'[t] \in [at : Labels, more : Nat] /\ th'[t].at \in Inside /\ th'[t].at # "await"
  BY <1>2 DEF Labels, Inside
<1> QED
  BY <1>1, <1>2, <1>3, InsideKeeps

\* The reader thread and the child do not touch the mutex.
LEMMA ReaderKeeps ==
    ASSUME LspInv, Reader \/ ChildDies
    PROVE  LspInv'
<1> USE LspType DEF LspInv
<1>1. UNCHANGED <<lock, th>>
  BY DEF Reader, Reads, ReadsEof, SendsHeld, ChildDies
<1>2. client' \in Client /\ Len(client'.chan) <= Capacity
  <2>1. CASE Reads
    <3>1. ASSUME NEW f \in {"note", "garbled"}, client' = Sends(client, f)
          PROVE  client' \in Client /\ Len(client'.chan) <= Capacity
      BY <3>1, SendsType DEF Frames, Ends
    <3>2. CASE client' = Sends([client EXCEPT !.asked = FALSE], "answer")
      <4>1. /\ [client EXCEPT !.asked = FALSE] \in Client
            /\ Len([client EXCEPT !.asked = FALSE].chan) <= Capacity
        BY DEF Client
      <4> QED
        BY <3>2, <4>1, SendsType DEF Frames
    <3> QED
      BY <2>1, <3>1, <3>2 DEF Reads
  <2>2. CASE ReadsEof
    BY <2>2, SendsType DEF ReadsEof, Frames, Ends
  <2>3. CASE SendsHeld
    <3>1. client.held \in Frames
      BY DEF Client
    <3> QED
      BY <2>3, <3>1, SendsType DEF SendsHeld
  <2>4. CASE ChildDies
    BY <2>4 DEF ChildDies, Client
  <2> QED
    BY <2>1, <2>2, <2>3, <2>4 DEF Reader
<1>3. LspTypeOK'
  BY <1>1, <1>2 DEF LspTypeOK, Client
<1> QED
  BY <1>1, <1>3 DEF OneInside, HadOne

\* Asking for the mutex, and taking a result, are done outside.
LEMMA OutsideKeeps ==
    ASSUME LspInv, NEW t \in Threads, (\E n \in Nat : Wants(t, n)) \/ Takes(t)
    PROVE  LspInv'
<1>1. /\ th'[t] \in [at : Labels, more : Nat] /\ th' = [th EXCEPT ![t] = th'[t]]
      /\ th'[t].at \in {"lock", "off"}
  <2>1. ASSUME NEW n \in Nat, Wants(t, n)
        PROVE  /\ th'[t] \in [at : Labels, more : Nat] /\ th' = [th EXCEPT ![t] = th'[t]]
               /\ th'[t].at \in {"lock", "off"}
    BY <2>1, LspType DEF LspInv, Wants, Labels
  <2>2. ASSUME Takes(t)
        PROVE  /\ th'[t] \in [at : Labels, more : Nat] /\ th' = [th EXCEPT ![t] = th'[t]]
               /\ th'[t].at \in {"lock", "off"}
    BY <2>2, LspType DEF LspInv, Takes, Labels
  <2> QED
    BY <2>1, <2>2
<1>2. UNCHANGED <<lock, client>> /\ th[t].at \in {"off", "returned"}
  BY DEF Wants, Takes
<1>3. LspTypeOK'
  <2>1. th' \in [Threads -> [at : Labels, more : Nat]]
    BY <1>1, LspType DEF LspInv, Labels
  <2> QED
    BY <1>2, <2>1, LspType DEF LspInv, LspTypeOK, Client
<1>4. OneInside' /\ HadOne'
  BY <1>1, <1>2, LspType DEF LspInv, OneInside, HadOne, Inside
<1> QED
  BY <1>3, <1>4 DEF LspInv
\* What a thread of the client does keeps the invariant.
LEMMA WorksKeeps ==
    ASSUME LspInv, NEW t \in Threads, Works(t)
    PROVE  LspInv'
<1> DEFINE Typed == client' \in Client /\ Len(client'.chan) <= Capacity
           Moved == /\ th'[t] \in [at : Labels, more : Nat]
                    /\ th' = [th EXCEPT ![t] = th'[t]]
                    /\ th'[t].at \in Inside
                    /\ th'[t].at = "await" => th'[t].more > 0
                    /\ lock' = t
<1>1. /\ client \in Client /\ Len(client.chan) <= Capacity
      /\ th \in [Threads -> [at : Labels, more : Nat]]
      /\ th[t] \in [at : Labels, more : Nat]
  BY LspType DEF LspInv
<1>2. th[t].at \in Inside => lock = t
  BY DEF LspInv, OneInside
<1>3. CASE Spawns(t)
  <2>1. lock = Nobody /\ Typed
    BY <1>1, <1>3, LspClientAssumption DEF Spawns, Asks, NoClient, Client, Frames
  <2>2. Moved
    BY <1>1, <1>3 DEF Spawns, Asks, Inside, Labels
  <2> QED
    BY <2>1, <2>2, InsideKeeps
<1>4. CASE SpawnFails(t)
  BY <1>1, <1>4, LeaveKeeps DEF SpawnFails
<1>5. CASE Attaches(t)
  <2>1. Moved
    BY <1>1, <1>5 DEF Attaches, Inside, Labels
  <2> QED
    BY <1>1, <1>5, <2>1, InsideKeeps DEF Attaches
<1>6. CASE TearsDown(t)
  BY <1>1, <1>6, LeaveKeeps, DropsKeeps DEF TearsDown
<1>7. ASSUME lock = t, NEW fatal \in BOOLEAN, Fails(t, fatal)
      PROVE  LspInv'
  BY <1>1, <1>7, DropsKeeps, LeaveKeeps, ForgottenType DEF Fails
<1>8. CASE Requests(t)
  <2>1. lock = t
    BY <1>2, <1>8 DEF Requests, Inside
  <2>2. CASE th[t].more = 0 /\ LeavesClient(t) /\ UNCHANGED client
    BY <1>1, <2>1, <2>2, LeaveKeeps
  <2>3. CASE th[t].more > 0 /\ Asks(t, client, "await") /\ UNCHANGED lock
    <3>1. Typed
      BY <1>1, <2>3 DEF Asks, Client
    <3>2. Moved
      BY <1>1, <2>1, <2>3 DEF Asks, Inside, Labels
    <3> QED
      BY <2>1, <3>1, <3>2, InsideKeeps
  <2>4. CASE Fails(t, TRUE)
    BY <1>7, <2>1, <2>4
  <2> QED
    BY <1>8, <2>2, <2>3, <2>4 DEF Requests
<1>9. ASSUME lock = t, NEW c \in Client, Len(c.chan) <= Capacity, Answered(t, c)
      PROVE  LspInv'
  <2>1. CASE th[t].at = "initialize"
    <3>1. CASE c.child = "up"
      <4>1. /\ th' = [th EXCEPT ![t] = [@ EXCEPT !.at = "quiescent"]]
            /\ client' = c /\ UNCHANGED lock
        BY <1>9, <2>1, <3>1 DEF Answered
      <4>2. Typed /\ Moved
        BY <1>1, <1>9, <4>1 DEF Inside, Labels
      <4> QED
        BY <1>9, <4>2, InsideKeeps
    <3>2. CASE c.child # "up"
      BY <1>9, <2>1, <3>2, DropsKeeps DEF Answered
    <3> QED
      BY <3>1, <3>2
  <2>2. CASE th[t].at = "await"
    <3>1. client' = c
      BY <1>9, <2>2 DEF Answered
    <3>2. CASE LeavesClient(t)
      BY <1>9, <3>1, <3>2, LeaveKeeps
    <3>3. ASSUME NEW n \in {0, th[t].more - 1},
                 th' = [th EXCEPT ![t] = [at |-> "ask", more |-> n]], UNCHANGED lock
          PROVE  LspInv'
      <4>1. n \in Nat
        BY <1>1, <2>2 DEF LspInv, HadOne
      <4>2. Moved
        BY <1>1, <1>9, <3>3, <4>1 DEF Inside, Labels
      <4> QED
        BY <1>9, <3>1, <4>2, InsideKeeps
    <3> QED
      BY <1>9, <2>2, <3>2, <3>3 DEF Answered
  <2> QED
    BY <1>9, <2>1, <2>2 DEF Answered
<1>10. CASE Receives(t)
  <2> DEFINE f == Head(client.chan)
             c == [client EXCEPT !.chan = Tail(@)]
  <2>1. lock = t
    BY <1>2, <1>10 DEF Receives, Waits, Inside
  <2>2. c \in Client /\ Len(c.chan) <= Capacity
    <3>1. client.chan \in Seq(Frames) /\ client.chan # <<>>
      BY <1>1, <1>10 DEF Receives, Client
    <3>2. Tail(client.chan) \in Seq(Frames) /\ Len(Tail(client.chan)) <= Capacity
      BY <1>1, <3>1, LspClientAssumption
    <3> QED
      BY <1>1, <3>2 DEF Client
  <2> HIDE DEF c, f
  <2>3. \/ LeavesClient(t) /\ client' = Forgotten(c)
        \/ Drops(t)
        \/ Answered(t, c)
        \/ th' = [th EXCEPT ![t].at = "ask"] /\ client' = c /\ UNCHANGED lock
        \/ client' = c /\ UNCHANGED <<lock, th>>
    BY <1>10 DEF Receives, c, f
  <2>4. CASE LeavesClient(t) /\ client' = Forgotten(c)
    BY <2>1, <2>2, <2>4, ForgottenType, LeaveKeeps
  <2>5. CASE Drops(t)
    BY <2>1, <2>5, DropsKeeps
  <2>6. CASE Answered(t, c)
    BY <1>9, <2>1, <2>2, <2>6
  <2>7. CASE th' = [th EXCEPT ![t].at = "ask"] /\ client' = c /\ UNCHANGED lock
    <3>1. Moved
      BY <1>1, <2>1, <2>7 DEF Inside, Labels
    <3> QED
      BY <2>1, <2>2, <2>7, <3>1, InsideKeeps
  <2>8. CASE client' = c /\ UNCHANGED <<lock, th>>
    <3>1. LspTypeOK'
      BY <2>2, <2>8, LspType DEF LspInv, LspTypeOK, Client
    <3> QED
      BY <2>8, <3>1 DEF LspInv, OneInside, HadOne
  <2> QED
    BY <2>3, <2>4, <2>5, <2>6, <2>7, <2>8
<1>11. CASE FindsItDead(t) \/ TimesOut(t)
  <2>1. lock = t
    BY <1>2, <1>11 DEF FindsItDead, TimesOut, Waits, Inside
  <2> QED
    BY <1>7, <1>11, <2>1 DEF FindsItDead, TimesOut
<1>12. CASE Joins(t)
  <2>1. lock = t
    BY <1>2, <1>12 DEF Joins, Inside
  <2> QED
    BY <1>12, <2>1, NoClientType, LeaveKeeps DEF Joins
<1> QED
  BY <1>3, <1>4, <1>5, <1>6, <1>8, <1>10, <1>11, <1>12 DEF Works
-----------------------------------------------------------------------------
(* The sessions.                                                           *)

Call == [at : {"idle", "turn", "replied", "poll", "killed", "settle", "tool"},
         kind : Transports \union {""},
         far : {"", "busy", "closed", "term", "ended"},
         calls : 0 .. MaxCalls]

\* The type of what Interrupt adds.
OwnType ==
    /\ flag \in BOOLEAN
    /\ stops \in 0 .. MaxStops
    /\ session \in [Callers -> Call]
    /\ sessions \in 0 .. MaxSessions
    /\ process \in {"running", "leaving", "gone"}
    /\ told \subseteq Callers
    /\ spurious \in BOOLEAN

\* While the flag is up, and while it waits for the child it has sent a
\* SIGTERM, a session is one that a Stop was meant for.
Meant ==
    /\ flag => \A d \in Callers : Running(d) => d \in told
    /\ \A d \in Callers : session[d].at = "killed" => d \in told

OwnInv == OwnType /\ Meant /\ NoStaleCancel

IInv == LspInv /\ OwnInv

\* The type invariant in its two parts.
LEMMA TypeParts == InterruptTypeOK <=> LspTypeOK /\ OwnType
BY DEF InterruptTypeOK, OwnType, Call

\* Bounds are natural numbers.
LEMMA BoundsAreNat ==
    MaxSessions \in Nat /\ MaxCalls \in Nat /\ MaxRequests \in Nat /\ MaxStops \in Nat
BY InterruptAssumption DEF InterruptAssumption

\* The bounds are met.
LEMMA InBounds ==
    /\ 0 \in 0 .. MaxSessions /\ 0 \in 0 .. MaxStops
    /\ 0 \in 0 .. MaxCalls /\ MaxCalls \in 0 .. MaxCalls
BY BoundsAreNat

\* A session that moves on, and is not cancelled.
LEMMA MovesOn ==
    ASSUME OwnInv, NEW d \in Callers, Running(d),
           session' = [session EXCEPT ![d] = session'[d]],
           session'[d] \in Call, session'[d].at = "killed" => d \in told,
           UNCHANGED <<flag, stops, sessions, process, told, spurious>>
    PROVE  OwnInv'
<1>1. OwnType'
  BY DEF OwnInv, OwnType
<1>2. Meant'
  BY DEF OwnInv, OwnType, Meant, Running
<1> QED
  BY <1>1, <1>2 DEF OwnInv, NoStaleCancel

\* A session that is over, cancelled or not.
LEMMA IsOver ==
    ASSUME OwnInv, NEW d \in Callers, SessionOver(d), spurious' = FALSE,
           UNCHANGED <<flag, stops, sessions, process>>
    PROVE  OwnInv'
<1>1. Idle \in Call
  BY BoundsAreNat DEF Idle, Call
<1>2. OwnType'
  BY <1>1 DEF OwnInv, OwnType, SessionOver
<1>3. Meant'
  BY <1>1 DEF OwnInv, OwnType, Meant, Running, SessionOver, Idle
<1> QED
  BY <1>2, <1>3 DEF OwnInv, NoStaleCancel

\* A session that a Stop was meant for is cancelled by it.
LEMMA IsCancelled ==
    ASSUME OwnInv, NEW d \in told, Cancelled(d),
           UNCHANGED <<flag, stops, sessions, process>>
    PROVE  OwnInv'
<1>1. d \in Callers
  BY DEF OwnInv, OwnType
<1>2. spurious' = FALSE
  BY DEF OwnInv, OwnType, NoStaleCancel, Cancelled
<1> QED
  BY <1>1, <1>2, IsOver DEF Cancelled

\* A call returns what the other end said.
LEMMA RepliedKeeps ==
    ASSUME OwnInv, NEW d \in Callers, Running(d), Replied(d), Uncancelled,
           UNCHANGED <<flag, stops, sessions, process>>
    PROVE  OwnInv'
<1>1. session[d].calls \in 0 .. MaxCalls
  BY DEF OwnInv, OwnType, Call
<1>2. session' = [session EXCEPT ![d] = session'[d]] /\ session'[d] \in Call
  BY <1>1 DEF OwnInv, OwnType, Replied, Idle, Call
<1>3. session'[d].at # "killed"
  BY <1>1 DEF OwnInv, OwnType, Replied, Idle, Call
<1> QED
  BY <1>2, <1>3, MovesOn DEF Uncancelled

\* A child gets its SIGTERM while the flag is up.
LEMMA SigtermKeeps ==
    ASSUME OwnInv, NEW d \in Callers, Running(d), flag, Sigterm(d),
           UNCHANGED <<flag, stops, sessions, process>>
    PROVE  OwnInv'
<1>1. d \in told
  BY DEF OwnInv, Meant
<1>2. session' = [session EXCEPT ![d] = session'[d]] /\ session'[d] \in Call
  BY DEF OwnInv, OwnType, Sigterm, Call
<1> QED
  BY <1>1, <1>2, MovesOn DEF Sigterm, Uncancelled

\* A session of thread d takes a step.
LEMMA SessionKeeps ==
    ASSUME OwnInv, NEW d \in Callers, Session(d)
    PROVE  OwnInv'
<1>1. session \in [Callers -> Call] /\ session[d] \in Call
  BY DEF OwnInv, OwnType
<1>2. ASSUME NEW w \in BOOLEAN, StartSession(d, w)
      PROVE  OwnInv'
  <2> DEFINE new == [Idle EXCEPT !.at = "turn", !.calls = MaxCalls]
  <2>1. new \in Call /\ new.at = "turn"
    BY InBounds DEF Idle, Call
  <2>2. /\ session' = [session EXCEPT ![d] = session'[d]]
        /\ session'[d] \in Call /\ session'[d].at = "turn"
    <3>1. session' = [session EXCEPT ![d] = new]
      BY <1>2 DEF StartSession
    <3> HIDE DEF new
    <3> QED
      BY <1>1, <2>1, <3>1
  <2>3. OwnType'
    <3>1. sessions' \in 0 .. MaxSessions
      BY <1>2, BoundsAreNat DEF OwnInv, OwnType, StartSession
    <3> QED
      BY <1>2, <2>2, <3>1 DEF OwnInv, OwnType, StartSession, ResetFlag
  <2>4. Meant'
    BY <1>1, <1>2, <2>2 DEF OwnInv, Meant, StartSession, ResetFlag
  <2> QED
    BY <1>2, <2>3, <2>4 DEF OwnInv, NoStaleCancel, StartSession
<1>3. ASSUME NEW k \in Transports, Dispatch(d, k)
      PROVE  OwnInv'
  <2>1. session[d].calls - 1 \in 0 .. MaxCalls
    <3>1. session[d].calls \in 0 .. MaxCalls /\ session[d].calls > 0
      BY <1>1, <1>3 DEF Dispatch, Call
    <3> QED
      BY <3>1, BoundsAreNat
  <2>2. session' = [session EXCEPT ![d] = session'[d]] /\ session'[d] \in Call
    BY <1>1, <1>3, <2>1 DEF Dispatch, Call
  <2>3. session'[d].at = "poll" /\ Running(d)
    BY <1>1, <1>3 DEF Dispatch, Running
  <2> QED
    BY <1>3, <2>2, <2>3, MovesOn DEF Dispatch, Other, Uncancelled
<1>4. ASSUME NEW l \in {"tool", "turn", "settle"}, At(d, l)
      PROVE  /\ session' = [session EXCEPT ![d] = session'[d]]
             /\ session'[d] \in Call /\ session'[d].at # "killed"
  BY <1>1, <1>4 DEF At, Call
<1>5. CASE ToolCall(d) \/ ToolReturns(d)
  BY <1>4, <1>5, MovesOn DEF ToolCall, ToolReturns, Running, Uncancelled
<1>6. CASE Poll(d)
  <2>1. Running(d) /\ UNCHANGED <<flag, stops, sessions, process>>
    BY <1>6 DEF Poll, Running, Other
  <2>2. CASE flag /\ Cancelled(d)
    BY <2>1, <2>2, IsCancelled DEF OwnInv, Meant
  <2>3. CASE Answers(d) /\ Uncancelled
    BY <2>1, <2>3, RepliedKeeps DEF Answers
  <2>4. CASE flag /\ Sigterm(d)
    BY <2>1, <2>4, SigtermKeeps
  <2>5. CASE At(d, "settle") /\ Uncancelled
    BY <1>4, <2>1, <2>5, MovesOn DEF Uncancelled
  <2> QED
    BY <1>6, <2>2, <2>3, <2>4, <2>5 DEF Poll, PollHttp, PollChild, PollChildStream
<1>7. CASE Reaped(d)
  <2>1. Running(d) /\ UNCHANGED <<flag, stops, sessions, process>>
    BY <1>7 DEF Reaped, Running, Other
  <2>2. CASE session[d].at = "killed" /\ Cancelled(d)
    BY <2>1, <2>2, IsCancelled DEF OwnInv, Meant
  <2>3. CASE Replied(d) /\ Uncancelled
    BY <2>1, <2>3, RepliedKeeps
  <2> QED
    BY <1>7, <2>2, <2>3 DEF Reaped
<1>8. CASE EndSession(d)
  BY <1>8, IsOver DEF EndSession, Other, OwnInv, OwnType, NoStaleCancel
<1> QED
  BY <1>2, <1>3, <1>5, <1>6, <1>7, <1>8 DEF Session

\* The LLM, the user, and the end of the process.
LEMMA OthersKeep ==
    ASSUME OwnInv, FarSide \/ Stop \/ Leaves \/ Exits
    PROVE  OwnInv'
<1>1. ASSUME NEW d \in Callers, FarEnds(d) \/ ChildEnds(d)
      PROVE  OwnInv'
  <2>1. PICK f \in {"ended", "closed"} : session' = [session EXCEPT ![d].far = f]
    BY <1>1 DEF FarEnds, ChildEnds
  <2>2. /\ session' = [session EXCEPT ![d] = session'[d]] /\ session'[d] \in Call
        /\ session'[d].at = session[d].at
    BY <2>1 DEF OwnInv, OwnType, Call
  <2>3. UNCHANGED <<flag, stops, sessions, process, told, spurious>>
    BY <1>1 DEF FarEnds, ChildEnds, Other, Uncancelled
  <2>4. OwnType'
    BY <2>2, <2>3 DEF OwnInv, OwnType
  <2>5. Meant'
    BY <2>2, <2>3 DEF OwnInv, OwnType, Meant, Running
  <2> QED
    BY <2>3, <2>4, <2>5 DEF OwnInv, NoStaleCancel
<1>2. CASE Stop
  <2>1. OwnType'
    BY <1>2, BoundsAreNat DEF Stop, OwnInv, OwnType
  <2>2. Meant'
    BY <1>2 DEF Stop, OwnInv, Meant, Running
  <2> QED
    BY <1>2, <2>1, <2>2 DEF Stop, OwnInv, NoStaleCancel
<1>3. CASE Leaves \/ Exits
  BY <1>3 DEF Leaves, Exits, Uncancelled, OwnInv, OwnType, Meant, Running, NoStaleCancel
<1> QED
  BY <1>1, <1>2, <1>3 DEF FarSide

\* What a step does to the client is a step of the client, or nothing.
LEMMA ClientKeeps ==
    ASSUME LspInv, [InterruptNext]_interruptVars
    PROVE  LspInv'
<1>1. CASE UNCHANGED lspVars
  BY <1>1 DEF LspInv, LspTypeOK, OneInside, HadOne, lspVars
<1>2. ASSUME NEW d \in Callers, Session(d)
      PROVE  LspInv'
  <2>1. d \in Threads /\ Warmer \in Threads
    BY DEF Threads
  <2>2. 0 \in Nat /\ MaxRequests \in Nat
    BY BoundsAreNat
  <2>3. \/ UNCHANGED lspVars
        \/ \E n \in Nat : Wants(Warmer, n)
        \/ \E n \in Nat : Wants(d, n)
        \/ Takes(d)
    BY <1>2, <2>2 DEF Session, StartSession, Prewarm, Dispatch, ToolCall, ToolReturns, Poll,
                      Reaped, EndSession, Other
  <2> QED
    BY <1>1, <2>1, <2>3, OutsideKeeps
<1>3. CASE FarSide
  BY <1>1, <1>3 DEF FarSide, FarEnds, ChildEnds, Other
<1>4. ASSUME NEW t \in Threads, LspStep(t)
      PROVE  LspInv'
  BY <1>4, WorksKeeps DEF LspStep
<1>5. CASE WarmerReturns
  BY <1>5, OutsideKeeps DEF WarmerReturns, Threads
<1>6. CASE LspReads \/ LspDies
  BY <1>6, ReaderKeeps DEF LspReads, LspDies
<1>7. CASE Leaves
  BY <1>7, OutsideKeeps DEF Leaves, Threads
<1>8. CASE Stop \/ Exits \/ UNCHANGED interruptVars
  BY <1>1, <1>8 DEF Stop, Exits, interruptVars
<1> QED
  BY <1>2, <1>3, <1>4, <1>5, <1>6, <1>7, <1>8 DEF InterruptNext

\* What a step does to the rest.
LEMMA OwnKeeps ==
    ASSUME OwnInv, [InterruptNext]_interruptVars
    PROVE  OwnInv'
<1>1. CASE UNCHANGED ownVars
  BY <1>1 DEF OwnInv, OwnType, Meant, Running, NoStaleCancel, ownVars
<1>2. CASE \/ \E t \in Threads : LspStep(t)
          \/ WarmerReturns \/ LspReads \/ LspDies \/ UNCHANGED interruptVars
  BY <1>1, <1>2 DEF LspStep, WarmerReturns, LspReads, LspDies, interruptVars
<1> QED
  BY <1>2, SessionKeeps, OthersKeep DEF InterruptNext

\* The initial states.
LEMMA Begins ==
    ASSUME InterruptInit
    PROVE  IInv
<1>1. LspInv
  <2>1. /\ client \in Client /\ Len(client.chan) <= Capacity
        /\ th \in [Threads -> [at : Labels, more : Nat]]
    BY NoClientType DEF InterruptInit, LspInit, Labels
  <2>2. LspTypeOK
    BY <2>1 DEF LspTypeOK, Client, InterruptInit, LspInit
  <2> QED
    BY <2>2, NobodyElse DEF LspInv, OneInside, HadOne, Inside, InterruptInit, LspInit
<1>2. OwnInv
  <2>1. Idle \in Call /\ Idle.at = "idle"
    BY InBounds DEF Idle, Call
  <2>2. OwnType
    BY <2>1, InBounds DEF InterruptInit, OwnType
  <2>3. Meant /\ NoStaleCancel
    BY <2>1 DEF InterruptInit, Meant, NoStaleCancel
  <2> QED
    BY <2>2, <2>3 DEF OwnInv
<1> QED
  BY <1>1, <1>2 DEF IInv

\* The invariant of both.
THEOREM InterruptInvariant == InterruptSpec => []IInv
<1>1. InterruptInit => IInv
  BY Begins
<1>2. IInv /\ [InterruptNext]_interruptVars => IInv'
  BY ClientKeeps, OwnKeeps DEF IInv
<1> QED
  BY <1>1, <1>2, PTL DEF InterruptSpec

\* The variables keep their types.
THEOREM InterruptTypeCorrect == InterruptSpec => []InterruptTypeOK
<1>1. IInv => InterruptTypeOK
  BY TypeParts DEF IInv, LspInv, OwnInv
<1> QED
  BY <1>1, InterruptInvariant, PTL

\* reset_cancel_flag: a session is cancelled only by a Stop that came while it
\* ran, whatever other sessions of the process start, end or are cancelled.
THEOREM StopsAreCurrent == InterruptSpec => []NoStaleCancel
<1>1. IInv => NoStaleCancel
  BY DEF IInv, OwnInv
<1> QED
  BY <1>1, InterruptInvariant, PTL

\* The mutex CLIENT of lsp.rs: a thread starts, uses or tears down the client
\* exactly while it holds the mutex, over every error and eviction.
THEOREM ClientIsGuarded == InterruptSpec => []OneInside
<1>1. IInv => OneInside
  BY DEF IInv, LspInv
<1> QED
  BY <1>1, InterruptInvariant, PTL

-----------------------------------------------------------------------------
(* The end of the process.                                                 *)

\* There is a child exactly while there is a client; under the mutex there is
\* one at all times.
ClientLives == (client = NoClient \/ client.child # "none") /\ (lock # Nobody => client.child # "none")

\* main never asks for anything.
MainTearsDown == th[Leaver].at \in {"off", "lock", "join", "returned"}

ToolsAsk == \A d \in Callers : th[d].at # "off" => session[d].at = "tool"
SessionsFirst == process # "running" => \A d \in Callers : ~Running(d)

ExitInv == ClientLives /\ MainTearsDown /\ ToolsAsk /\ SessionsFirst

\* What a thread of the client does to the client, and to itself.
Effect(t) ==
    /\ ClientLives' /\ MainTearsDown'
    /\ th[t].at # "off" /\ \A u \in Threads \ {t} : th'[u] = th[u]
    /\ t = Leaver /\ th'[t].at = "returned" => client' = NoClient
    /\ client = NoClient /\ client' # NoClient => t # Leaver /\ th[t].at = "lock" /\ lock' = t

LEMMA NoChild == NoClient.child = "none"
BY DEF NoClient

\* It goes on or tears down, and has a client.
LEMMA KeepsIt ==
    ASSUME LspInv, MainTearsDown, NEW t \in Threads, th[t].at # "off", client.child # "none",
           client'.child # "none", th' = [th EXCEPT ![t] = th'[t]],
           t = Leaver => th'[t].at = "join"
    PROVE  Effect(t)
<1>1. Leaver \in Threads /\ th \in [Threads -> [at : Labels, more : Nat]]
  BY LspType DEF LspInv, Threads
<1>2. MainTearsDown'
  <2>1. CASE t = Leaver
    BY <2>1 DEF MainTearsDown
  <2>2. CASE t # Leaver
    BY <1>1, <2>2 DEF MainTearsDown
  <2> QED
    BY <2>1, <2>2
<1>3. ClientLives'
  BY DEF ClientLives
<1>4. client # NoClient
  BY NoChild
<1>5. \A u \in Threads \ {t} : th'[u] = th[u]
  BY <1>1
<1>6. t = Leaver => th'[t].at # "returned"
  OBVIOUS
<1> QED
  BY <1>2, <1>3, <1>4, <1>5, <1>6 DEF Effect

\* It tears down a client that it has.
LEMMA DropsIt ==
    ASSUME LspInv, MainTearsDown, NEW t \in Threads, th[t].at # "off", client.child # "none", Drops(t)
    PROVE  Effect(t)
<1>1. client \in Client /\ th \in [Threads -> [at : Labels, more : Nat]]
  BY LspType DEF LspInv
<1>2. client'.child = "exited"
  BY <1>1 DEF Drops, Client
<1>3. th'[t].at = "join" /\ th' = [th EXCEPT ![t] = th'[t]]
  BY <1>1 DEF Drops
<1> QED
  BY <1>2, <1>3, KeepsIt

\* It gives the mutex back and leaves the client, or none, as it is.
LEMMA LeavesIt ==
    ASSUME LspInv, MainTearsDown, NEW t \in Threads, th[t].at # "off", t # Leaver, LeavesClient(t),
           \/ client'.child # "none" /\ client # NoClient
           \/ client' = NoClient
    PROVE  Effect(t)
<1>1. Leaver \in Threads /\ th \in [Threads -> [at : Labels, more : Nat]]
  BY LspType DEF LspInv, Threads
<1>2. /\ \A u \in Threads \ {t} : th'[u] = th[u]
      /\ lock' = Nobody
  BY <1>1 DEF LeavesClient
<1>3. MainTearsDown'
  BY <1>1, <1>2 DEF MainTearsDown
<1>4. ClientLives'
  BY <1>2 DEF ClientLives
<1> QED
  BY <1>2, <1>3, <1>4 DEF Effect

LEMMA WorkEffect ==
    ASSUME LspInv, ClientLives, MainTearsDown, NEW t \in Threads, Works(t)
    PROVE  Effect(t)
<1>1. /\ client \in Client /\ th \in [Threads -> [at : Labels, more : Nat]]
      /\ th[t].at \in Inside <=> lock = t
      /\ lock = t => client.child # "none" /\ client # NoClient
      /\ t = Leaver => th[t].at \in {"off", "lock", "join", "returned"}
      /\ Leaver \in Threads
  BY LspType, NobodyElse, NoChild DEF LspInv, OneInside, ClientLives, MainTearsDown, Threads
<1>2. CASE Spawns(t)
  <2>1. /\ th[t].at = "lock" /\ t # Leaver /\ lock' = t /\ client'.child = "up"
        /\ \A u \in Threads \ {t} : th'[u] = th[u]
    BY <1>1, <1>2 DEF Spawns, Asks, NoClient
  <2>2. ClientLives' /\ MainTearsDown'
    BY <1>1, <2>1 DEF ClientLives, MainTearsDown
  <2> QED
    BY <2>1, <2>2 DEF Effect
<1>3. CASE SpawnFails(t)
  BY <1>3, LeavesIt DEF SpawnFails
<1>4. CASE Attaches(t)
  <2>1. th[t].at # "off" /\ client.child # "none" /\ client' = client /\ t # Leaver
    BY <1>4 DEF Attaches, ClientLives
  <2>2. th' = [th EXCEPT ![t] = th'[t]]
    BY <1>1, <1>4 DEF Attaches
  <2> QED
    BY <2>1, <2>2, KeepsIt
<1>5. CASE TearsDown(t)
  <2>1. th[t].at = "lock" /\ t = Leaver
    BY <1>5 DEF TearsDown
  <2>2. CASE client = NoClient
    <3>1. client' = NoClient /\ lock' = Nobody /\ th' = [th EXCEPT ![t] = [at |-> "returned", more |-> 0]]
      BY <1>5, <2>2 DEF TearsDown, LeavesClient
    <3>2. ClientLives' /\ MainTearsDown'
      BY <1>1, <2>1, <3>1 DEF ClientLives, MainTearsDown
    <3> QED
      BY <1>1, <2>1, <2>2, <3>1, <3>2 DEF Effect
  <2>3. CASE client # NoClient
    BY <1>5, <2>1, <2>3, DropsIt DEF TearsDown, ClientLives
  <2> QED
    BY <2>2, <2>3
<1>6. CASE Joins(t)
  <2>1. th[t].at = "join" /\ client' = NoClient /\ lock' = Nobody
        /\ th' = [th EXCEPT ![t] = [at |-> "returned", more |-> 0]]
    BY <1>6 DEF Joins, LeavesClient
  <2>2. ClientLives' /\ MainTearsDown'
    BY <1>1, <2>1 DEF ClientLives, MainTearsDown
  <2> QED
    BY <1>1, <2>1, <2>2 DEF Effect
\* The rest is done by a thread that is not main and has a client.
<1>7. CASE Requests(t) \/ Receives(t) \/ FindsItDead(t) \/ TimesOut(t)
  <2>1. /\ th[t].at \in {"ask", "initialize", "quiescent", "await"}
        /\ lock = t /\ t # Leaver /\ th[t].at # "off"
        /\ client.child # "none" /\ client # NoClient
    <3>1. th[t].at \in {"ask", "initialize", "quiescent", "await"}
      BY <1>7 DEF Requests, Receives, FindsItDead, TimesOut, Waits
    <3> QED
      BY <1>1, <3>1 DEF Inside
  <2>2. ASSUME NEW c, c.child = client.child, client' = c, LeavesClient(t)
        PROVE  Effect(t)
    BY <2>1, <2>2, LeavesIt
  <2>3. ASSUME client'.child = client.child, th' = [th EXCEPT ![t] = th'[t]]
        PROVE  Effect(t)
    BY <2>1, <2>3, KeepsIt
  <2>4. CASE Drops(t)
    BY <2>1, <2>4, DropsIt
  <2>5. ASSUME NEW c \in Client PROVE Forgotten(c).child = c.child
    BY DEF Forgotten, Client
  <2>6. ASSUME NEW fatal \in BOOLEAN, Fails(t, fatal)
        PROVE  Effect(t)
    <3>1. CASE LeavesClient(t) /\ client' = Forgotten(client)
      BY <1>1, <2>2, <2>5, <3>1
    <3> QED
      BY <2>4, <2>6, <3>1 DEF Fails
  <2>7. CASE Requests(t)
    <3>1. CASE LeavesClient(t) /\ UNCHANGED client
      BY <2>2, <3>1
    <3>2. CASE Asks(t, client, "await")
      <4>1. client'.child = client.child /\ th' = [th EXCEPT ![t] = th'[t]]
        BY <1>1, <3>2 DEF Asks, Client
      <4> QED
        BY <2>3, <4>1
    <3> QED
      BY <2>6, <2>7, <3>1, <3>2 DEF Requests
  <2>8. CASE Receives(t)
    <3> DEFINE f == Head(client.chan)
               c == [client EXCEPT !.chan = Tail(@)]
    <3>1. c.child = client.child
      BY <1>1 DEF Client
    <3>2. Forgotten(c).child = c.child
      <4>1. Forgotten(c).child = client.child
        BY <1>1 DEF Forgotten, Client
      <4> QED
        BY <3>1, <4>1
    <3> HIDE DEF c, f
    <3>3. \/ LeavesClient(t) /\ client' = Forgotten(c)
          \/ Drops(t)
          \/ Answered(t, c)
          \/ th' = [th EXCEPT ![t].at = "ask"] /\ client' = c
          \/ client' = c /\ UNCHANGED th
      BY <2>8 DEF Receives, c, f
    <3>4. CASE LeavesClient(t) /\ client' = Forgotten(c)
      BY <2>2, <3>1, <3>2, <3>4
    <3>5. CASE client' = c /\ (UNCHANGED th \/ th' = [th EXCEPT ![t].at = "ask"])
      <4>1. th' = [th EXCEPT ![t] = th'[t]]
        BY <1>1, <3>5
      <4> QED
        BY <2>3, <3>1, <3>5, <4>1
    <3>6. CASE Answered(t, c)
      <4>1. CASE LeavesClient(t) /\ client' = c
        BY <2>2, <3>1, <4>1
      <4>2. CASE /\ client' = c
                 /\ \/ th' = [th EXCEPT ![t] = [@ EXCEPT !.at = "quiescent"]]
                    \/ \E n \in {0, th[t].more - 1} : th' = [th EXCEPT ![t] = [at |-> "ask", more |-> n]]
        <5>1. th' = [th EXCEPT ![t] = th'[t]]
          BY <1>1, <4>2
        <5> QED
          BY <2>3, <3>1, <4>2, <5>1
      <4> QED
        BY <2>4, <3>6, <4>1, <4>2 DEF Answered
    <3> QED
      BY <2>4, <3>3, <3>4, <3>5, <3>6
  <2> QED
    BY <1>7, <2>6, <2>7, <2>8 DEF FindsItDead, TimesOut
<1> QED
  BY <1>2, <1>3, <1>4, <1>5, <1>6, <1>7 DEF Works

\* shutdown_client returns without a client; after that, and since main began
\* to leave, only a prewarm that waited for the mutex starts another.
Outlasted ==
    /\ th[Leaver].at # "returned" /\ th'[Leaver].at = "returned" => client' = NoClient
    /\ process # "running" /\ client = NoClient /\ client' # NoClient =>
          th[Warmer].at = "lock" /\ lock' = Warmer

\* A step that leaves the client, and main's use of it, alone.
LEMMA ClientAlone ==
    ASSUME ExitInv, UNCHANGED <<lock, client>>, th'[Leaver] = th[Leaver], ToolsAsk', SessionsFirst'
    PROVE  ExitInv' /\ Outlasted
BY DEF ExitInv, ClientLives, MainTearsDown, Outlasted

LEMMA NamesDiffer ==
    /\ Warmer # Leaver /\ Warmer \in Threads /\ Leaver \in Threads
    /\ \A d \in Callers : d \in Threads /\ d # Warmer /\ d # Leaver
BY ThreadsDiffer DEF Threads, Warmer, Leaver

\* A session that moves on while the process runs; what it does to the threads
\* of the client it does to its own, or to the one that prewarms.
LEMMA SessionAlone ==
    ASSUME LspInv, OwnInv, ExitInv, NEW d \in Callers, Session(d)
    PROVE  ExitInv' /\ Outlasted
<1>1. /\ session \in [Callers -> Call] /\ th \in [Threads -> [at : Labels, more : Nat]]
      /\ th[d].at # "off" => session[d].at = "tool"
  BY LspType DEF LspInv, OwnInv, OwnType, ExitInv, ToolsAsk
<1>2. ASSUME UNCHANGED <<lock, client, process>>, th'[Leaver] = th[Leaver],
             \A e \in Callers \ {d} : th'[e] = th[e] /\ session'[e] = session[e],
             Running(d) \/ process = "running",
             th'[d].at # "off" => session'[d].at = "tool"
      PROVE  ExitInv' /\ Outlasted
  <2>1. process = "running"
    BY <1>2 DEF ExitInv, SessionsFirst
  <2>2. SessionsFirst' /\ ToolsAsk'
    BY <1>2, <2>1 DEF ExitInv, SessionsFirst, ToolsAsk
  <2> QED
    BY <1>2, <2>2, ClientAlone
<1>3. \A e \in Callers : e \in Threads /\ e # Warmer /\ e # Leaver
  BY NamesDiffer
<1>4. ASSUME NEW w \in BOOLEAN, StartSession(d, w)
      PROVE  ExitInv' /\ Outlasted
  <2>1. /\ process = "running" /\ process' = process /\ th[d].at = "off"
        /\ \A e \in Callers \ {d} : session'[e] = session[e]
    BY <1>1, <1>4 DEF StartSession, Running
  <2>2. UNCHANGED <<lock, client>> /\ \A t \in Threads \ {Warmer} : th'[t] = th[t]
    BY <1>1, <1>4 DEF StartSession, Prewarm, Wants, lspVars
  <2> QED
    BY <1>2, <1>3, <2>1, <2>2, NamesDiffer
<1>5. CASE ToolCall(d)
  <2>1. /\ \A t \in Threads \ {d} : th'[t] = th[t]
        /\ \A e \in Callers \ {d} : session'[e] = session[e]
        /\ session'[d].at = "tool" /\ session[d].at = "replied"
        /\ UNCHANGED <<lock, client, process>>
    BY <1>1, <1>3, <1>5 DEF ToolCall, At, Wants, Call
  <2> QED
    BY <1>2, <1>3, <2>1, NamesDiffer DEF Running
<1>6. CASE ToolReturns(d)
  <2>1. /\ \A t \in Threads \ {d} : th'[t] = th[t]
        /\ \A e \in Callers \ {d} : session'[e] = session[e]
        /\ th'[d].at = "off" /\ session[d].at = "tool"
        /\ UNCHANGED <<lock, client, process>>
    BY <1>1, <1>3, <1>6 DEF ToolReturns, At, Takes
  <2> QED
    BY <1>2, <1>3, <2>1, NamesDiffer DEF Running
<1>7. CASE (\E k \in Transports : Dispatch(d, k)) \/ Poll(d) \/ Reaped(d) \/ EndSession(d)
  <2>1. UNCHANGED lspVars /\ process' = process
    BY <1>7 DEF Dispatch, Poll, Reaped, EndSession, Other
  <2>2. session[d].at \notin {"idle", "tool"}
    BY <1>7 DEF Dispatch, Poll, Reaped, EndSession
  <2>3. \A e \in Callers \ {d} : session'[e] = session[e]
    <3>1. \A x : session' = [session EXCEPT ![d] = x] => \A e \in Callers \ {d} : session'[e] = session[e]
      BY <1>1
    <3>2. \E x : session' = [session EXCEPT ![d] = x]
      <4>1. ASSUME NEW l, At(d, l) PROVE \E x : session' = [session EXCEPT ![d] = x]
        BY <1>1, <4>1 DEF At
      <4>2. (\E k \in Transports : Dispatch(d, k)) => \E x : session' = [session EXCEPT ![d] = x]
        BY <1>1 DEF Dispatch
      <4>3. SessionOver(d) \/ Replied(d) \/ Sigterm(d) => \E x : session' = [session EXCEPT ![d] = x]
        BY <1>1 DEF SessionOver, Replied, Sigterm
      <4> QED
        BY <1>7, <4>1, <4>2, <4>3 DEF Poll, PollHttp, PollChild, PollChildStream, Answers,
                                      Cancelled, Reaped, EndSession
    <3> QED
      BY <3>1, <3>2
  <2> QED
    BY <1>1, <1>2, <2>1, <2>2, <2>3 DEF lspVars, Running
<1> QED
  BY <1>4, <1>5, <1>6, <1>7 DEF Session

LEMMA ExitKeeps ==
    ASSUME LspInv, OwnInv, ExitInv, [InterruptNext]_interruptVars
    PROVE  ExitInv' /\ Outlasted
<1>1. /\ session \in [Callers -> Call] /\ th \in [Threads -> [at : Labels, more : Nat]]
      /\ client \in Client
  BY LspType DEF LspInv, OwnInv, OwnType
<1>2. \A e \in Callers : e \in Threads /\ e # Warmer /\ e # Leaver
  BY NamesDiffer
<1>3. ASSUME NEW t \in Threads, LspStep(t)
      PROVE  ExitInv' /\ Outlasted
  <2>1. Effect(t) /\ UNCHANGED <<session, process>>
    BY <1>3, WorkEffect DEF LspStep, ExitInv, ownVars
  <2>2. ToolsAsk'
    BY <1>2, <2>1 DEF ExitInv, ToolsAsk, Effect
  <2>3. SessionsFirst'
    BY <2>1 DEF ExitInv, SessionsFirst, Running
  <2>4. t \in Callers => process = "running"
    BY <2>1 DEF Effect, ExitInv, ToolsAsk, SessionsFirst, Running
  <2>5. Outlasted
    BY <2>1, <2>4, NamesDiffer DEF Effect, Outlasted, Threads
  <2> QED
    BY <2>1, <2>2, <2>3, <2>5 DEF ExitInv, Effect
<1>4. CASE LspReads \/ LspDies
  <2>1. UNCHANGED <<lock, th, session, process>> /\ (Reader \/ ChildDies)
    BY <1>4 DEF LspReads, LspDies, Reader, Reads, ReadsEof, SendsHeld, ChildDies, ownVars
  <2>2. client # NoClient
    BY <2>1 DEF Reader, Reads, ReadsEof, SendsHeld, ChildDies, NoClient
  <2>3. client'.child # "none"
    <3>1. client.child # "none"
      BY <2>2 DEF ExitInv, ClientLives
    <3>2. ASSUME NEW c \in Client, NEW f PROVE Sends(c, f).child = c.child
      BY DEF Sends, Client
    <3>3. [client EXCEPT !.asked = FALSE] \in Client /\ [client EXCEPT !.asked = FALSE].child = client.child
      BY <1>1 DEF Client
    <3>4. CASE Reader
      BY <1>1, <3>1, <3>2, <3>3, <3>4 DEF Reader, Reads, ReadsEof, SendsHeld
    <3>5. CASE ChildDies
      BY <1>1, <3>5 DEF ChildDies, Client
    <3> QED
      BY <2>1, <3>4, <3>5
  <2> QED
    BY <2>1, <2>2, <2>3 DEF ExitInv, ClientLives, MainTearsDown, ToolsAsk, SessionsFirst, Running, Outlasted
<1>5. CASE WarmerReturns
  <2>1. /\ UNCHANGED <<lock, client, session, process>>
        /\ \A t \in Threads \ {Warmer} : th'[t] = th[t]
    BY <1>1, <1>5 DEF WarmerReturns, Takes, ownVars
  <2>2. ToolsAsk' /\ SessionsFirst' /\ th'[Leaver] = th[Leaver]
    BY <1>2, <2>1, NamesDiffer DEF ExitInv, ToolsAsk, SessionsFirst, Running
  <2> QED
    BY <2>1, <2>2, ClientAlone
<1>6. CASE Leaves
  <2>1. /\ UNCHANGED <<lock, client, session>> /\ \A d \in Callers : ~Running(d)
        /\ \A t \in Threads \ {Leaver} : th'[t] = th[t]
        /\ th'[Leaver].at = "lock"
    BY <1>1, <1>6, NamesDiffer DEF Leaves, Wants
  <2>2. ToolsAsk' /\ SessionsFirst' /\ MainTearsDown'
    BY <1>2, <2>1 DEF ExitInv, ToolsAsk, SessionsFirst, Running, MainTearsDown
  <2> QED
    BY <2>1, <2>2 DEF ExitInv, ClientLives, Outlasted
<1>7. CASE FarSide
  <2>1. UNCHANGED lspVars /\ process' = process
    BY <1>7 DEF FarSide, FarEnds, ChildEnds, Other
  <2>2. \A e \in Callers : session'[e].at = session[e].at
    <3>1. PICK d \in Callers, f \in {"ended", "closed"} : session' = [session EXCEPT ![d].far = f]
      BY <1>7 DEF FarSide, FarEnds, ChildEnds
    <3> QED
      BY <1>1, <3>1 DEF Call
  <2>3. ToolsAsk' /\ SessionsFirst'
    BY <2>1, <2>2 DEF ExitInv, ToolsAsk, SessionsFirst, Running, lspVars
  <2> QED
    BY <2>1, <2>3, ClientAlone DEF lspVars
<1>8. CASE Stop \/ Exits \/ UNCHANGED interruptVars
  <2>1. UNCHANGED lspVars /\ UNCHANGED session /\ (process' # "running" => process # "running")
    BY <1>8 DEF Stop, Exits, interruptVars, ownVars
  <2>2. ToolsAsk' /\ SessionsFirst'
    BY <2>1 DEF ExitInv, ToolsAsk, SessionsFirst, Running, lspVars
  <2> QED
    BY <2>1, <2>2, ClientAlone DEF lspVars
<1> QED
  BY <1>3, <1>4, <1>5, <1>6, <1>7, <1>8, SessionAlone DEF InterruptNext

LEMMA ExitBegins ==
    ASSUME InterruptInit
    PROVE  ExitInv
<1>1. client = NoClient /\ lock = Nobody /\ process = "running" /\ \A t \in Threads : th[t].at = "off"
  BY DEF InterruptInit, LspInit
<1> QED
  BY <1>1, NamesDiffer DEF ExitInv, ClientLives, MainTearsDown, ToolsAsk, SessionsFirst

\* shutdown_client, called by main: it returns only when there is no client, and
\* none comes after it, nor at any time since main began to leave, but by a
\* prewarm that was waiting for the mutex: what LeavesNothing fails for is the
\* only way to leave a rust-analyzer behind.
THEOREM OnlyPrewarmOutlasts == InterruptSpec => [][Outlasted]_interruptVars
<1>1. InterruptInit => ExitInv
  BY ExitBegins
<1>2. IInv /\ ExitInv /\ [InterruptNext]_interruptVars => ExitInv'
  BY ExitKeeps DEF IInv
<1>3. IInv /\ ExitInv /\ [InterruptNext]_interruptVars => [Outlasted]_interruptVars
  BY ExitKeeps DEF IInv
<1> QED
  BY <1>1, <1>2, <1>3, InterruptInvariant, PTL DEF InterruptSpec
=============================================================================
