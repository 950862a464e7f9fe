-------------------------- MODULE CrossNodeProofs --------------------------
(***************************************************************************)
(* The pairing of samples, maps and answers in CrossNode, for every number *)
(* of labels, pipe, backlog and faults.                                    *)
(***************************************************************************)
EXTENDS CrossNode, TLAPS

\* Nobody sends on this connection any more.
Abandoned(c) == c.eof \/ c.lost

\* q is the one line with label l.
Only(q, l) == Len(q) = 1 /\ q[1].label = l

\* Of all connections only the present sender's is in use, and it is the
\* last one to be accepted.
OneSender ==
    /\ cpc \in {"connect", "ended"} <=> link = "none"
    /\ \A i \in 1..Len(backlog) :
           /\ Len(backlog[i].data) <= 1
           /\ Abandoned(backlog[i]) \/ (link = "queued" /\ i = Len(backlog))
    /\ link = "queued" => Len(backlog) > 0 /\ ~Abandoned(backlog[Len(backlog)])
    /\ link = "served" => Serving /\ ~Abandoned(served)
    /\ Serving => Abandoned(served) \/ link = "served"

\* What the server holds: one line at most, and a map measured for it.
OneLine ==
    /\ Len(served.data) <= 1
    /\ spc = "respond" => Len(lines) = 1 /\ Len(served.data) = 0
    /\ spc # "respond" => Len(lines) = 0
    /\ spc \in {"recv", "respond"} => fresh

\* A sample that was sent is in one place: not yet received, received, or
\* answered.
OnePlace ==
    /\ cpc # "reply" => Len(s2c) = 0
    /\ cpc = "reply" => s2c \in {<<>>, <<sent>>}
    /\ link = "queued" => /\ Len(s2c) = 0
                          /\ IF cpc = "reply" THEN Only(backlog[Len(backlog)].data, sent)
                             ELSE Len(backlog[Len(backlog)].data) = 0
    /\ link = "served" /\ cpc = "run" => Len(served.data) = 0 /\ Len(lines) = 0
    /\ link = "served" /\ cpc = "reply" =>
           \/ Only(served.data, sent) /\ Len(lines) = 0 /\ Len(s2c) = 0
           \/ Len(served.data) = 0 /\ Only(lines, sent) /\ Len(s2c) = 0
           \/ Len(served.data) = 0 /\ Len(lines) = 0 /\ s2c = <<sent>>

Conversation == OneSender /\ OneLine /\ OnePlace

Inv == TypeOK /\ Conversation

-----------------------------------------------------------------------------
(* The steps of the processes, one lemma each for the three of them.       *)

USE CrossNodeAssumption

LEMMA InitInv == Init => Inv
<1> SUFFICES ASSUME Init PROVE Inv
  OBVIOUS
<1>e. <<>> \in Seq(Lines) /\ <<>> \in Seq(BOOLEAN)
  OBVIOUS
<1>s. served = [data |-> <<>>, eof |-> TRUE, lost |-> FALSE]
  BY DEF Init
<1>1. served \in Connections /\ served.eof /\ served.data = <<>>
  BY <1>e, <1>s DEF Connections
<1>0. /\ cpc = "connect" /\ attempt = 0 /\ sent = 0 /\ link = "none" /\ s2c = <<>>
      /\ pipe = <<>> /\ spc = "outer" /\ backlog = <<>> /\ lines = <<>> /\ faults = 0
  BY DEF Init
<1>b. Flags
  BY <1>e, Zenon DEF Init, Flags
<1>2. TypeOK
  BY <1>0, <1>b, <1>1 DEF TypeOK
<1>3. Conversation
  BY <1>0, <1>1 DEF Conversation, OneSender, OneLine, OnePlace, Abandoned, Serving
<1> QED
  BY <1>2, <1>3 DEF Inv

LEMMA ReplaceOne ==
    ASSUME NEW S, NEW q \in Seq(S), NEW i \in 1..Len(q), NEW x \in S
    PROVE  LET r == [q EXCEPT ![i] = x]
           IN  /\ r \in Seq(S) /\ Len(r) = Len(q)
               /\ r[i] = x /\ \A j \in 1..Len(q) : j # i => r[j] = q[j]
<1> DEFINE r == [q EXCEPT ![i] = x]
<1>1. q \in [1..Len(q) -> S] /\ Len(q) \in Nat
  OBVIOUS
<1>2. r \in [1..Len(q) -> S]
  BY <1>1
<1>3. r \in Seq(S) /\ Len(r) = Len(q)
  BY <1>1, <1>2
<1> QED
  BY <1>1, <1>3

\* What a step does to the server's end of the sender's connection.
LEMMA SetQueued ==
    ASSUME Inv, link = "queued", NEW c \in Connections, SetMine(c)
    PROVE  /\ UNCHANGED served
           /\ backlog' \in Seq(Connections) /\ Len(backlog') = Len(backlog)
           /\ Len(backlog) \in Nat \ {0}
           /\ backlog'[Len(backlog)] = c
           /\ \A i \in 1..Len(backlog) :
                  i # Len(backlog) => backlog'[i] = backlog[i]
<1>1. /\ Len(backlog) \in 1..Len(backlog) /\ backlog \in Seq(Connections)
      /\ Len(backlog) \in Nat \ {0}
  BY DEF Inv, TypeOK, Conversation, OneSender
<1>2. backlog' = [backlog EXCEPT ![Len(backlog)] = c] /\ UNCHANGED served
  BY DEF SetMine
<1> QED
  BY <1>1, <1>2, ReplaceOne

LEMMA SetServed ==
    ASSUME NEW c, SetMine(c)
    PROVE  /\ link = "served" => served' = c /\ UNCHANGED backlog
           /\ link \notin {"queued", "served"} => UNCHANGED <<backlog, served>>
BY DEF SetMine

LEMMA MineTyped ==
    ASSUME Inv
    PROVE  /\ Mine \in Connections
           /\ \A c \in Connections : SetMine(c) =>
                  backlog' \in Seq(Connections) /\ served' \in Connections
<1>1. backlog \in Seq(Connections) /\ served \in Connections
  BY DEF Inv, TypeOK
<1>2. link = "queued" => Len(backlog) \in 1..Len(backlog)
  BY <1>1 DEF Inv, Conversation, OneSender
<1>3. Mine \in Connections
  BY <1>1, <1>2 DEF Mine
<1>4. ASSUME NEW c \in Connections, SetMine(c)
      PROVE  backlog' \in Seq(Connections) /\ served' \in Connections
  BY <1>1, <1>4, SetQueued, SetServed
<1> QED
  BY <1>3, <1>4

LEMMA DataReplaced ==
    ASSUME NEW x \in Connections, NEW d \in Seq(Lines)
    PROVE  LET y == [x EXCEPT !.data = d]
           IN  y \in Connections /\ y.data = d /\ y.eof = x.eof /\ y.lost = x.lost
BY DEF Connections

\* The Boolean variables.
LEMMA FlagsStep ==
    ASSUME Inv, Next
    PROVE  Flags'
<1> USE DEF client, source, server
<1>0. /\ monitor \in BOOLEAN /\ pipe \in Seq(BOOLEAN)
      /\ partial \in BOOLEAN /\ fresh \in BOOLEAN
  BY DEF Inv, TypeOK, Flags
<1>p. /\ Append(pipe, TRUE) \in Seq(BOOLEAN) /\ Append(pipe, FALSE) \in Seq(BOOLEAN)
      /\ <<>> \in Seq(BOOLEAN)
      /\ pipe # <<>> => Tail(pipe) \in Seq(BOOLEAN)
  BY <1>0
<1>1. CASE PrintSample \/ PrintBadSample \/ MonitorDies
  BY <1>0, <1>p, <1>1, Zenon DEF PrintSample, PrintBadSample, MonitorDies, Flags
<1>2. CASE Client \/ NetworkFails \/ SampleRaises
  BY <1>0, <1>p, <1>2, Zenon DEF Client, Connect, ConnectFails, NetworkFails, FailedAttempt,
       Send, SendRaises, PipeEnds, Reply, ReplySkips, Restart, SampleRaises, Ends, Flags
<1>3. CASE Server \/ ServerDies \/ MeasureRaises
  BY <1>0, <1>p, <1>3, Zenon DEF Server, ServerDies, MeasureRaises, MeasureOuter,
       AcceptTimeout, Accept, MeasureLocal, Recv, RecvPart, RecvEnd, Respond,
       RespondRaises, Close, Flags
<1>4. CASE Cut \/ ClientGivesUp \/ ServerGivesUp
  BY <1>0, <1>p, <1>4, Zenon DEF Cut, ClientGivesUp, ServerGivesUp, Flags
<1> QED
  BY <1>1, <1>2, <1>3, <1>4 DEF Next

LEMMA FaultsStep ==
    ASSUME Inv, Next
    PROVE  faults' \in 0..MaxFaults
<1>1. UNCHANGED faults \/ Fault
  BY Zenon DEF Next, Client, Server, PrintSample, PrintBadSample, MonitorDies, Connect,
     ConnectFails, NetworkFails, Send, SendRaises, PipeEnds, Reply, ReplySkips, Restart,
     SampleRaises, ServerDies, MeasureRaises, MeasureOuter, AcceptTimeout, Accept,
     MeasureLocal, Recv, RecvPart, RecvEnd, Respond, RespondRaises, Cut, ClientGivesUp, ServerGivesUp
<1>2. faults \in 0..MaxFaults
  BY DEF Inv, TypeOK
<1> QED
  BY <1>1, <1>2 DEF Fault

LEMMA SourceStep ==
    ASSUME Inv, PrintSample \/ PrintBadSample \/ MonitorDies
    PROVE  Inv'
<1>1. UNCHANGED <<cpc, attempt, sent, link, s2c, spc, partial, lines, fresh, backlog,
                  served>>
  BY Zenon DEF PrintSample, PrintBadSample, MonitorDies, client, server
<1>2. Conversation'
  BY <1>1 DEF Inv, Conversation, OneSender, OneLine, OnePlace, Abandoned,
       Only, Serving
<1>3. Flags'
  BY FlagsStep DEF Next
<1>4. faults' \in 0..MaxFaults
  BY FaultsStep DEF Next
<1> QED
  BY <1>1, <1>2, <1>3, <1>4 DEF Inv, TypeOK

LEMMA ConnectStep ==
    ASSUME Inv, Connect
    PROVE  Inv'
<1> USE DEF Inv, Connect, server
<1>0. NewConnection \in Connections /\ ~Abandoned(NewConnection)
      /\ NewConnection.data = <<>>
  BY DEF NewConnection, Connections, Abandoned
<1>f. Flags'
  BY FlagsStep DEF Next, Client
<1>1. TypeOK'
  BY <1>0, <1>f DEF TypeOK
<1>2. /\ Len(backlog') = Len(backlog) + 1
      /\ backlog'[Len(backlog')] = NewConnection
      /\ \A i \in 1..Len(backlog) : backlog'[i] = backlog[i]
  BY <1>0 DEF TypeOK
<1>3. OneSender'
  BY <1>0, <1>2 DEF TypeOK, Conversation, OneSender, Abandoned, Serving
<1>4. OneLine'
  BY DEF Conversation, OneLine
<1>5. OnePlace'
  BY <1>0, <1>2 DEF Conversation, OnePlace
<1> QED
  BY <1>1, <1>3, <1>4, <1>5 DEF Conversation

\* Steps that touch neither connections nor lines.
LEMMA QuietStep ==
    ASSUME Inv, ConnectFails \/ NetworkFails \/ Restart \/ MeasureOuter
                \/ AcceptTimeout \/ MeasureLocal \/ RecvPart
    PROVE  Inv'
<1>f. Flags'
  BY FlagsStep DEF Next, Client, Server
<1> USE DEF Inv, client, source
<1>1. CASE ConnectFails \/ NetworkFails \/ Restart
  <2>1. attempt' \in 0..2 /\ cpc \in {"connect", "ended"}
        /\ cpc' \in {"connect", "ended"}
    BY <1>1 DEF ConnectFails, NetworkFails, FailedAttempt, Restart, TypeOK
  <2>2. UNCHANGED <<sent, link, s2c, source, server, backlog, served>>
    BY <1>1 DEF ConnectFails, NetworkFails, FailedAttempt, Restart
  <2>4. faults' \in 0..MaxFaults
    BY <1>1, FaultsStep DEF Next, Client
  <2>3. Conversation'
    BY <2>1, <2>2 DEF server, Conversation, OneSender, OneLine, OnePlace, Abandoned,
         Only, Serving
  <2> QED
    BY <1>f, <2>1, <2>2, <2>3, <2>4 DEF server, TypeOK
<1>2. CASE MeasureOuter \/ AcceptTimeout
  BY <1>f, <1>2, SMTT(30) DEF MeasureOuter, AcceptTimeout, TypeOK, Conversation, OneSender, OneLine,
       OnePlace, Abandoned, Only, Serving
<1>3. CASE MeasureLocal \/ RecvPart
  BY <1>f, <1>3, SMTT(30) DEF MeasureLocal, RecvPart, TypeOK, Conversation, OneSender, OneLine,
       OnePlace, Abandoned, Only, Serving
<1> QED
  BY <1>1, <1>2, <1>3

\* The sender ends: its connection is abandoned.
LEMMA EndsStep ==
    ASSUME Inv, SendRaises \/ SampleRaises \/ PipeEnds
    PROVE  Inv'
<1> USE DEF Inv
<1>e. Ends /\ cpc = "run"
  BY DEF SendRaises, SampleRaises, PipeEnds
<1>f. Flags' /\ faults' \in 0..MaxFaults
  BY FlagsStep, FaultsStep DEF Next, Client
<1> DEFINE c == [Mine EXCEPT !.eof = TRUE]
<1>c. c \in Connections /\ Abandoned(c) /\ c.data = Mine.data
  BY MineTyped, Zenon DEF Connections, Abandoned
<1>s. SetMine(c)
  BY <1>e DEF Ends
<1>u. /\ cpc' = "ended" /\ link' = "none" /\ s2c' = <<>>
      /\ UNCHANGED <<attempt, sent, spc, partial, lines, fresh>>
  BY <1>e DEF Ends, server
<1>1. TypeOK'
  BY <1>u, <1>f, <1>c, <1>s, MineTyped DEF TypeOK
<1>2. CASE link = "queued"
  <2>1. OneSender'
    BY <1>2, <1>u, <1>c, <1>s, SetQueued, Zenon DEF Conversation, OneSender, Mine, Serving
  <2> QED
    BY <1>1, <1>2, <1>u, <1>c, <1>s, <2>1, SetQueued
       DEF Conversation, OneLine, OnePlace
<1>3. CASE link = "served"
  <2>1. served' = c /\ UNCHANGED backlog
    BY <1>3, <1>s, SetServed
  <2>2. OneSender'
    BY <1>3, <1>u, <1>c, <2>1 DEF Conversation, OneSender, Serving
  <2>3. OneLine'
    BY <1>3, <1>u, <1>c, <2>1 DEF Conversation, OneLine, Mine
  <2> QED
    BY <1>1, <1>u, <2>2, <2>3 DEF Conversation, OnePlace
<1>4. CASE link \notin {"queued", "served"}
  <2>1. UNCHANGED <<backlog, served>>
    BY <1>4, <1>s, SetServed
  <2> QED
    BY <1>1, <1>4, <1>u, <2>1 DEF Conversation, OneSender, OneLine, OnePlace, Abandoned,
         Serving
<1> QED
  BY <1>2, <1>3, <1>4

LEMMA SendStep ==
    ASSUME Inv, Send
    PROVE  Inv'
<1> USE DEF Inv
<1>f. Flags' /\ faults' \in 0..MaxFaults
  BY FlagsStep, FaultsStep DEF Next, Client
<1> DEFINE l == [label |-> (sent + 1) % Labels, ok |-> Head(pipe)]
           c == [Mine EXCEPT !.data = Append(@, l)]
<1>n. (sent + 1) % Labels \in 0..(Labels - 1)
  BY DEF TypeOK
<1>o. Head(pipe) \in BOOLEAN
  BY DEF Send, TypeOK, Flags
<1>l. l \in Lines /\ l.label = (sent + 1) % Labels
  BY <1>n, <1>o DEF Lines
<1>m. Mine \in Connections
  BY MineTyped
<1>a. Mine.data \in Seq(Lines) /\ Append(Mine.data, l) \in Seq(Lines)
  BY <1>l, <1>m DEF Connections
<1>x. c = [Mine EXCEPT !.data = Append(Mine.data, l)]
  BY <1>m DEF Connections
<1>c. /\ c \in Connections /\ c.data = Append(Mine.data, l)
      /\ c.eof = Mine.eof /\ c.lost = Mine.lost
  BY <1>a, <1>m, <1>x, DataReplaced, Zenon
<1>s. SetMine(c)
  BY DEF Send
<1>v. sent' = (sent + 1) % Labels
  BY DEF Send
<1>u. /\ cpc = "run" /\ cpc' = "reply"
      /\ link' = IF link = "fin" THEN "rst" ELSE link
      /\ UNCHANGED <<attempt, s2c, spc, partial, lines, fresh>>
  BY DEF Send, server
<1>1. TypeOK'
  BY <1>u, <1>v, <1>n, <1>f, <1>c, <1>s, MineTyped DEF TypeOK
<1>d. Mine.data = <<>> => Only(c.data, sent')
  BY <1>c, <1>l, <1>v DEF Only
<1>q. s2c' = <<>>
  BY <1>u DEF Conversation, OnePlace, TypeOK
<1> HIDE DEF l, c
<1>2. CASE link = "queued"
  <2>1. Mine = backlog[Len(backlog)] /\ Mine.data = <<>>
    BY <1>2, <1>u, <1>m DEF Mine, Conversation, OnePlace, Connections
  <2>2. Len(c.data) = 1
    BY <1>d, <2>1 DEF Only
  <2>0. /\ UNCHANGED served
        /\ Len(backlog') = Len(backlog) /\ Len(backlog) \in Nat \ {0}
        /\ backlog'[Len(backlog)] = c
        /\ \A i \in 1..Len(backlog) : i # Len(backlog) => backlog'[i] = backlog[i]
    BY <1>2, <1>c, <1>s, SetQueued
  <2>3. OneSender'
    <3>1. ~Abandoned(c)
      BY <1>2, <1>c, <2>1 DEF Conversation, OneSender, Abandoned
    <3>2. link' = "queued" /\ cpc' = "reply" /\ UNCHANGED <<served, spc>>
      BY <1>2, <1>u, <2>0
    <3>3. \A i \in 1..Len(backlog) :
              i # Len(backlog) => Len(backlog'[i].data) <= 1 /\ Abandoned(backlog'[i])
      BY <2>0 DEF Conversation, OneSender
    <3>4. Serving' => Abandoned(served)'
      BY <1>2, <3>2 DEF Conversation, OneSender, Serving, Abandoned
    <3>5. \A i \in 1..Len(backlog') :
              /\ Len(backlog'[i].data) <= 1
              /\ Abandoned(backlog'[i]) \/ i = Len(backlog')
      <4> TAKE i \in 1..Len(backlog')
      <4>1. CASE i = Len(backlog)
        <5>1. backlog'[i] = c /\ i = Len(backlog')
          BY <2>0, <4>1
        <5>2. Len(backlog'[i].data) <= 1
          BY <5>1, <2>2
        <5> QED
          BY <5>1, <5>2
      <4>2. CASE i # Len(backlog)
        BY <2>0, <3>3, <4>2
      <4> QED
        BY <4>1, <4>2
    <3>6. Len(backlog') > 0 /\ ~Abandoned(backlog'[Len(backlog')])
      BY <2>0, <3>1
    <3> QED
      BY <3>2, <3>4, <3>5, <3>6 DEF OneSender
  <2>4. OneLine'
    BY <1>u, <2>0 DEF Conversation, OneLine
  <2>5. OnePlace'
    BY <1>2, <1>u, <1>q, <1>d, <2>0, <2>1 DEF OnePlace
  <2> QED
    BY <1>1, <2>3, <2>4, <2>5 DEF Conversation
<1>3. CASE link = "served"
  <2>1. served' = c /\ UNCHANGED backlog /\ Mine = served
    BY <1>3, <1>s, SetServed DEF Mine
  <2>2. served.data = <<>> /\ Len(lines) = 0 /\ Len(s2c) = 0
    BY <1>3, <1>u, <1>m, <2>1 DEF Conversation, OnePlace, Connections
  <2>3. OneSender'
    BY <1>3, <1>u, <1>c, <2>1 DEF Conversation, OneSender, Abandoned, Serving
  <2>4. Only(served'.data, sent') /\ Len(served'.data) = 1
    BY <1>d, <2>1, <2>2 DEF Only
  <2>5. OneLine'
    BY <1>u, <2>2, <2>4 DEF Conversation, OneLine
  <2>6. OnePlace'
    BY <1>3, <1>u, <1>q, <2>2, <2>4 DEF OnePlace
  <2> QED
    BY <1>1, <2>3, <2>5, <2>6 DEF Conversation
<1>4. CASE link \notin {"queued", "served"}
  <2>1. UNCHANGED <<backlog, served>>
    BY <1>4, <1>s, SetServed
  <2> QED
    BY <1>1, <1>4, <1>u, <1>q, <2>1 DEF Conversation, OneSender, OneLine, OnePlace,
         Abandoned, Serving
<1> QED
  BY <1>2, <1>3, <1>4

LEMMA ReplyStep ==
    ASSUME Inv, Reply \/ ReplySkips
    PROVE  Inv'
<1> USE DEF Inv
<1>f. Flags' /\ faults' \in 0..MaxFaults
  BY FlagsStep, FaultsStep DEF Next, Client
<1>u. /\ cpc = "reply" /\ cpc' = "run"
      /\ UNCHANGED <<attempt, sent, link, spc, partial, lines, fresh, backlog, served>>
  BY DEF Reply, ReplySkips, server
<1>1. s2c' = <<>>
  BY SMTT(30) DEF Reply, ReplySkips, Conversation, OnePlace, TypeOK
<1>2. s2c = <<sent>> \/ link \notin {"queued", "served"}
  BY DEF Reply, ReplySkips, Conversation, OnePlace, TypeOK
<1>3. TypeOK'
  BY <1>u, <1>f, <1>1 DEF TypeOK
<1>4. OneSender' /\ OneLine'
  BY <1>u DEF Conversation, OneSender, OneLine, Abandoned, Serving
<1>5. OnePlace'
  BY <1>u, <1>1, <1>2 DEF Conversation, OnePlace, Only
<1> QED
  BY <1>3, <1>4, <1>5 DEF Conversation

\* The connection accepted is the sender's if no other waits, and else one
\* that was abandoned.
LEMMA AcceptStep ==
    ASSUME Inv, Accept
    PROVE  Inv'
<1> USE DEF Inv
<1>f. Flags' /\ faults' \in 0..MaxFaults
  BY FlagsStep, FaultsStep DEF Next, Server
<1>u. /\ spc = "accept" /\ spc' = "local"
      /\ link' = IF link = "queued" /\ Len(backlog) = 1 THEN "served" ELSE link
      /\ UNCHANGED <<cpc, attempt, sent, s2c, lines, fresh>>
  BY DEF Accept, client
<1>b. /\ backlog \in Seq(Connections) /\ Len(backlog) \in Nat \ {0}
      /\ backlog' \in Seq(Connections) /\ Len(backlog') = Len(backlog) - 1
      /\ served' = backlog[1] /\ served' \in Connections
      /\ \A i \in 1..Len(backlog') : i + 1 \in 1..Len(backlog) /\ backlog'[i] = backlog[i + 1]
  BY DEF Accept, TypeOK
<1>n. link # "served" /\ Serving'
  BY <1>u DEF Conversation, OneSender, Serving
<1>1. TypeOK'
  BY <1>u, <1>f, <1>b DEF TypeOK
<1>2. OneLine'
  <2>1. Len(served'.data) <= 1 /\ Len(lines) = 0
    BY <1>u, <1>b DEF Conversation, OneSender, OneLine
  <2>2. Len(served'.data) \in Nat
    BY <1>b DEF Connections
  <2> QED
    BY <1>u, <2>1, <2>2 DEF OneLine
<1>3. CASE link = "queued" /\ Len(backlog) = 1
  <2>1. Len(backlog') = 0 /\ link' = "served" /\ ~Abandoned(served') /\ Len(lines') = 0
    BY <1>3, <1>u, <1>b DEF Conversation, OneSender, OneLine
  <2>2. OneSender'
    BY <1>3, <1>u, <1>n, <2>1 DEF Conversation, OneSender, Abandoned
  <2>3. OnePlace'
    BY <1>3, <1>u, <1>b, <2>1 DEF Conversation, OnePlace, Only
  <2> QED
    BY <1>1, <1>2, <2>2, <2>3 DEF Conversation
<1>4. CASE ~(link = "queued" /\ Len(backlog) = 1)
  <2>1. Abandoned(served') /\ link' = link
    BY <1>4, <1>u, <1>b DEF Conversation, OneSender
  <2>2. \A i \in 1..Len(backlog') :
            /\ Len(backlog'[i].data) <= 1
            /\ Abandoned(backlog'[i]) \/ (link = "queued" /\ i = Len(backlog'))
    <3> TAKE i \in 1..Len(backlog')
    <3>1. /\ i + 1 \in 1..Len(backlog) /\ backlog'[i] = backlog[i + 1]
          /\ i + 1 = Len(backlog) => i = Len(backlog')
      BY <1>b
    <3> QED
      BY <3>1 DEF Conversation, OneSender
  <2>3. link = "queued" => Len(backlog') > 0 /\ backlog'[Len(backlog')] = backlog[Len(backlog)]
    BY <1>4, <1>b
  <2>4. OneSender'
    <3>1. link = "queued" => Len(backlog') > 0 /\ ~Abandoned(backlog'[Len(backlog')])
      BY <2>3 DEF Conversation, OneSender
    <3>2. cpc \in {"connect", "ended"} <=> link = "none"
      BY DEF Conversation, OneSender
    <3> QED
      BY <1>u, <1>n, <2>1, <2>2, <3>1, <3>2 DEF OneSender, Abandoned
  <2>5. OnePlace'
    BY <1>u, <1>n, <2>1, <2>3 DEF Conversation, OnePlace
  <2> QED
    BY <1>1, <1>2, <2>4, <2>5 DEF Conversation
<1> QED
  BY <1>3, <1>4

LEMMA CloseStep ==
    ASSUME Inv, MeasureRaises \/ RecvEnd \/ RespondRaises
    PROVE  Inv'
<1> USE DEF Inv
<1>f. Flags' /\ faults' \in 0..MaxFaults
  BY FlagsStep, FaultsStep DEF Next, Server
<1>u. /\ spc' = "outer" /\ lines' = <<>>
      /\ link' = IF link # "served" THEN link
                  ELSE IF served.data = <<>> THEN "fin" ELSE "rst"
      /\ UNCHANGED <<cpc, attempt, sent, s2c, backlog, served, fresh>>
  BY DEF MeasureRaises, RecvEnd, RespondRaises, Close, client
<1>1. TypeOK'
  BY <1>u, <1>f DEF TypeOK
<1>2. OneSender'
  BY <1>u DEF Conversation, OneSender, Abandoned, Serving
<1>3. OneLine'
  <2>1. Len(served.data) \in Nat /\ Len(lines) \in Nat
    BY DEF TypeOK, Connections
  <2>2. Len(served.data) <= 1
    BY <2>1 DEF Conversation, OneLine
  <2>3. Len(lines') = 0 /\ Len(served'.data) <= 1 /\ Len(served'.data) \in Nat
    BY <1>u, <2>1, <2>2
  <2> QED
    BY <1>u, <2>3 DEF OneLine
<1>4. OnePlace'
  BY <1>u DEF Conversation, OnePlace
<1> QED
  BY <1>1, <1>2, <1>3, <1>4 DEF Conversation

LEMMA RecvStep ==
    ASSUME Inv, Recv
    PROVE  Inv'
<1> USE DEF Inv
<1>f. Flags' /\ faults' \in 0..MaxFaults
  BY FlagsStep, FaultsStep DEF Next, Server
<1>u. /\ spc = "recv" /\ spc' = "respond" /\ lines' = served.data
      /\ served' = [served EXCEPT !.data = <<>>]
      /\ UNCHANGED <<cpc, attempt, sent, link, s2c, backlog, fresh>>
  BY DEF Recv, client
<1>a. <<>> \in Seq(Lines) /\ served \in Connections /\ served.data \in Seq(Lines)
  BY DEF TypeOK, Connections
<1>s. /\ served' \in Connections /\ served'.data = <<>>
      /\ served'.eof = served.eof /\ served'.lost = served.lost
  BY <1>u, <1>a, DataReplaced, Zenon
<1>l. Len(served.data) = 1 /\ Len(lines) = 0
  <2>1. served.data # <<>>
    BY DEF Recv
  <2>2. Len(served.data) \in Nat /\ Len(served.data) # 0
    BY <1>a, <2>1
  <2>3. Len(served.data) <= 1 /\ Len(lines) = 0
    BY <1>u DEF Conversation, OneLine
  <2>4. \A n \in Nat : n # 0 /\ n <= 1 => n = 1
    OBVIOUS
  <2> QED
    BY <2>2, <2>3, <2>4, Zenon
<1>1. TypeOK'
  BY <1>u, <1>f, <1>a, <1>s DEF TypeOK
<1>2. OneSender'
  BY <1>u, <1>s DEF Conversation, OneSender, Abandoned, Serving
<1>3. OneLine'
  BY <1>u, <1>s, <1>l DEF Conversation, OneLine
<1>4. OnePlace'
  BY <1>u, <1>s, <1>l DEF Conversation, OnePlace, Only
<1> QED
  BY <1>1, <1>2, <1>3, <1>4 DEF Conversation

LEMMA RespondStep ==
    ASSUME Inv, Respond
    PROVE  Inv'
<1> USE DEF Inv
<1>f. Flags' /\ faults' \in 0..MaxFaults
  BY FlagsStep, FaultsStep DEF Next, Server
<1>l. spc = "respond" /\ Len(lines) = 1 /\ Len(served.data) = 0 /\ lines \in Seq(Lines)
  <2>1. Len(served.data) \in Nat
    BY DEF TypeOK, Connections
  <2> QED
    BY <2>1 DEF Respond, Conversation, OneLine, TypeOK
<1>h. Head(lines) = lines[1] /\ lines[1].label \in 0..(Labels - 1)
  <2>1. lines[1] \in Lines
    BY <1>l
  <2> QED
    BY <1>l, <2>1 DEF Lines
<1>u. /\ spc' = "local" /\ lines' = <<>>
      /\ s2c' = IF link = "served" THEN Append(s2c, lines[1].label) ELSE s2c
      /\ UNCHANGED <<cpc, attempt, sent, link, backlog, served>>
  BY <1>l, <1>h DEF Respond, Answered, client
<1>1. TypeOK'
  <2>1. s2c' \in Seq(0..(Labels - 1)) /\ lines' \in Seq(Lines)
    <3>1. s2c \in Seq(0..(Labels - 1))
      BY DEF TypeOK
    <3>2. Append(s2c, lines[1].label) \in Seq(0..(Labels - 1))
      BY <1>h, <3>1
    <3>3. <<>> \in Seq(Lines)
      OBVIOUS
    <3> QED
      BY <1>u, <3>1, <3>2, <3>3, Zenon
  <2> QED
    BY <1>u, <1>f, <2>1 DEF TypeOK
<1>2. OneSender'
  BY <1>u, <1>l DEF Conversation, OneSender, Abandoned, Serving
<1>3. OneLine'
  BY <1>u, <1>l DEF OneLine
<1>4. CASE link = "served"
  <2>1. cpc = "reply" /\ lines[1].label = sent /\ s2c = <<>>
    <3>1. cpc \in {"run", "reply"} /\ s2c \in Seq(0..(Labels - 1))
      BY <1>4 DEF TypeOK, Conversation, OneSender
    <3> QED
      BY <1>4, <1>l, <3>1 DEF Conversation, OnePlace, Only
  <2>2. s2c' = <<sent>>
    BY <1>4, <1>u, <2>1
  <2>3. OnePlace'
    BY <1>4, <1>u, <1>l, <2>1, <2>2 DEF OnePlace
  <2> QED
    BY <1>1, <1>2, <1>3, <2>3 DEF Conversation
<1>5. CASE link # "served"
  <2>1. OnePlace'
    BY <1>5, <1>u DEF Conversation, OnePlace
  <2> QED
    BY <1>1, <1>2, <1>3, <2>1 DEF Conversation
<1> QED
  BY <1>4, <1>5

LEMMA ServerDiesStep ==
    ASSUME Inv, ServerDies
    PROVE  Inv'
<1> USE DEF Inv
<1>f. Flags' /\ faults' \in 0..MaxFaults
  BY FlagsStep, FaultsStep DEF Next
<1>u. /\ spc = "outer" /\ spc' = "dead" /\ backlog' = <<>>
      /\ link' = IF link = "queued" THEN "rst" ELSE link
      /\ UNCHANGED <<cpc, attempt, sent, s2c, served, lines, fresh>>
  BY DEF ServerDies, client
<1>1. TypeOK'
  BY <1>u, <1>f DEF TypeOK
<1>2. OneSender'
  BY <1>u DEF Conversation, OneSender, Serving
<1>3. OneLine'
  BY <1>u DEF Conversation, OneLine
<1>4. OnePlace'
  BY <1>u, <1>2 DEF Conversation, OnePlace, OneSender, Serving
<1> QED
  BY <1>1, <1>2, <1>3, <1>4 DEF Conversation

\* The sender's connection is cut: at the server it counts as abandoned.
LEMMA CutStep ==
    ASSUME Inv, Cut
    PROVE  Inv'
<1> USE DEF Inv
<1>f. Flags' /\ faults' \in 0..MaxFaults
  BY FlagsStep, FaultsStep DEF Next
<1>u. /\ link' = "cut" /\ s2c' \in {s2c, <<>>}
      /\ UNCHANGED <<cpc, attempt, sent, spc, partial, lines, fresh>>
  BY DEF Cut, client, server
<1>m. Mine \in Connections
  BY MineTyped
<1>d. PICK d \in {Mine.data, <<>>} : SetMine([Mine EXCEPT !.data = d, !.lost = TRUE])
  BY Zenon DEF Cut
<1> DEFINE c == [Mine EXCEPT !.data = d, !.lost = TRUE]
<1>e. d \in Seq(Lines) /\ Len(d) \in Nat /\ Len(d) <= Len(Mine.data)
  <2>1. Mine.data \in Seq(Lines) /\ <<>> \in Seq(Lines) /\ Len(<<>>) = 0
    BY <1>m DEF Connections
  <2>2. CASE d = Mine.data
    BY <2>1, <2>2
  <2>3. CASE d = <<>>
    BY <2>1, <2>3
  <2> QED
    BY <1>d, <2>2, <2>3
<1>c. c \in Connections /\ c.data = d /\ Abandoned(c)
  BY <1>m, <1>e, Zenon DEF Connections, Abandoned
<1>s. SetMine(c)
  BY <1>d
<1> HIDE DEF c
<1>q. /\ s2c' \in Seq(0..(Labels - 1))
      /\ cpc # "reply" => Len(s2c') = 0
      /\ cpc = "reply" => s2c' \in {<<>>, <<sent>>}
  <2>1. /\ s2c \in Seq(0..(Labels - 1))
        /\ cpc # "reply" => Len(s2c) = 0
        /\ cpc = "reply" => s2c \in {<<>>, <<sent>>}
    BY DEF TypeOK, Conversation, OnePlace
  <2>2. <<>> \in Seq(0..(Labels - 1)) /\ Len(<<>>) = 0
    OBVIOUS
  <2>3. CASE s2c' = s2c
    BY <2>1, <2>3
  <2>4. CASE s2c' = <<>>
    BY <2>2, <2>4
  <2> QED
    BY <1>u, <2>3, <2>4
<1>1. TypeOK'
  BY <1>u, <1>q, <1>f, <1>c, <1>s, MineTyped DEF TypeOK
<1>2. OnePlace'
  BY <1>u, <1>q DEF OnePlace
<1>3. CASE link = "queued"
  <2>0. /\ UNCHANGED served
        /\ Len(backlog') = Len(backlog) /\ Len(backlog) \in Nat \ {0}
        /\ backlog'[Len(backlog)] = c
        /\ \A i \in 1..Len(backlog) : i # Len(backlog) => backlog'[i] = backlog[i]
    BY <1>3, <1>c, <1>s, SetQueued
  <2>1. \A i \in 1..Len(backlog') :
            Len(backlog'[i].data) <= 1 /\ Abandoned(backlog'[i])
    <3> TAKE i \in 1..Len(backlog')
    <3>1. CASE i = Len(backlog)
      <4>1. backlog'[i] = c /\ Mine = backlog[i] /\ i \in 1..Len(backlog)
        BY <1>3, <2>0, <3>1 DEF Mine
      <4>2. Len(Mine.data) <= 1 /\ Len(Mine.data) \in Nat
        BY <1>m, <4>1 DEF Conversation, OneSender, Connections
      <4>3. Len(c.data) <= 1
        BY <1>e, <1>c, <4>2
      <4> QED
        BY <4>1, <4>3, <1>c
    <3>2. CASE i # Len(backlog)
      BY <2>0, <3>2 DEF Conversation, OneSender
    <3> QED
      BY <3>1, <3>2
  <2>2. OneSender'
    <3>1. Serving' => Abandoned(served)'
      BY <1>3, <1>u, <2>0 DEF Conversation, OneSender, Serving, Abandoned
    <3>2. cpc' \notin {"connect", "ended"}
      BY <1>3, <1>u DEF Conversation, OneSender
    <3> QED
      BY <1>u, <2>1, <3>1, <3>2 DEF OneSender
  <2>3. OneLine'
    BY <1>u, <2>0 DEF Conversation, OneLine
  <2> QED
    BY <1>1, <1>2, <2>2, <2>3 DEF Conversation
<1>4. CASE link = "served"
  <2>1. served' = c /\ UNCHANGED backlog /\ Mine = served
    BY <1>4, <1>s, SetServed DEF Mine
  <2>2. OneSender'
    BY <1>4, <1>u, <1>c, <2>1 DEF Conversation, OneSender, Abandoned
  <2>3. OneLine'
    <3>1. /\ Len(served.data) \in Nat /\ Len(lines) \in Nat
          /\ Len(served'.data) <= Len(served.data) /\ Len(served'.data) \in Nat
      BY <1>m, <1>e, <1>c, <2>1 DEF Connections, TypeOK
    <3> QED
      BY <1>u, <3>1 DEF Conversation, OneLine
  <2> QED
    BY <1>1, <1>2, <2>2, <2>3 DEF Conversation
<1> QED
  BY <1>3, <1>4 DEF Cut

LEMMA GivesUpStep ==
    ASSUME Inv, ClientGivesUp \/ ServerGivesUp
    PROVE  Inv'
<1> USE DEF Inv
<1>f. Flags' /\ faults' \in 0..MaxFaults
  BY FlagsStep, FaultsStep DEF Next
<1>1. CASE ClientGivesUp
  <2>u. /\ link = "cut" /\ link' = "rst"
        /\ UNCHANGED <<cpc, attempt, sent, s2c, spc, lines, fresh, backlog, served>>
    BY <1>1 DEF ClientGivesUp, client, server
  <2>1. TypeOK'
    BY <1>f, <2>u DEF TypeOK
  <2> QED
    BY <2>u, <2>1 DEF Conversation, OneSender, OneLine, OnePlace, Abandoned, Serving
<1>2. CASE ServerGivesUp
  <2>u. UNCHANGED <<cpc, attempt, sent, link, s2c, spc, lines, fresh, backlog>>
    BY <1>2 DEF ServerGivesUp, client, server
  <2>s. /\ served' \in Connections /\ served'.data = served.data /\ Abandoned(served')
        /\ Abandoned(served)
    BY <1>2, Zenon DEF ServerGivesUp, TypeOK, Connections, Abandoned
  <2>1. TypeOK'
    BY <1>f, <2>u, <2>s DEF TypeOK
  <2>2. link # "served"
    BY <2>s DEF Conversation, OneSender
  <2>3. OneSender'
    BY <2>u, <2>s, <2>2 DEF Conversation, OneSender, Abandoned, Serving
  <2>4. OneLine' /\ OnePlace'
    BY <2>u, <2>s, <2>2 DEF Conversation, OneLine, OnePlace
  <2> QED
    BY <2>1, <2>3, <2>4 DEF Conversation
<1> QED
  BY <1>1, <1>2

-----------------------------------------------------------------------------
(* The theorems.                                                           *)

LEMMA InvStep == Inv /\ [Next]_vars => Inv'
<1> SUFFICES ASSUME Inv, [Next]_vars PROVE Inv'
  OBVIOUS
<1>1. CASE UNCHANGED vars
  BY <1>1 DEF vars, Inv, TypeOK, Flags, Conversation, OneSender, OneLine, OnePlace,
       Abandoned, Only, Serving
<1> QED
  BY <1>1, SourceStep, ConnectStep, QuietStep, EndsStep, SendStep, ReplyStep, AcceptStep,
     CloseStep, RecvStep, RespondStep, ServerDiesStep, CutStep, GivesUpStep
     DEF Next, Client, Server

LEMMA InvHolds == Spec => []Inv
BY InitInv, InvStep, PTL DEF Spec

\* Every variable of the exchange stays in its range.
THEOREM ExchangeTypeCorrect == Spec => []TypeOK
<1>1. Inv => TypeOK
  BY DEF Inv
<1> QED
  BY <1>1, InvHolds, PTL

\* The answer the sender reads is the one to the sample it sent last.
AnswersOwnSample == cpc = "reply" /\ s2c # <<>> => s2c = <<sent>>

\* However samples, connections and processes fail, the sender reads no
\* answer but the one to the sample it sent last.
THEOREM AnswersArePaired == Spec => []AnswersOwnSample
<1>1. Inv => AnswersOwnSample
  BY DEF Inv, Conversation, OnePlace, AnswersOwnSample
<1> QED
  BY <1>1, InvHolds, PTL

\* A line that is answered is merged with a map no other line was merged with.
MapPerSample == spc = "respond" => fresh

\* The server measures its own map anew for every sample it answers.
THEOREM MapsAreFresh == Spec => []MapPerSample
<1>1. Inv => MapPerSample
  BY DEF Inv, Conversation, OneLine, MapPerSample
<1> QED
  BY <1>1, InvHolds, PTL

\* Unless a connection was cut, sender and server never wait for each other.
THEOREM NoMutualWait == Spec => []NeverBothWait
<1>1. Inv => NeverBothWait
  BY DEF Inv, Conversation, OneSender, OneLine, OnePlace, NeverBothWait, Abandoned,
       Serving, Only
<1> QED
  BY <1>1, InvHolds, PTL

-----------------------------------------------------------------------------
(* The exchange of samples for estimates.                                  *)

\* A step that leaves the sample alone is at most a measurement.
LEMMA ExchangeQuiet ==
    ASSUME UNCHANGED <<cpc, sent, s2c>>, fresh' = fresh \/ fresh' = TRUE,
           link \in {"queued", "served"} <=> link' \in {"queued", "served"}
    PROVE  [Exchange!Next]_(Exchange!vars)
<1>1. Status' = Status
  BY DEF Status
<1> QED
  BY <1>1 DEF Exchange!Next, Exchange!Measure, Exchange!vars

\* An end of the connection is lost or closed.
LEMMA ExchangeLoses ==
    ASSUME UNCHANGED <<cpc, sent, fresh>>, s2c' \in {s2c, <<>>},
           link' \notin {"queued", "served"}, cpc # "reply" => s2c = <<>>
    PROVE  [Exchange!Next]_(Exchange!vars)
<1>1. CASE cpc # "reply"
  <2>1. Status' = Status /\ s2c' = s2c
    BY <1>1 DEF Status
  <2> QED
    BY <2>1 DEF Exchange!vars
<1>2. CASE cpc = "reply" /\ s2c' # <<>>
  <2>1. Status' = Status /\ s2c' = s2c
    BY <1>2 DEF Status
  <2> QED
    BY <2>1 DEF Exchange!vars
<1>3. CASE cpc = "reply" /\ s2c' = <<>>
  <2>1. Status' = "lost"
    BY <1>3 DEF Status
  <2>2. Status \in {"asked", "answered", "lost"} /\ (Status = "lost" => s2c = <<>>)
    BY <1>3 DEF Status
  <2> QED
    BY <1>3, <2>1, <2>2 DEF Exchange!Next, Exchange!Lose, Exchange!vars
<1> QED
  BY <1>1, <1>2, <1>3

LEMMA ExchangeStep ==
    ASSUME Inv, [Next]_vars
    PROVE  [Exchange!Next]_(Exchange!vars)
<1>a. cpc # "reply" => s2c = <<>>
  BY DEF Inv, TypeOK, Conversation, OnePlace
<1>b. cpc \in {"connect", "ended"} <=> link = "none"
  BY DEF Inv, Conversation, OneSender
<1>1. CASE PrintSample \/ PrintBadSample \/ MonitorDies \/ UNCHANGED vars
  BY <1>1, ExchangeQuiet, Zenon DEF PrintSample, PrintBadSample, MonitorDies, client, server, vars
<1>2. CASE Connect \/ ConnectFails \/ NetworkFails \/ Restart
  <2>1. cpc # "reply" /\ cpc' # "reply" /\ s2c' = <<>> /\ sent' = sent /\ fresh' = fresh
    BY <1>a, <1>2 DEF Connect, ConnectFails, NetworkFails, FailedAttempt, Restart, server
  <2> QED
    BY <1>a, <2>1 DEF Status, Exchange!vars
<1>3. CASE SendRaises \/ SampleRaises \/ PipeEnds
  <2>1. cpc # "reply" /\ cpc' # "reply" /\ s2c' = <<>> /\ sent' = sent /\ fresh' = fresh
    BY <1>a, <1>3 DEF SendRaises, SampleRaises, PipeEnds, Ends, server
  <2> QED
    BY <1>a, <2>1 DEF Status, Exchange!vars
<1>4. CASE Send
  <2>1. /\ cpc = "run" /\ cpc' = "reply" /\ s2c' = s2c /\ s2c = <<>> /\ fresh' = fresh
        /\ sent' = (sent + 1) % Labels
    BY <1>a, <1>4 DEF Send, server
  <2>2. Status = "idle" /\ Status' \in {"asked", "lost"}
    BY <2>1 DEF Status
  <2> QED
    BY <2>1, <2>2 DEF Exchange!Next, Exchange!Ask
<1>5. CASE Reply
  <2>1. Status = "answered" /\ Status' = "idle" /\ sent' = sent /\ fresh' = fresh
    BY <1>5 DEF Reply, Status, server
  <2>2. s2c' = <<>>
    BY <1>5 DEF Reply, Inv, TypeOK, Conversation, OnePlace
  <2> QED
    BY <2>1, <2>2 DEF Exchange!Next, Exchange!Take
<1>6. CASE ReplySkips
  <2>1. Status = "lost" /\ Status' = "idle" /\ sent' = sent /\ fresh' = fresh /\ s2c' = s2c
    BY <1>6 DEF ReplySkips, Status, server
  <2> QED
    BY <2>1 DEF Exchange!Next, Exchange!GoOn
<1>7. CASE MeasureOuter \/ AcceptTimeout \/ MeasureLocal \/ Recv \/ RecvPart
  BY <1>7, ExchangeQuiet, Zenon
  DEF MeasureOuter, AcceptTimeout, MeasureLocal, Recv, RecvPart, client
<1>8. CASE Accept
  BY <1>8, ExchangeQuiet DEF Accept, client
<1>9. CASE ServerDies
  BY <1>9, <1>a, ExchangeLoses, ExchangeQuiet DEF ServerDies, client
<1>10. CASE MeasureRaises \/ RecvEnd \/ RespondRaises
  <2>1. Close
    BY <1>10 DEF MeasureRaises, RecvEnd, RespondRaises
  <2> QED
    BY <1>a, <2>1, ExchangeLoses, ExchangeQuiet DEF Close, client
<1>11. CASE Respond
  <2>1. fresh /\ fresh' = FALSE /\ UNCHANGED <<cpc, sent, link>>
    BY <1>11 DEF Respond, client, Inv, Conversation, OneLine
  <2>2. CASE link # "served"
    <3>1. s2c' = s2c
      BY <1>11, <2>2 DEF Respond
    <3>2. Status' = Status
      BY <2>1, <3>1 DEF Status
    <3> QED
      BY <2>1, <3>1, <3>2 DEF Exchange!Next, Exchange!AnswerNobody
  <2>3. CASE link = "served"
    <3>1. Len(lines) = 1 /\ spc = "respond"
      BY <1>11 DEF Respond, Inv, Conversation, OneLine
    <3>2. cpc = "reply"
      BY <2>3, <3>1, <1>b DEF Inv, TypeOK, Conversation, OnePlace
    <3>3. Only(lines, sent) /\ s2c = <<>>
      BY <2>3, <3>1, <3>2 DEF Inv, TypeOK, Conversation, OnePlace
    <3>4. s2c' = <<sent>>
      BY <1>11, <2>3, <3>3 DEF Respond, Only, Inv, TypeOK
    <3>5. Status = "asked" /\ Status' = "answered"
      BY <2>1, <2>3, <3>2, <3>3, <3>4 DEF Status
    <3> QED
      BY <2>1, <3>4, <3>5 DEF Exchange!Next, Exchange!Answer
  <2> QED
    BY <2>2, <2>3
<1>12. CASE Cut
  BY <1>12, <1>a, ExchangeLoses DEF Cut, client, server
<1>13. CASE ClientGivesUp \/ ServerGivesUp
  BY <1>13, ExchangeQuiet, Zenon DEF ClientGivesUp, ServerGivesUp, client, server
<1> QED
  BY <1>1, <1>2, <1>3, <1>4, <1>5, <1>6, <1>7, <1>8, <1>9, <1>10, <1>11, <1>12, <1>13
  DEF Next, Client, Server

\* For every size of the pipe and the backlog and any number of faults, the two
\* programs implement the exchange: the answer read is the one to the sample
\* sent last, computed once and from a map of its own, and no sample is given
\* up while it can still be answered.
THEOREM ExchangeImplemented == Spec => ExchangeSpec
<1>1. Init => Exchange!Init
  BY DEF Init, Exchange!Init, Status
<1> QED
  BY <1>1, ExchangeStep, InvHolds, PTL DEF Spec, ExchangeSpec, Exchange!Spec
=============================================================================
