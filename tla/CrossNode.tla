----------------------------- MODULE CrossNode -----------------------------
(***************************************************************************)
(* Prediction across nodes (src/predxnd).  On the source node a loop keeps *)
(* send_print_throttle.py running: it starts a monitor, sends each sample  *)
(* over TCP and waits for the estimate.  On the target node                *)
(* merge_pred_throttle.py serves one connection at a time: it measures its *)
(* own feature map, receives, merges, predicts and answers.  Nothing in a  *)
(* message says which sample it belongs to.                                *)
(***************************************************************************)
EXTENDS Naturals, Sequences

CONSTANTS
    Labels,     \* samples are told apart by their number modulo Labels
    PipeSize,   \* samples that the monitor can be ahead of the sender
    Backlog,    \* connections that wait to be accepted
    MaxFaults   \* faults of the environment, all of them together

ASSUME CrossNodeAssumption ==
    /\ Labels \in Nat \ {0} /\ PipeSize \in Nat \ {0}
    /\ Backlog \in Nat \ {0} /\ MaxFaults \in Nat

VARIABLES
    cpc,        \* where send_print_throttle.py is
    attempt,    \* its attempts to connect
    sent,       \* the label of the sample it sent last
    link,       \* its connection: waiting in the backlog, served, closed by
                \* the server (fin, rst), cut without notice, or none
    s2c,        \* the answers that are on their way to it
    monitor,    \* TRUE iff cgroup_monitor3.py runs
    pipe,       \* the samples it has printed: TRUE iff they can be merged
    spc,        \* where server_loop is
    backlog,    \* the connections that wait for accept
    served,     \* the connection accepted last
    partial,    \* TRUE iff buf holds a part of a line
    lines,      \* the complete lines received and not yet answered
    fresh,      \* TRUE iff local_map was measured after the last answer
    faults

client == <<cpc, attempt, sent>>
source == <<monitor, pipe>>
server == <<spc, partial, lines, fresh>>
vars == <<cpc, attempt, sent, link, s2c, monitor, pipe, spc, backlog, served,
          partial, lines, fresh, faults>>

Lines == [label : 0..(Labels - 1), ok : BOOLEAN]

\* The server's end of a connection: what it can still receive, whether the
\* client has closed it, and whether it was cut without either end knowing.
Connections == [data : Seq(Lines), eof : BOOLEAN, lost : BOOLEAN]
NewConnection == [data |-> <<>>, eof |-> FALSE, lost |-> FALSE]

Serving == spc \in {"local", "recv", "respond"}

Init ==
    /\ cpc = "connect" /\ attempt = 0 /\ sent = 0
    /\ link = "none" /\ s2c = <<>>
    /\ monitor = FALSE /\ pipe = <<>>
    /\ spc = "outer"
    /\ backlog = <<>>
    /\ served = [data |-> <<>>, eof |-> TRUE, lost |-> FALSE]
    /\ partial = FALSE /\ lines = <<>> /\ fresh = FALSE
    /\ faults = 0

Fault == faults < MaxFaults /\ faults' = faults + 1

\* The server's end of the client's connection becomes c.
SetMine(c) ==
    CASE link = "queued" -> /\ backlog' = [backlog EXCEPT ![Len(backlog)] = c]
                            /\ UNCHANGED served
      [] link = "served" -> served' = c /\ UNCHANGED backlog
      [] OTHER -> UNCHANGED <<backlog, served>>

Mine == IF link = "queued" THEN backlog[Len(backlog)] ELSE served

-----------------------------------------------------------------------------
(* The monitor.                                                            *)

\* It prints a sample, and blocks while the pipe is full.  What it prints
\* without cpupower's columns cannot be merged.
PrintSample ==
    /\ monitor /\ Len(pipe) < PipeSize
    /\ pipe' = Append(pipe, TRUE)
    /\ UNCHANGED <<client, link, s2c, monitor, server, backlog, served, faults>>

PrintBadSample ==
    /\ Fault
    /\ monitor /\ Len(pipe) < PipeSize
    /\ pipe' = Append(pipe, FALSE)
    /\ UNCHANGED <<client, link, s2c, monitor, server, backlog, served>>

\* The cgroup has no cores: the call that would report it raises.
MonitorDies ==
    /\ Fault
    /\ monitor /\ monitor' = FALSE
    /\ UNCHANGED <<client, link, s2c, pipe, server, backlog, served>>

-----------------------------------------------------------------------------
(* The sender, and the loop that restarts it.                              *)

Connect ==
    /\ cpc = "connect" /\ spc # "dead" /\ Len(backlog) < Backlog
    /\ backlog' = Append(backlog, NewConnection)
    /\ link' = "queued" /\ s2c' = <<>>
    /\ monitor' = TRUE /\ pipe' = <<>>
    /\ cpc' = "run"
    /\ UNCHANGED <<attempt, sent, server, served, faults>>

\* The third attempt that fails ends the process.
FailedAttempt ==
    /\ cpc = "connect"
    /\ IF attempt = 2 THEN cpc' = "ended" /\ UNCHANGED attempt
       ELSE attempt' = attempt + 1 /\ UNCHANGED cpc
    /\ UNCHANGED <<sent, link, s2c, source, server, backlog, served>>

\* Nobody listens, or the backlog is full.
ConnectFails ==
    /\ spc = "dead" \/ Len(backlog) = Backlog
    /\ FailedAttempt
    /\ UNCHANGED faults

\* The name is not resolved, or the host is not reached.
NetworkFails == Fault /\ FailedAttempt

\* The finally block: the monitor is terminated, the connection closed.
Ends ==
    /\ cpc' = "ended"
    /\ monitor' = FALSE /\ pipe' = <<>>
    /\ link' = "none" /\ s2c' = <<>>
    /\ SetMine([Mine EXCEPT !.eof = TRUE])
    /\ UNCHANGED <<attempt, sent, server>>

\* A sample is sent.  The first send after the server has closed succeeds,
\* and is answered by a reset; so does every one into a connection that was cut.
Send ==
    /\ cpc = "run" /\ pipe # <<>> /\ link # "rst"
    /\ pipe' = Tail(pipe)
    /\ sent' = (sent + 1) % Labels
    /\ SetMine([Mine EXCEPT !.data =
                    Append(@, [label |-> (sent + 1) % Labels, ok |-> Head(pipe)])])
    /\ link' = IF link = "fin" THEN "rst" ELSE link
    /\ cpc' = "reply"
    /\ UNCHANGED <<attempt, s2c, monitor, server, faults>>

\* Mutant: a failed send does not end the loop.
SendRaisesContinues ==
    /\ cpc = "run" /\ pipe # <<>> /\ link = "rst"
    /\ pipe' = Tail(pipe)
    /\ UNCHANGED <<client, link, s2c, monitor, server, backlog, served, faults>>

SendRaises ==
    /\ cpc = "run" /\ pipe # <<>> /\ link = "rst"
    /\ Ends
    /\ UNCHANGED faults

\* cpu.max cannot be read, or the line is not JSON: nothing catches it.
SampleRaises ==
    /\ Fault
    /\ cpc = "run" /\ pipe # <<>>
    /\ Ends

PipeEnds ==
    /\ cpc = "run" /\ pipe = <<>> /\ ~monitor
    /\ Ends
    /\ UNCHANGED faults

\* readline returns the next answer, whichever sample it was computed for.
Reply ==
    /\ cpc = "reply" /\ s2c # <<>>
    /\ s2c' = Tail(s2c)
    /\ cpc' = "run"
    /\ UNCHANGED <<attempt, sent, link, source, server, backlog, served, faults>>

\* Mutant: readline has a timeout, which is caught like the end of file.
ReplySkipsTimeout ==
    /\ cpc = "reply" /\ s2c = <<>>
    /\ cpc' = "run"
    /\ UNCHANGED <<attempt, sent, link, s2c, source, server, backlog, served,
                   faults>>

\* The server has closed: parsing "" raises, and the next sample is taken.
ReplySkips ==
    /\ cpc = "reply" /\ s2c = <<>> /\ link \in {"fin", "rst"}
    /\ cpc' = "run"
    /\ UNCHANGED <<attempt, sent, link, s2c, source, server, backlog, served,
                   faults>>

Restart ==
    /\ cpc = "ended"
    /\ cpc' = "connect" /\ attempt' = 0
    /\ UNCHANGED <<sent, link, s2c, source, server, backlog, served, faults>>

Client == \/ Connect \/ ConnectFails \/ Send \/ SendRaises \/ PipeEnds
          \/ Reply \/ ReplySkips \/ Restart

-----------------------------------------------------------------------------
(* The server.                                                             *)

MeasureOuter ==
    /\ spc = "outer" /\ spc' = "accept"
    /\ fresh' = TRUE
    /\ UNCHANGED <<client, link, s2c, source, backlog, served, partial, lines,
                   faults>>

\* The first get_local_feature_map of the loop is outside the try: what it
\* raises ends the process, and with it every connection.
ServerDies ==
    /\ Fault
    /\ spc = "outer" /\ spc' = "dead"
    /\ backlog' = <<>>
    /\ link' = IF link = "queued" THEN "rst" ELSE link
    /\ UNCHANGED <<client, s2c, source, served, partial, lines, fresh>>

AcceptTimeout ==
    /\ spc = "accept" /\ backlog = <<>>
    /\ spc' = "outer"
    /\ UNCHANGED <<client, link, s2c, source, backlog, served, partial, lines,
                   fresh, faults>>

Accept ==
    /\ spc = "accept" /\ backlog # <<>>
    /\ served' = Head(backlog) /\ backlog' = Tail(backlog)
    /\ link' = IF link = "queued" /\ Len(backlog) = 1 THEN "served" ELSE link
    /\ spc' = "local" /\ partial' = FALSE
    /\ UNCHANGED <<client, s2c, source, lines, fresh, faults>>

MeasureLocal ==
    /\ spc = "local" /\ spc' = "recv"
    /\ fresh' = TRUE
    /\ UNCHANGED <<client, link, s2c, source, backlog, served, partial, lines,
                   faults>>

\* The with block is left: closing a connection with unread data resets it.
Close ==
    /\ spc' = "outer"
    /\ lines' = <<>>
    /\ link' = IF link # "served" THEN link
               ELSE IF served.data = <<>> THEN "fin" ELSE "rst"
    /\ UNCHANGED <<client, s2c, source, backlog, served, partial, fresh>>

MeasureRaises ==
    /\ Fault
    /\ spc = "local"
    /\ Close

\* recv(4096) returns all there is, or a part of it that ends inside a line.
Recv ==
    /\ spc = "recv" /\ served.data # <<>>
    /\ spc' = "respond"
    /\ lines' = served.data /\ partial' = FALSE
    /\ served' = [served EXCEPT !.data = <<>>]
    /\ UNCHANGED <<client, link, s2c, source, backlog, fresh, faults>>

RecvPart ==
    /\ spc = "recv" /\ served.data # <<>> /\ ~partial
    /\ spc' = "local" /\ partial' = TRUE
    /\ UNCHANGED <<client, link, s2c, source, backlog, served, lines, fresh,
                   faults>>

RecvEnd ==
    /\ spc = "recv" /\ served.data = <<>> /\ served.eof
    /\ Close
    /\ UNCHANGED faults

\* After an answer the next line of this recv is taken, or else a new map.
Answered == IF Len(lines) > 1 THEN "respond" ELSE "local"

\* merge_remote_data, predict_power_all and sendall.
Respond ==
    /\ spc = "respond" /\ Head(lines).ok
    /\ s2c' = IF link = "served" THEN Append(s2c, Head(lines).label) ELSE s2c
    /\ lines' = Tail(lines)
    /\ spc' = Answered
    /\ fresh' = FALSE
    /\ UNCHANGED <<client, link, source, backlog, served, partial, faults>>

\* Mutant: a line that cannot be merged is skipped, as rec.py does.
RespondSkips ==
    /\ spc = "respond" /\ ~Head(lines).ok
    /\ lines' = Tail(lines)
    /\ spc' = Answered
    /\ UNCHANGED <<client, link, s2c, source, backlog, served, partial, fresh,
                   faults>>

\* A line that cannot be merged: the exception leaves the with block.
RespondRaises ==
    /\ spc = "respond" /\ ~Head(lines).ok
    /\ Close
    /\ UNCHANGED faults

Server == \/ MeasureOuter \/ AcceptTimeout \/ Accept \/ MeasureLocal
          \/ Recv \/ RecvPart \/ RecvEnd \/ Respond \/ RespondRaises

-----------------------------------------------------------------------------
(* The network.                                                            *)

\* The connection is cut and neither end is told; what was under way in each
\* direction may be lost.
Cut ==
    /\ Fault
    /\ link \in {"queued", "served"}
    /\ link' = "cut"
    /\ \E d \in {Mine.data, <<>>} :
           SetMine([Mine EXCEPT !.data = d, !.lost = TRUE])
    /\ s2c' \in {s2c, <<>>}
    /\ UNCHANGED <<client, source, server>>

\* A kernel that still retransmits gives up.  An end that only waits to
\* receive retransmits nothing, so nothing makes this happen.
ClientGivesUp ==
    /\ link = "cut" /\ link' = "rst"
    /\ UNCHANGED <<client, s2c, source, server, backlog, served, faults>>

ServerGivesUp ==
    /\ Serving /\ served.lost /\ ~served.eof
    /\ served' = [served EXCEPT !.eof = TRUE]
    /\ UNCHANGED <<client, link, s2c, source, server, backlog, faults>>

-----------------------------------------------------------------------------

Next ==
    \/ PrintSample \/ PrintBadSample \/ MonitorDies
    \/ Client \/ NetworkFails \/ SampleRaises
    \/ Server \/ ServerDies \/ MeasureRaises
    \/ Cut \/ ClientGivesUp \/ ServerGivesUp

Spec == Init /\ [][Next]_vars

\* The processes run; each of their waits but readline, recv and connect,
\* whose guards say when they return, ends by itself.
FairSpec ==
    Spec /\ WF_vars(PrintSample) /\ WF_vars(Client) /\ WF_vars(Server)

-----------------------------------------------------------------------------
(* Properties                                                              *)

Flags ==
    /\ monitor \in BOOLEAN /\ pipe \in Seq(BOOLEAN)
    /\ partial \in BOOLEAN /\ fresh \in BOOLEAN

\* Every variable stays in its range: send_print_throttle.py gives up after
\* its third attempt.
TypeOK ==
    /\ cpc \in {"connect", "run", "reply", "ended"}
    /\ attempt \in 0..2
    /\ sent \in 0..(Labels - 1)
    /\ link \in {"none", "queued", "served", "fin", "rst", "cut"}
    /\ s2c \in Seq(0..(Labels - 1))
    /\ spc \in {"outer", "accept", "local", "recv", "respond", "dead"}
    /\ backlog \in Seq(Connections) /\ served \in Connections
    /\ lines \in Seq(Lines)
    /\ faults \in 0..MaxFaults
    /\ Flags

\* What has become of the sample sent last.  Only while its connection waits
\* or is served can it still be answered.
Status == IF cpc # "reply" THEN "idle"
          ELSE IF s2c # <<>> THEN "answered"
          ELSE IF link \in {"queued", "served"} THEN "asked"
          ELSE "lost"

Exchange == INSTANCE Estimates WITH status <- Status, sample <- sent, answers <- s2c

\* The messages carry no number, the sender goes on after a failed readline,
\* connections are cut and processes restart; yet the two programs implement
\* the exchange of one sample for its one estimate.
ExchangeSpec == Exchange!Spec

\* The blocking recv returns: if there is nothing to receive, and the
\* connection was not cut, its sender is the present one and is not itself
\* waiting for an answer.
NeverBothWait ==
    spc = "recv" /\ served.data = <<>> /\ ~served.eof /\ ~served.lost
        => link = "served" /\ (cpc = "reply" => s2c # <<>>)

Lost == \/ link = "cut"
        \/ Serving /\ served.lost /\ ~served.eof
        \/ \E i \in DOMAIN backlog : backlog[i].lost /\ ~backlog[i].eof

\* The faults here are finitely many.  After them the restart loop gets the
\* estimates flowing again, unless the server has died or one end still
\* holds a connection that was cut without notice.
EstimatesResume ==
    []<><<Reply>>_vars \/ <>[](spc = "dead") \/ <>[]Lost
=============================================================================
