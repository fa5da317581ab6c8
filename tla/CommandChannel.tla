--------------------------- MODULE CommandChannel ---------------------------
(* The command channel from management to the forwarding workers:           *)
(* emitMwNfdcCommand (daemon/mw-nfd/mw-nfd-global.cpp) against the command   *)
(* part of the worker loop (daemon/mw-nfd/mw-nfd-worker.cpp).                *)
(*                                                                          *)
(* Every emitting thread uses the one UDP socket g_nfdcSocket, so there is   *)
(* one buffer of replies, and one flag per worker telling it to look at its  *)
(* own socket.  The main thread emits for nfdc commands; an input thread     *)
(* emits when a face it owns is created or closed (FaceTable::add, remove).  *)
EXTENDS ForwardingWorkers, Sequences

CONSTANTS
    Emitters,   \* threads that call emitMwNfdcCommand
    Cmds,       \* commands; each is emitted at most once
    NoCmd

ASSUME ChannelAssumption == NWorkers \in Nat \ {0} /\ NoCmd \notin Cmds

VARIABLES
    pc,        \* where each emitter is in emitMwNfdcCommand
    cmd,       \* the command of its call
    idx,       \* loop index: the worker it is talking to
    got,       \* the replies its call has received, in order
    flag,      \* g_mwNfdCmdFlags
    inbox,     \* receive buffer of each worker's socket
    replies,   \* receive buffer of g_nfdcSocket
    wpc,       \* where each worker is in its loop
    wcmd,      \* the command it is answering
    call, log  \* history: state of each call, commands executed by each worker

emitterVars == <<pc, cmd, idx, got, call>>
workerVars == <<wpc, wcmd, log>>
vars == <<emitterVars, flag, inbox, replies, workerVars>>

Reply == [from : Workers, cmd : Cmds]

TypeOK ==
    /\ pc \in [Emitters -> {"idle", "send", "raise", "recv", "lower"}]
    /\ cmd \in [Emitters -> Cmds \cup {NoCmd}]
    /\ idx \in [Emitters -> Workers]
    /\ got \in [Emitters -> Seq(Reply)]
    /\ flag \in [Workers -> BOOLEAN]
    /\ inbox \in [Workers -> Seq(Cmds)]
    /\ replies \in Seq(Reply)
    /\ wpc \in [Workers -> {"loop", "recv", "reply"}]
    /\ wcmd \in [Workers -> Cmds \cup {NoCmd}]
    /\ call \in [Cmds -> {"none", "open", "returned"}]
    /\ log \in [Workers -> Seq(Cmds)]

\* resetCommandRx() in main, before any thread runs
Init ==
    /\ pc = [e \in Emitters |-> "idle"]
    /\ cmd = [e \in Emitters |-> NoCmd]
    /\ idx = [e \in Emitters |-> 0]
    /\ got = [e \in Emitters |-> <<>>]
    /\ flag = [w \in Workers |-> FALSE]
    /\ inbox = [w \in Workers |-> <<>>]
    /\ replies = <<>>
    /\ wpc = [w \in Workers |-> "loop"]
    /\ wcmd = [w \in Workers |-> NoCmd]
    /\ call = [c \in Cmds |-> "none"]
    /\ log = [w \in Workers |-> <<>>]

-----------------------------------------------------------------------------
\* emitMwNfdcCommand is entered.
emit(e, c) ==
    /\ pc[e] = "idle"
    /\ call[c] = "none"
    /\ pc' = [pc EXCEPT ![e] = "send"]
    /\ cmd' = [cmd EXCEPT ![e] = c]
    /\ idx' = [idx EXCEPT ![e] = 0]
    /\ got' = [got EXCEPT ![e] = <<>>]
    /\ call' = [call EXCEPT ![c] = "open"]
    /\ UNCHANGED <<flag, inbox, replies, workerVars>>

sendto(e) ==
    /\ pc[e] = "send"
    /\ inbox' = [inbox EXCEPT ![idx[e]] = Append(@, cmd[e])]
    /\ pc' = [pc EXCEPT ![e] = "raise"]
    /\ UNCHANGED <<cmd, idx, got, call, flag, replies, workerVars>>

\* setCommandRx(i, true)
raiseFlag(e) ==
    /\ pc[e] = "raise"
    /\ flag' = [flag EXCEPT ![idx[e]] = TRUE]
    /\ pc' = [pc EXCEPT ![e] = "recv"]
    /\ UNCHANGED <<cmd, idx, got, call, inbox, replies, workerVars>>

\* A recvfrom that gives up when there is no reply yet.
recvReplyNonblocking(e) ==
    /\ pc[e] = "recv"
    /\ IF replies # <<>>
       THEN /\ got' = [got EXCEPT ![e] = Append(@, Head(replies))]
            /\ replies' = Tail(replies)
       ELSE UNCHANGED <<got, replies>>
    /\ pc' = [pc EXCEPT ![e] = "lower"]
    /\ UNCHANGED <<cmd, idx, call, flag, inbox, workerVars>>

\* The blocking recvfrom takes whatever reply comes first.
recvReply(e) ==
    /\ pc[e] = "recv"
    /\ replies # <<>>
    /\ got' = [got EXCEPT ![e] = Append(@, Head(replies))]
    /\ replies' = Tail(replies)
    /\ pc' = [pc EXCEPT ![e] = "lower"]
    /\ UNCHANGED <<cmd, idx, call, flag, inbox, workerVars>>

\* The condition of the loop over the workers, after i.
MoreWorkersShort(i) == i + 2 < NWorkers
MoreWorkers(i) == i + 1 < NWorkers

\* setCommandRx(i, false), then the next worker or return.
lowerFlag(e) ==
    /\ pc[e] = "lower"
    /\ flag' = [flag EXCEPT ![idx[e]] = FALSE]
    /\ IF MoreWorkers(idx[e])
       THEN /\ idx' = [idx EXCEPT ![e] = @ + 1]
            /\ pc' = [pc EXCEPT ![e] = "send"]
            /\ UNCHANGED call
       ELSE /\ pc' = [pc EXCEPT ![e] = "idle"]
            /\ call' = [call EXCEPT ![cmd[e]] = "returned"]
            /\ UNCHANGED idx
    /\ UNCHANGED <<cmd, got, inbox, replies, workerVars>>

\* runWorker: getCommandRx(m_workerId) is read once a turn of the loop.
pollFlag(w) ==
    /\ wpc[w] = "loop"
    /\ flag[w]
    /\ wpc' = [wpc EXCEPT ![w] = "recv"]
    /\ UNCHANGED <<wcmd, log, emitterVars, flag, inbox, replies>>

\* handleNfdcCommand: the non-blocking recvfrom finds nothing, or a command
\* that processNfdcCommand executes.
recvNothing(w) ==
    /\ wpc[w] = "recv"
    /\ inbox[w] = <<>>
    /\ wpc' = [wpc EXCEPT ![w] = "loop"]
    /\ UNCHANGED <<wcmd, log, emitterVars, flag, inbox, replies>>

processNfdcCommand(w) ==
    /\ wpc[w] = "recv"
    /\ inbox[w] # <<>>
    /\ wcmd' = [wcmd EXCEPT ![w] = Head(inbox[w])]
    /\ inbox' = [inbox EXCEPT ![w] = Tail(@)]
    /\ log' = [log EXCEPT ![w] = Append(@, Head(inbox[w]))]
    /\ wpc' = [wpc EXCEPT ![w] = "reply"]
    /\ UNCHANGED <<emitterVars, flag, replies>>

reply(w) ==
    /\ wpc[w] = "reply"
    /\ replies' = Append(replies, [from |-> w, cmd |-> wcmd[w]])
    /\ wcmd' = [wcmd EXCEPT ![w] = NoCmd]
    /\ wpc' = [wpc EXCEPT ![w] = "loop"]
    /\ UNCHANGED <<log, emitterVars, flag, inbox>>

EmitterStep(e) == sendto(e) \/ raiseFlag(e) \/ recvReply(e) \/ lowerFlag(e)
WorkerStep(w) == pollFlag(w) \/ recvNothing(w) \/ processNfdcCommand(w) \/ reply(w)

Next == \/ \E e \in Emitters : EmitterStep(e) \/ \E c \in Cmds : emit(e, c)
        \/ \E w \in Workers : WorkerStep(w)

\* Threads are scheduled: a call that can proceed does, and a worker keeps
\* turning its loop.  Nothing obliges anyone to make a call.
Fairness == /\ \A e \in Emitters : WF_vars(EmitterStep(e))
            /\ \A w \in Workers : WF_vars(WorkerStep(w))

Spec == Init /\ [][Next]_vars /\ Fairness

-----------------------------------------------------------------------------
\* A call that has returned was executed by every worker: emitMwNfdcCommand
\* is documented to emit to all of them ("-1, all emit"), and FaceTable::remove
\* frees the face on the strength of it.
AllEmit ==
    \A c \in Cmds : call[c] = "returned" =>
        \A w \in Workers : \E i \in 1 .. Len(log[w]) : log[w][i] = c

\* The replies a call adds up (retval of CS ERASE) are the answers of the
\* workers, in order, to its own command.
OwnReplies ==
    \A e \in Emitters : \A i \in 1 .. Len(got[e]) :
        got[e][i] = [from |-> i - 1, cmd |-> cmd[e]]

\* The channel does what its callers rely on.
Broadcast == INSTANCE CommandBroadcast WITH call <- call, log <- log
RefinesBroadcast == Broadcast!BSpec
=============================================================================
